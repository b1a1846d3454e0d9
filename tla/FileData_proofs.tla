--------------------------- MODULE FileData_proofs ---------------------------
(***************************************************************************)
(* Theorems about the contents of ext4 files and their extent trees, for   *)
(* any number of files, paths and blocks and blocks of any size.           *)
(***************************************************************************)
EXTENDS FileData, Minimum, FiniteSetTheorems

-----------------------------------------------------------------------------
(* Lists of extents *)

\* Entry x of list l is for logical block n.
Holds(l, x, n) == x \in DOMAIN l /\ n \in l[x].block .. l[x].block + l[x].len - 1

\* Entry x of list l has block b of the device.
Phys(l, x, b) == x \in DOMAIN l /\ b \in l[x].start .. l[x].start + l[x].len - 1

\* Entry by entry, l2 has what l has.
Extends(l, l2) ==
    \A x \in DOMAIN l : /\ x \in DOMAIN l2 /\ l2[x].block = l[x].block
                        /\ l2[x].start = l[x].start /\ l2[x].len >= l[x].len

\* l2 is l and, in its last entry, logical block n at block b.
Grows(l, l2, n, b) ==
    /\ l2 \in Seq(Extents) /\ Len(l2) \in {Len(l), Len(l) + 1} /\ l2 # <<>>
    /\ Extends(l, l2)
    /\ \A x, m : Holds(l2, x, m) <=> Holds(l, x, m) \/ (x = Len(l2) /\ m = n)
    /\ \A x, c : Phys(l2, x, c) <=> Phys(l, x, c) \/ (x = Len(l2) /\ c = b)

LEMMA ExtentsTyped ==
    ASSUME NEW e \in Extents
    PROVE  e.block \in Offsets /\ e.len \in 1 .. MaxLen /\ e.start \in Blocks
           /\ e.block \in Nat /\ e.len \in Nat /\ e.start \in Nat
  BY SizesAssumption, BoundsAssumption DEF Extents, Offsets, Blocks

LEMMA ExtentOf ==
    ASSUME NEW n \in Offsets, NEW b \in Blocks
    PROVE  Extent(n, 1, b) \in Extents
           /\ Extent(n, 1, b).block = n /\ Extent(n, 1, b).len = 1 /\ Extent(n, 1, b).start = b
  BY SizesAssumption DEF Extents, Extent

LEMMA AppendGrows ==
    ASSUME NEW l \in Seq(Extents), NEW n \in Offsets, NEW b \in Blocks
    PROVE  Grows(l, Append(l, Extent(n, 1, b)), n, b)
  <1> DEFINE e == Extent(n, 1, b)
             l2 == Append(l, e)
  <1>1. e \in Extents /\ e.block = n /\ e.len = 1 /\ e.start = b
    BY ExtentOf
  <1>2. n \in Nat /\ b \in Nat
    BY <1>1, ExtentsTyped
  <1> HIDE DEF e
  <1>3. l2 \in Seq(Extents) /\ Len(l2) = Len(l) + 1 /\ l2 # <<>> /\ l2[Len(l2)] = e
        /\ DOMAIN l2 = 1 .. Len(l2) /\ DOMAIN l = 1 .. Len(l) /\ Len(l) \in Nat
        /\ \A x \in 1 .. Len(l) : l2[x] = l[x]
    BY <1>1
  <1> HIDE DEF l2
  <1>4. \A x \in DOMAIN l : l[x] \in Extents
    BY <1>3
  <1>5. \A x \in DOMAIN l : l[x].len \in Nat /\ x # Len(l2)
    BY <1>3, <1>4, ExtentsTyped
  <1>6. Extends(l, l2)
    BY <1>3, <1>5 DEF Extends
  <1>7. \A x, m : Holds(l2, x, m) <=> Holds(l, x, m) \/ (x = Len(l2) /\ m = n)
    BY <1>1, <1>2, <1>3 DEF Holds
  <1>8. \A x, c : Phys(l2, x, c) <=> Phys(l, x, c) \/ (x = Len(l2) /\ c = b)
    BY <1>1, <1>2, <1>3 DEF Phys
  <1>9. Grows(l, l2, n, b)
    BY <1>3, <1>6, <1>7, <1>8 DEF Grows
  <1> QED
    BY <1>9 DEF l2, e

LEMMA RangeGrows ==
    ASSUME NEW a \in Nat, NEW c \in Nat \ {0}
    PROVE  a .. a + (c + 1) - 1 = (a .. a + c - 1) \union {a + c}
  OBVIOUS

LEMMA ExtendedGrows ==
    ASSUME NEW l \in Seq(Extents), NEW n \in Offsets, NEW b \in Blocks
    PROVE  Grows(l, Extended(l, Extent(n, 1, b)), n, b)
  <1> DEFINE e == Extent(n, 1, b)
             l2 == Extended(l, e)
             k == Len(l)
  <1>1. CASE ~(l # <<>> /\ Continues(Last(l), e))
    BY <1>1, AppendGrows DEF Extended
  <1>2. CASE l # <<>> /\ Continues(Last(l), e)
    <2>1. e \in Extents /\ e.block = n /\ e.len = 1 /\ e.start = b /\ n \in Nat /\ b \in Nat
      BY ExtentOf, ExtentsTyped
    <2> HIDE DEF e
    <2>2. k \in 1 .. Len(l) /\ l[k] \in Extents /\ DOMAIN l = 1 .. k /\ k \in Nat
      BY <1>2
    <2>3. Last(l) = l[k]
      BY DEF Last
    <2>4. l[k].block + l[k].len = n /\ l[k].start + l[k].len = b /\ l[k].len + 1 <= MaxLen
          /\ l[k].block \in Nat /\ l[k].len \in Nat \ {0} /\ l[k].start \in Nat
      BY <1>2, <2>1, <2>2, <2>3, ExtentsTyped DEF Continues
    <2>5. l2 = [l EXCEPT ![k] = [l[k] EXCEPT !.len = l[k].len + 1]]
      BY <1>2, <2>1 DEF Extended
    <2>6. [l[k] EXCEPT !.len = l[k].len + 1] \in Extents
      <3>1. l[k].len + 1 \in 1 .. MaxLen
        BY <2>4, SizesAssumption
      <3> HIDE DEF k
      <3> QED
        BY <2>2, <3>1 DEF Extents
    <2> HIDE DEF l2
    <2>7. l2 \in Seq(Extents) /\ Len(l2) = k /\ l2 # <<>> /\ DOMAIN l2 = 1 .. k
      BY <2>2, <2>5, <2>6
    <2>8. \A x \in 1 .. k : x # k => l2[x] = l[x]
      BY <2>2, <2>5
    <2>9. l2[k].block = l[k].block /\ l2[k].start = l[k].start /\ l2[k].len = l[k].len + 1
      BY <2>2, <2>5 DEF Extents
    <2>10. \A x \in 1 .. k : l[x].len \in Nat
      BY <2>2, ExtentsTyped
    <2> HIDE DEF k
    <2>11. Extends(l, l2)
      BY <2>2, <2>4, <2>7, <2>8, <2>9, <2>10 DEF Extends
    <2>12. \A x, m : Holds(l2, x, m) <=> Holds(l, x, m) \/ (x = k /\ m = n)
      <3> TAKE x, m
      <3>1. CASE x = k
        <4>1. l2[k].block .. l2[k].block + l2[k].len - 1
              = (l[k].block .. l[k].block + l[k].len - 1) \union {n}
          BY <2>4, <2>9, RangeGrows
        <4> QED
          BY <3>1, <4>1, <2>2, <2>7 DEF Holds
      <3>2. CASE x # k
        BY <3>2, <2>2, <2>7, <2>8 DEF Holds
      <3> QED
        BY <3>1, <3>2
    <2>13. \A x, c : Phys(l2, x, c) <=> Phys(l, x, c) \/ (x = k /\ c = b)
      <3> TAKE x, c
      <3>1. CASE x = k
        <4>1. l2[k].start .. l2[k].start + l2[k].len - 1
              = (l[k].start .. l[k].start + l[k].len - 1) \union {b}
          BY <2>4, <2>9, RangeGrows
        <4> QED
          BY <3>1, <4>1, <2>2, <2>7 DEF Phys
      <3>2. CASE x # k
        BY <3>2, <2>2, <2>7, <2>8 DEF Phys
      <3> QED
        BY <3>1, <3>2
    <2>14. Grows(l, l2, n, b)
      BY <2>7, <2>11, <2>12, <2>13 DEF Grows, k
    <2> QED
      BY <2>14 DEF l2, e
  <1> QED
    BY <1>1, <1>2

LEMMA ExtendsTransitive ==
    ASSUME NEW l \in Seq(Extents), NEW l2 \in Seq(Extents), NEW l3 \in Seq(Extents),
           Extends(l, l2), Extends(l2, l3)
    PROVE  Extends(l, l3)
  <1>1. \A x \in DOMAIN l : x \in DOMAIN l2 /\ x \in DOMAIN l3
                            /\ l[x].len \in Nat /\ l2[x].len \in Nat /\ l3[x].len \in Nat
    <2>1. \A x \in DOMAIN l : x \in DOMAIN l2 /\ x \in DOMAIN l3
      BY DEF Extends
    <2>2. \A x \in DOMAIN l : l[x] \in Extents /\ l2[x] \in Extents /\ l3[x] \in Extents
      BY <2>1
    <2> QED
      BY <2>1, <2>2, ExtentsTyped
  <1> QED
    BY <1>1 DEF Extends

LEMMA ExtendsSelf ==
    ASSUME NEW l \in Seq(Extents)
    PROVE  Extends(l, l)
  <1>1. \A x \in DOMAIN l : l[x].len \in Nat
    BY ExtentsTyped
  <1> QED
    BY <1>1 DEF Extends

-----------------------------------------------------------------------------
(* Room in a leaf *)

\* Every word of a file has its place in a single leaf.
NoSplit == \A f \in Files : MaxSize[f] <= LeafMax * BlockWords

\* The logical blocks a file may have.
Logical(f) == {n \in 0 .. MaxSize[f] : n * BlockWords < MaxSize[f]}

LEMMA LogicalBelow ==
    ASSUME NoSplit, NEW f \in Files, NEW n \in Logical(f)
    PROVE  n \in Nat /\ n < LeafMax /\ n \in Offsets
  <1>1. MaxSize[f] \in Nat /\ MaxSize[f] <= LeafMax * BlockWords /\ LeafMax \in Nat /\ BlockWords \in Nat \ {0}
    BY SizesAssumption, NodesAssumption, BoundsAssumption DEF NoSplit
  <1>2. n \in Nat /\ n * BlockWords < LeafMax * BlockWords
    BY <1>1 DEF Logical
  <1>3. n < LeafMax
    <2>1. LeafMax <= n => LeafMax * BlockWords <= n * BlockWords
      BY <1>1, <1>2
    <2>2. LeafMax * BlockWords \in Nat /\ n * BlockWords \in Nat
      BY <1>1, <1>2
    <2> QED
      BY <1>1, <1>2, <2>1, <2>2
  <1> QED
    BY <1>1, <1>2, <1>3 DEF Logical, Offsets

\* No logical block is in two entries of the list, and all are the file's.
Orderly(l, f) ==
    /\ l \in Seq(Extents)
    /\ \A x, y, n : Holds(l, x, n) /\ Holds(l, y, n) => x = y
    /\ \A x, n : Holds(l, x, n) => n \in Logical(f)

LEMMA LeafHasRoom ==
    ASSUME NoSplit, NEW f \in Files, NEW l, Orderly(l, f), NEW n \in Logical(f),
           \A x : ~Holds(l, x, n)
    PROVE  Len(l) < LeafMax
  <1> DEFINE S == 1 .. Len(l)
             T == (0 .. LeafMax - 1) \ {n}
             m == [x \in S |-> l[x].block]
  <1>1. Len(l) \in Nat /\ DOMAIN l = S /\ LeafMax \in Nat \ {0} /\ n \in 0 .. LeafMax - 1
    BY LogicalBelow, NodesAssumption DEF Orderly
  <1>2. \A x \in S : Holds(l, x, l[x].block)
    <2> TAKE x \in S
    <2>1. l[x] \in Extents
      BY <1>1 DEF Orderly
    <2> QED
      BY <1>1, <2>1, ExtentsTyped DEF Holds
  <1>3. \A x \in S : m[x] \in T
    <2> TAKE x \in S
    <2>1. l[x].block \in Logical(f) /\ l[x].block # n
      BY <1>2 DEF Orderly
    <2>2. l[x].block \in Nat /\ l[x].block < LeafMax
      BY <2>1, LogicalBelow
    <2> QED
      BY <1>1, <2>1, <2>2
  <1>4. \A x, y \in S : m[x] = m[y] => x = y
    BY <1>2 DEF Orderly
  <1>5. IsFiniteSet(T) /\ Cardinality(T) = LeafMax - 1
    <2>1. IsFiniteSet(0 .. LeafMax - 1) /\ Cardinality(0 .. LeafMax - 1) = LeafMax
      <3>1. 0 \in Int /\ LeafMax - 1 \in Int /\ ~(0 > LeafMax - 1) /\ LeafMax - 1 - 0 + 1 = LeafMax
        BY <1>1
      <3> QED
        BY <3>1, FS_Interval
    <2> DEFINE U == 0 .. LeafMax - 1
    <2>2. IsFiniteSet(U) /\ Cardinality(U) = LeafMax /\ n \in U
      BY <1>1, <2>1
    <2> HIDE DEF U
    <2>3. IsFiniteSet(U \ {n}) /\ Cardinality(U \ {n}) = LeafMax - 1
      BY <2>2, FS_RemoveElement
    <2> QED
      BY <2>3 DEF U
  <1>6. IsFiniteSet(S) /\ Cardinality(S) = Len(l)
    <2>1. 1 \in Int /\ Len(l) \in Int /\ (1 > Len(l) => Len(l) = 0) /\ Len(l) - 1 + 1 = Len(l)
      BY <1>1
    <2> QED
      BY <2>1, FS_Interval
  <1>7. m \in Injection(S, T)
    <2>1. m \in [S -> T]
      BY <1>3
    <2> HIDE DEF m, S, T
    <2> QED
      BY <1>4, <2>1 DEF Injection, IsInjective
  <1>8. Cardinality(S) <= Cardinality(T)
    <2> HIDE DEF m, S, T
    <2> QED
      BY <1>5, <1>7, FS_Injection
  <1> QED
    BY <1>1, <1>5, <1>6, <1>8

-----------------------------------------------------------------------------
(* Trees *)

Indexes == [block : Offsets, leaf : Blocks]
Roots == [depth : {0, 1}, count : Nat, entries : Seq(Extents) \union Seq(Indexes)]
Inodes == [size : Nat, root : Roots]
DeviceBlocks == [node : BOOLEAN, words : [1 .. BlockWords -> Words],
                 extents : {l \in Seq(Extents) : Len(l) <= LeafMax}]
Devices == [inode : [Files -> Inodes], used : SUBSET Blocks, block : [Blocks -> DeviceBlocks]]

\* A tree with root r, the device holding the blocks B.
LeafOf(r) == r.entries[1].leaf
List(r, B) == IF r.depth = 0 THEN r.entries ELSE B[LeafOf(r)].extents

Tree(r, B) ==
    \/ r.depth = 0 /\ r.entries \in Seq(Extents) /\ Len(r.entries) <= RootMax /\ Len(r.entries) <= r.count
    \/ /\ r.depth = 1 /\ r.entries \in Seq(Indexes) /\ Len(r.entries) = 1
       /\ B[LeafOf(r)].node

\* The header counts what is there.
Counted(r) == r.depth = 0 => r.count = Len(r.entries)

\* Block b is the leaf (x = 0) or in extent x of the tree.
Has(r, B, x, b) ==
    \/ x = 0 /\ r.depth = 1 /\ b = LeafOf(r)
    \/ Phys(List(r, B), x, b)

\* The trees of the inodes I on the blocks B, of which U are in use.
TreesOK(I, B) == \A f \in Files : Tree(I[f].root, B) /\ Orderly(List(I[f].root, B), f)
InUse(I, B, U) == \A f \in Files : \A x, b : Has(I[f].root, B, x, b) => b \in U \ {0}
Apart(I, B) ==
    \A f, g \in Files : \A x, y, b :
        Has(I[f].root, B, x, b) /\ Has(I[g].root, B, y, b) => f = g /\ x = y
Sound(I, B, U) == TreesOK(I, B) /\ InUse(I, B, U) /\ Apart(I, B) /\ 0 \in U

LEMMA TreeTyped ==
    ASSUME NEW r \in Roots, NEW B \in [Blocks -> DeviceBlocks], Tree(r, B)
    PROVE  /\ List(r, B) \in Seq(Extents)
           /\ r.depth = 1 => LeafOf(r) \in Blocks /\ B[LeafOf(r)] \in DeviceBlocks /\ List(r, B) = B[LeafOf(r)].extents
           /\ r.depth = 0 => List(r, B) = r.entries
           /\ r.depth \in {0, 1}
  <1>1. r.depth \in {0, 1}
    BY DEF Roots
  <1>2. CASE r.depth = 0
    BY <1>2 DEF Tree, List
  <1>3. CASE r.depth = 1
    <2>1. r.entries[1] \in Indexes
      BY <1>3 DEF Tree
    <2>2. LeafOf(r) \in Blocks
      BY <2>1 DEF Indexes, LeafOf
    <2>3. B[LeafOf(r)] \in DeviceBlocks
      BY <2>2
    <2>4. B[LeafOf(r)].extents \in Seq(Extents)
      BY <2>3 DEF DeviceBlocks
    <2> QED
      BY <1>3, <2>2, <2>3, <2>4 DEF List
  <1> QED
    BY <1>1, <1>2, <1>3

LEMMA FlattenOne ==
    ASSUME NEW s, Len(s) = 1
    PROVE  FlattenSeq(s) = s[1]
  <1> DEFINE Flattens(t) == t = [i \in 1 .. Len(s) |-> IF i = 1 THEN s[i] ELSE t[i - 1] \o s[i]]
             u == CHOOSE t : Flattens(t)
  <1>1. Flattens([i \in 1 .. 1 |-> s[1]])
    OBVIOUS
  <1>2. Flattens(u)
    <2> HIDE DEF Flattens
    <2> QED
      BY <1>1, Zenon
  <1>3. Len(s) # 0
    OBVIOUS
  <1>4. FlattenSeq(s) = u[Len(s)]
    BY <1>3, Zenon DEF FlattenSeq
  <1> HIDE DEF u
  <1>5. u[1] = s[1]
    BY <1>2
  <1> QED
    BY <1>4, <1>5

\* ReadExtents gives the list of a tree, if its header counts what is there.
LEMMA ReadExtentsIs ==
    ASSUME NEW d, NEW mem, mem.root \in Roots, d.block \in [Blocks -> DeviceBlocks],
           Tree(mem.root, d.block)
    PROVE  /\ ReadExtents(d, mem).list = List(mem.root, d.block)
           /\ ReadExtents(d, mem).ok <=> Counted(mem.root)
  <1> DEFINE r == mem.root
             B == d.block
  <1>1. CASE r.depth = 0
    <2>1. r.count \in Nat /\ Len(r.entries) \in Nat /\ Len(r.entries) <= r.count
      BY <1>1 DEF Roots, Tree
    <2> QED
      <3>1. ReadExtents(d, mem) = [ok |-> r.count <= Len(r.entries), list |-> r.entries]
        BY <1>1, Zenon DEF ReadExtents
      <3>2. r.count <= Len(r.entries) <=> r.count = Len(r.entries)
        BY <2>1
      <3>3. ReadExtents(d, mem).list = r.entries /\ (ReadExtents(d, mem).ok <=> r.count <= Len(r.entries))
        <4> DEFINE few == r.count <= Len(r.entries)
        <4> HIDE DEF few
        <4>1. ReadExtents(d, mem) = [ok |-> few, list |-> r.entries]
          BY <3>1, Zenon DEF few
        <4>2. ReadExtents(d, mem).ok = few
          BY <4>1
        <4>3. ReadExtents(d, mem).list = r.entries
          BY <4>1
        <4>4. ReadExtents(d, mem).ok <=> few
          BY <4>2, Zenon
        <4> QED
          BY <4>3, <4>4 DEF few
      <3> QED
        BY <1>1, <3>2, <3>3 DEF List, Counted
  <1>2. CASE r.depth = 1
    <2> DEFINE leaves == [i \in DOMAIN mem.root.entries |-> d.block[mem.root.entries[i].leaf]]
               lists == [i \in DOMAIN leaves |-> leaves[i].extents]
    <2>1. DOMAIN r.entries = 1 .. 1 /\ mem.root.depth # 0
      BY <1>2 DEF Tree
    <2>2. lists = [i \in 1 .. 1 |-> B[LeafOf(r)].extents] /\ leaves = [i \in 1 .. 1 |-> B[LeafOf(r)]]
      BY <2>1 DEF LeafOf
    <2>3. Len(lists) = 1 /\ lists[1] = B[LeafOf(r)].extents
      <3> HIDE DEF lists, leaves
      <3> QED
        BY <2>2
    <2>4. B[LeafOf(r)].node
      BY <1>2 DEF Tree
    <2>5. /\ ReadExtents(d, mem).ok <=> \A i \in DOMAIN leaves : leaves[i].node
          /\ ReadExtents(d, mem).list = FlattenSeq(lists)
      <3>1. ReadExtents(d, mem) = IF mem.root.depth = 0
                                  THEN [ok |-> mem.root.count <= Len(mem.root.entries), list |-> mem.root.entries]
                                  ELSE [ok |-> \A i \in DOMAIN leaves : leaves[i].node, list |-> FlattenSeq(lists)]
        BY Zenon DEF ReadExtents
      <3> HIDE DEF leaves, lists
      <3> QED
        BY <2>1, <3>1
    <2>6. \A i \in DOMAIN leaves : leaves[i].node
      BY <2>2, <2>4
    <2> HIDE DEF lists, leaves
    <2>7. FlattenSeq(lists) = lists[1]
      BY <2>3, FlattenOne
    <2> QED
      BY <1>2, <2>1, <2>3, <2>5, <2>6, <2>7 DEF List, Counted
  <1>3. r.depth \in {0, 1}
    BY DEF Roots
  <1> QED
    BY <1>1, <1>2, <1>3

\* What is not a leaf may change, and more may be in use.
LEMMA SoundFrame ==
    ASSUME NEW I, NEW B, NEW B2, NEW U, NEW U2, Sound(I, B, U), U \subseteq U2,
           \A f \in Files : I[f].root.depth = 1 => B2[LeafOf(I[f].root)] = B[LeafOf(I[f].root)]
    PROVE  Sound(I, B2, U2) /\ \A f \in Files : List(I[f].root, B2) = List(I[f].root, B)
  <1>1. \A f \in Files : I[f].root.depth \in {0, 1}
    BY DEF Sound, TreesOK, Tree
  <1>2. \A f \in Files : List(I[f].root, B2) = List(I[f].root, B)
    BY <1>1 DEF List
  <1>3. \A f \in Files : Tree(I[f].root, B2)
    BY DEF Sound, TreesOK, Tree
  <1>4. TreesOK(I, B2)
    BY <1>2, <1>3 DEF Sound, TreesOK
  <1>5. \A f \in Files : \A x, b : Has(I[f].root, B2, x, b) <=> Has(I[f].root, B, x, b)
    BY <1>2 DEF Has
  <1>6. InUse(I, B2, U2)
    BY <1>5 DEF Sound, InUse
  <1>7. Apart(I, B2)
    BY <1>5 DEF Sound, Apart
  <1> QED
    BY <1>2, <1>4, <1>6, <1>7 DEF Sound

\* A file gains logical block n at block b, and perhaps a leaf, that were free.
LEMMA SoundGains ==
    ASSUME NEW I, NEW I2, NEW B, NEW B2, NEW U, NEW U2, Sound(I, B, U), U \subseteq U2,
           NEW f \in Files, \A g \in Files : g # f => I2[g] = I[g],
           \A g \in Files : g # f /\ I[g].root.depth = 1 => B2[LeafOf(I[g].root)] = B[LeafOf(I[g].root)],
           Tree(I2[f].root, B2),
           NEW n \in Logical(f), \A x : ~Holds(List(I[f].root, B), x, n),
           NEW b, b \in U2 \ U,
           Grows(List(I[f].root, B), List(I2[f].root, B2), n, b),
           I2[f].root.depth = 1 =>
              /\ LeafOf(I2[f].root) \in U2 \ {b}
              /\ LeafOf(I2[f].root) \in U => I[f].root.depth = 1 /\ LeafOf(I[f].root) = LeafOf(I2[f].root)
    PROVE  Sound(I2, B2, U2)
  <1> DEFINE old == List(I[f].root, B)
             new == List(I2[f].root, B2)
             H(g, x, c) == Has(I[g].root, B, x, c)
             H2(g, x, c) == Has(I2[g].root, B2, x, c)
  <1>0. 0 \in U /\ 0 \in U2 /\ b # 0
    BY DEF Sound
  <1>1. \A g \in Files : g # f => List(I2[g].root, B2) = List(I[g].root, B) /\ Tree(I2[g].root, B2)
    <2> SUFFICES ASSUME NEW g \in Files, g # f
                 PROVE  List(I[g].root, B2) = List(I[g].root, B) /\ Tree(I[g].root, B2)
      OBVIOUS
    <2>1. Tree(I[g].root, B)
      BY DEF Sound, TreesOK
    <2> QED
      BY <2>1 DEF List, Tree
  <1>2. Orderly(old, f)
    BY DEF Sound, TreesOK
  <1>3. Orderly(new, f)
    <2>1. new \in Seq(Extents)
      BY DEF Grows
    <2>2. \A x, m : Holds(new, x, m) <=> Holds(old, x, m) \/ (x = Len(new) /\ m = n)
      BY DEF Grows
    <2> HIDE DEF old, new
    <2>3. \A x, y, m : Holds(new, x, m) /\ Holds(new, y, m) => x = y
      BY <1>2, <2>2 DEF Orderly, old
    <2>4. \A x, m : Holds(new, x, m) => m \in Logical(f)
      BY <1>2, <2>2 DEF Orderly
    <2> QED
      BY <2>1, <2>3, <2>4 DEF Orderly
  <1>4. TreesOK(I2, B2)
    BY <1>1, <1>3 DEF Sound, TreesOK
  <1>5. \A g \in Files : \A x, c : g # f => (H2(g, x, c) <=> H(g, x, c))
    BY <1>1 DEF Has
  <1>6. \A x, c : Phys(new, x, c) <=> Phys(old, x, c) \/ (x = Len(new) /\ c = b)
    BY DEF Grows
  <1>7. Len(new) # 0 /\ \A x, c : Phys(new, x, c) => x # 0
    <2>1. new \in Seq(Extents) /\ new # <<>>
      BY DEF Grows
    <2> QED
      BY <2>1 DEF Phys
  <1>8. \A x, c : H2(f, x, c) => \/ H(f, x, c)
                                 \/ x = Len(new) /\ c = b
                                 \/ x = 0 /\ c = LeafOf(I2[f].root) /\ c \in U2 \ U /\ c # b
    <2> HIDE DEF old, new
    <2> SUFFICES ASSUME NEW x, NEW c, H2(f, x, c)
                 PROVE  \/ H(f, x, c)
                        \/ x = Len(new) /\ c = b
                        \/ x = 0 /\ c = LeafOf(I2[f].root) /\ c \in U2 \ U /\ c # b
      BY Zenon
    <2>1. CASE x = 0 /\ I2[f].root.depth = 1 /\ c = LeafOf(I2[f].root)
      BY <2>1 DEF Has
    <2>2. CASE Phys(List(I2[f].root, B2), x, c)
      BY <2>2, <1>6 DEF Has, old, new
    <2> QED
      BY <2>1, <2>2 DEF Has
  <1> HIDE DEF old, new
  <1>9. \A g \in Files : \A x, c : H(g, x, c) => c \in U /\ c # 0
    BY DEF Sound, InUse
  <1>10. InUse(I2, B2, U2)
    <2>1. \A g \in Files : \A x, c : H2(g, x, c) => c \in U2 /\ c # 0
      <3> HIDE DEF H, H2
      <3> SUFFICES ASSUME NEW g \in Files, NEW x, NEW c, H2(g, x, c)
                   PROVE  c \in U2 /\ c # 0
        BY Zenon
      <3>1. \A k \in Files : \A y : H(k, y, c) => c \in U2 /\ c # 0
        BY <1>9
      <3>2. CASE g # f
        BY <3>1, <3>2, <1>5
      <3>3. CASE g = f
        BY <3>1, <3>3, <1>0, <1>8
      <3> QED
        BY <3>2, <3>3
    <2> QED
      BY <2>1 DEF InUse
  <1>11. Apart(I2, B2)
    <2>1. \A g, k \in Files : \A x, y, c : H(g, x, c) /\ H(k, y, c) => g = k /\ x = y
      BY DEF Sound, Apart
    <2> HIDE DEF H, H2
    <2> SUFFICES ASSUME NEW g \in Files, NEW k \in Files, NEW x, NEW y, NEW c, H2(g, x, c), H2(k, y, c)
                 PROVE  g = k /\ x = y
      BY DEF Apart, H2
    <2>2. CASE g # f /\ k # f
      BY <2>1, <2>2, <1>5
    <2>3. CASE g = f /\ k # f
      BY <2>1, <2>3, <1>5, <1>8, <1>9
    <2>4. CASE g # f /\ k = f
      BY <2>1, <2>4, <1>5, <1>8, <1>9
    <2>5. CASE g = f /\ k = f
      <3>1. H2(f, x, c) /\ H2(f, y, c)
        BY <2>5
      <3>2. \/ H(f, x, c) /\ c \in U
            \/ x = Len(new) /\ c = b /\ c \notin U
            \/ x = 0 /\ c \notin U /\ c # b
        BY <3>1, <1>8, <1>9
      <3>3. \/ H(f, y, c) /\ c \in U
            \/ y = Len(new) /\ c = b /\ c \notin U
            \/ y = 0 /\ c \notin U /\ c # b
        BY <3>1, <1>8, <1>9
      <3>4. H(f, x, c) /\ H(f, y, c) => x = y
        BY <2>1
      <3>5. CASE H(f, x, c) /\ c \in U
        BY <3>5, <3>3, <3>4, <2>5
      <3>6. CASE x = Len(new) /\ c = b /\ c \notin U
        BY <3>6, <3>3, <2>5
      <3>7. CASE x = 0 /\ c \notin U /\ c # b
        BY <3>7, <3>3, <2>5
      <3> QED
        BY <3>2, <3>5, <3>6, <3>7
    <2> QED
      BY <2>2, <2>3, <2>4, <2>5
  <1> QED
    BY <1>0, <1>4, <1>10, <1>11 DEF Sound

-----------------------------------------------------------------------------
(* Allocation *)

Results == [status : {"ok", "error", "panic"}, dev : Devices, mem : Inodes]

LEMMA ResultFields ==
    ASSUME NEW s \in Results
    PROVE  /\ s.status \in {"ok", "error", "panic"} /\ s.dev \in Devices /\ s.mem \in Inodes
           /\ s.dev.inode \in [Files -> Inodes] /\ s.dev.used \subseteq Blocks
           /\ s.dev.block \in [Blocks -> DeviceBlocks] /\ s.mem.root \in Roots /\ s.mem.size \in Nat
  <1>1. s.dev \in Devices /\ s.mem \in Inodes /\ s.status \in {"ok", "error", "panic"}
    BY DEF Results
  <1> QED
    BY <1>1 DEF Devices, Inodes

Failed(s) == s \in Results /\ s.status = "error"

\* AllocateBlock fails or takes a block that was free.
LEMMA Allocates ==
    ASSUME NEW s \in Results, s.status = "ok"
    PROVE  \/ Failed(AllocateBlock(s))
           \/ /\ AllocateBlock(s) \in Results /\ AllocateBlock(s).status = "ok"
              /\ AllocateBlock(s).mem = s.mem
              /\ AllocateBlock(s).dev.inode = s.dev.inode /\ AllocateBlock(s).dev.block = s.dev.block
              /\ AllocateBlock(s).dev.used = s.dev.used \union {NextFree(s)}
              /\ NextFree(s) \in Blocks \ s.dev.used
  <1> DEFINE a == AllocateBlock(s)
             b == NextFree(s)
  <1>1. CASE FreeBlocks(s) = {}
    <2>1. a = [s EXCEPT !.status = "error"]
      BY <1>1 DEF AllocateBlock, Error
    <2> QED
      BY <2>1 DEF Results, Failed
  <1>2. CASE FreeBlocks(s) # {}
    <2>1. FreeBlocks(s) \in SUBSET Nat
      BY SizesAssumption DEF FreeBlocks, Blocks
    <2>2. b \in FreeBlocks(s)
      <3>1. \E x \in FreeBlocks(s) : \A y \in FreeBlocks(s) : x <= y
        BY <1>2, <2>1, SmallestExists
      <3> QED
        BY <3>1, Zenon DEF NextFree
    <2>3. b \in Blocks \ s.dev.used
      BY <2>2 DEF FreeBlocks
    <2>4. a = [s EXCEPT !.dev.used = @ \union {b}]
      BY <1>2 DEF AllocateBlock
    <2> HIDE DEF a, b
    <2>5. s.dev \in Devices
      BY DEF Results
    <2>6. a = [s EXCEPT !.dev = [s.dev EXCEPT !.used = s.dev.used \union {b}]]
      BY <2>4
    <2> DEFINE d == [s.dev EXCEPT !.used = s.dev.used \union {b}]
    <2>7. d \in Devices /\ d.inode = s.dev.inode /\ d.block = s.dev.block /\ d.used = s.dev.used \union {b}
      BY <2>3, <2>5 DEF Devices
    <2> HIDE DEF d
    <2>8. a \in Results /\ a.status = "ok" /\ a.mem = s.mem /\ a.dev = d
      BY <2>6, <2>7 DEF d, Results
    <2> QED
      BY <2>3, <2>7, <2>8 DEF a, b
  <1> QED
    BY <1>1, <1>2

LEMMA LeafTyped ==
    ASSUME NEW l \in Seq(Extents), Len(l) <= LeafMax
    PROVE  LeafBlock(l) \in DeviceBlocks /\ LeafBlock(l).node /\ LeafBlock(l).extents = l
  <1>1. [i \in 1 .. BlockWords |-> NodeWord] \in [1 .. BlockWords -> Words]
    BY DEF Words
  <1> QED
    BY <1>1 DEF LeafBlock, DeviceBlocks

\* The inodes when the operation's copy is written.
Inodes1(s, f) == [s.dev.inode EXCEPT ![f] = s.mem]

\* The list of the file an operation works on.
Entries(s) == List(s.mem.root, s.dev.block)

\* s stands on trees that are sound with the copy of the inode of f.
Stands(s, f) ==
    /\ s \in Results /\ s.status = "ok"
    /\ Sound(Inodes1(s, f), s.dev.block, s.dev.used)
    /\ Counted(s.mem.root)

\* The other files' leaves are as they were.
OthersKept(s, t, f) ==
    \A g \in Files \ {f} : s.dev.inode[g].root.depth = 1 =>
        t.dev.block[LeafOf(s.dev.inode[g].root)] = s.dev.block[LeafOf(s.dev.inode[g].root)]

\* In t, blocks in use are as they were, but for the leaf of the file that s is about.
LeavesBlocks(s, t) ==
    \A c \in s.dev.used : \/ t.dev.block[c] = s.dev.block[c]
                          \/ s.mem.root.depth = 1 /\ c = LeafOf(s.mem.root)

\* t is s and logical block n of file f at block b.
Mapped(s, t, f, n, b) ==
    /\ Stands(t, f) /\ t.dev.inode = s.dev.inode /\ t.mem.size = s.mem.size
    /\ Grows(Entries(s), Entries(t), n, b)
    /\ s.dev.used \subseteq t.dev.used /\ b \in t.dev.used \ s.dev.used
    /\ \A c \in t.dev.used \ s.dev.used : c = b \/ t.dev.block[c].node
    /\ \A c \in s.dev.used : t.dev.block[c].node <=> s.dev.block[c].node
    /\ LeavesBlocks(s, t) /\ OthersKept(s, t, f)
    /\ s.mem = s.dev.inode[f] => Sound(s.dev.inode, t.dev.block, t.dev.used)

LEMMA InodesWith ==
    ASSUME NEW s \in Results, NEW f \in Files
    PROVE  /\ Inodes1(s, f) \in [Files -> Inodes] /\ Inodes1(s, f)[f] = s.mem
           /\ \A g \in Files : g # f => Inodes1(s, f)[g] = s.dev.inode[g]
           /\ s.mem = s.dev.inode[f] => Inodes1(s, f) = s.dev.inode
  BY ResultFields DEF Inodes1

\* What each way to add an extent has to show.
LEMMA MapsSo ==
    ASSUME NEW f \in Files, NEW s, Stands(s, f), NEW t \in Results, t.status = "ok",
           NEW n \in Logical(f), \A x : ~Holds(Entries(s), x, n),
           NEW b, b \in t.dev.used \ s.dev.used,
           t.dev.inode = s.dev.inode, t.mem.size = s.mem.size,
           Tree(t.mem.root, t.dev.block), Counted(t.mem.root), Grows(Entries(s), Entries(t), n, b),
           s.dev.used \subseteq t.dev.used,
           \A c \in t.dev.used \ s.dev.used : c = b \/ t.dev.block[c].node,
           \A c \in s.dev.used : t.dev.block[c].node <=> s.dev.block[c].node,
           \A c \in s.dev.used : \/ t.dev.block[c] = s.dev.block[c]
                                 \/ s.mem.root.depth = 1 /\ c = LeafOf(s.mem.root) /\ t.mem = s.mem,
           t.mem.root.depth = 1 =>
              /\ LeafOf(t.mem.root) \in t.dev.used \ {b}
              /\ LeafOf(t.mem.root) \in s.dev.used =>
                    s.mem.root.depth = 1 /\ LeafOf(s.mem.root) = LeafOf(t.mem.root)
    PROVE  Mapped(s, t, f, n, b)
  <1> DEFINE I == Inodes1(s, f)
             I2 == Inodes1(t, f)
             B == s.dev.block
             B2 == t.dev.block
             U == s.dev.used
             U2 == t.dev.used
  <1>1. /\ s \in Results /\ Sound(I, B, U) /\ I[f] = s.mem /\ I2[f] = t.mem
        /\ \A g \in Files : g # f => I2[g] = I[g] /\ I[g] = s.dev.inode[g]
        /\ s.mem = s.dev.inode[f] => I = s.dev.inode
        /\ t.mem = s.mem => I2 = I
    BY InodesWith DEF Stands, Inodes1
  <1>2. I \in [Files -> Inodes]
    BY <1>1, InodesWith
  <1> HIDE DEF I, I2
  <1>3. \A g \in Files : I[g].root.depth = 1 => LeafOf(I[g].root) \in U
    BY <1>1 DEF Sound, InUse, Has
  <1>4. \A g \in Files : g # f /\ I[g].root.depth = 1 /\ I[f].root.depth = 1 =>
            LeafOf(I[g].root) # LeafOf(I[f].root)
    BY <1>1 DEF Sound, Apart, Has
  <1>5. \A g \in Files : g # f /\ I[g].root.depth = 1 => B2[LeafOf(I[g].root)] = B[LeafOf(I[g].root)]
    BY <1>1, <1>3, <1>4
  <1>6. Sound(I2, B2, U2)
    <2>1. Entries(s) = List(I[f].root, B) /\ Entries(t) = List(I2[f].root, B2)
      BY <1>1 DEF Entries
    <2> QED
      BY <1>1, <1>5, <2>1, SoundGains
  <1>7. Stands(t, f)
    BY <1>6 DEF Stands, I2
  <1>8. ASSUME s.mem = s.dev.inode[f]
        PROVE  Sound(s.dev.inode, B2, U2)
    <2>1. CASE t.mem = s.mem
      BY <1>1, <1>6, <1>8, <2>1
    <2>2. CASE t.mem # s.mem
      <3>1. \A c \in U : B2[c] = B[c]
        BY <2>2
      <3>2. \A g \in Files : I[g].root.depth = 1 => B2[LeafOf(I[g].root)] = B[LeafOf(I[g].root)]
        BY <1>3, <3>1
      <3>3. Sound(I, B2, U2)
        BY <1>1, <3>2, SoundFrame
      <3> QED
        BY <1>1, <1>8, <3>3
    <2> QED
      BY <2>1, <2>2
  <1>9. OthersKept(s, t, f)
    BY <1>1, <1>5 DEF OthersKept
  <1>10. LeavesBlocks(s, t)
    BY DEF LeavesBlocks
  <1> QED
    BY <1>7, <1>8, <1>9, <1>10 DEF Mapped

\* A block is allocated for n and there is room in I_block.
LEMMA AppendsToRoot ==
    ASSUME NoSplit, NEW f \in Files, NEW s, Stands(s, f),
           NEW n \in Logical(f), \A x : ~Holds(Entries(s), x, n),
           NEW b \in Blocks \ s.dev.used, NEW a \in Results, a.status = "ok", a.mem = s.mem,
           a.dev.inode = s.dev.inode, a.dev.block = s.dev.block, a.dev.used = s.dev.used \union {b},
           s.mem.root.depth = 0, s.mem.root.count # RootMax
    PROVE  Mapped(s, AppendExtent(a, Extent(n, 1, b)), f, n, b)
  <1> DEFINE e == Extent(n, 1, b)
             r == s.mem.root
             l2 == Extended(r.entries, e)
             r2 == [r EXCEPT !.count = Len(l2), !.entries = l2]
             t == AppendExtent(a, e)
  <1>1. s \in Results /\ r \in Roots /\ s.mem \in Inodes /\ a.dev \in Devices /\ n \in Offsets
    BY ResultFields, LogicalBelow DEF Stands
  <1>2. Tree(r, s.dev.block) /\ r.count = Len(r.entries)
    BY InodesWith, <1>1 DEF Stands, Sound, TreesOK, Counted
  <1>3. r.entries \in Seq(Extents) /\ Len(r.entries) < RootMax
    BY <1>2, NodesAssumption DEF Tree
  <1>4. Grows(r.entries, l2, n, b)
    BY <1>1, <1>3, ExtendedGrows
  <1>5. t = [a EXCEPT !.mem.root = r2]
    BY DEF AppendExtent
  <1> HIDE DEF t, l2, e
  <1>6. l2 \in Seq(Extents) /\ Len(l2) <= RootMax /\ Len(l2) \in Nat
    BY <1>3, <1>4, NodesAssumption DEF Grows
  <1>7. r2 \in Roots /\ r2.depth = 0 /\ r2.entries = l2 /\ r2.count = Len(l2)
    BY <1>1, <1>6 DEF Roots
  <1> HIDE DEF r2
  <1>8. t \in Results /\ t.status = "ok" /\ t.dev = a.dev /\ t.mem.size = s.mem.size /\ t.mem.root = r2
    <2>1. t = [a EXCEPT !.mem = [s.mem EXCEPT !.root = r2]]
      BY <1>5
    <2> DEFINE m == [s.mem EXCEPT !.root = r2]
    <2>2. m \in Inodes /\ m.size = s.mem.size /\ m.root = r2
      BY <1>1, <1>7 DEF Inodes
    <2> HIDE DEF m
    <2>3. t \in Results /\ t.status = "ok" /\ t.dev = a.dev /\ t.mem = m
      BY <2>1, <2>2 DEF Results, m
    <2> QED
      BY <2>2, <2>3
  <1>9. Tree(t.mem.root, t.dev.block) /\ Counted(t.mem.root)
    BY <1>6, <1>7, <1>8 DEF Tree, Counted
  <1>10. Entries(s) = r.entries /\ Entries(t) = l2
    BY <1>7, <1>8 DEF Entries, List
  <1>11. Mapped(s, t, f, n, b)
    <2>1. t.dev.inode = s.dev.inode /\ t.dev.block = s.dev.block /\ t.dev.used = s.dev.used \union {b}
      BY <1>8
    <2>2. t.mem.root.depth # 1
      BY <1>7, <1>8
    <2> QED
      BY <1>4, <1>8, <1>9, <1>10, <2>1, <2>2, MapsSo
  <1> QED
    BY <1>11 DEF t, e

\* I_block is full: its extents move to a leaf.
LEMMA AppendsBySplit ==
    ASSUME NoSplit, NEW f \in Files, NEW s, Stands(s, f),
           NEW n \in Logical(f), \A x : ~Holds(Entries(s), x, n),
           NEW b \in Blocks \ s.dev.used, NEW a \in Results, a.status = "ok", a.mem = s.mem,
           a.dev.inode = s.dev.inode, a.dev.block = s.dev.block, a.dev.used = s.dev.used \union {b},
           s.mem.root.depth = 0, s.mem.root.count = RootMax
    PROVE  \/ Failed(AppendExtent(a, Extent(n, 1, b)))
           \/ Mapped(s, AppendExtent(a, Extent(n, 1, b)), f, n, b)
  <1> DEFINE e == Extent(n, 1, b)
             r == s.mem.root
             l2 == Append(r.entries, e)
             c == NextFree(a)
             r2 == [depth |-> 1, count |-> 1, entries |-> <<[block |-> r.entries[1].block, leaf |-> c]>>]
             t == AppendExtent(a, e)
             a2 == AllocateBlock(a)
  <1>1. s \in Results /\ r \in Roots /\ s.mem \in Inodes /\ a.dev \in Devices /\ n \in Offsets
    BY ResultFields, LogicalBelow DEF Stands
  <1>2. Tree(r, s.dev.block) /\ r.count = Len(r.entries)
    BY InodesWith, <1>1 DEF Stands, Sound, TreesOK, Counted
  <1>3. r.entries \in Seq(Extents) /\ Len(r.entries) = RootMax /\ RootMax \in Nat \ {0} /\ RootMax < LeafMax
    BY <1>2, NodesAssumption DEF Tree
  <1>4. Grows(r.entries, l2, n, b) /\ e \in Extents
    BY <1>1, <1>3, AppendGrows, ExtentOf
  <1>5. t = Then(a2, LAMBDA w : [w EXCEPT !.dev.block[c] = LeafBlock(l2), !.mem.root = r2])
    BY DEF AppendExtent, splitRootLeafAndAppend
  <1>6. CASE Failed(a2)
    BY <1>5, <1>6 DEF Then, Failed
  <1>7. CASE ~Failed(a2)
    <2>1. a2 \in Results /\ a2.status = "ok" /\ a2.mem = s.mem
          /\ a2.dev.inode = s.dev.inode /\ a2.dev.block = s.dev.block
          /\ a2.dev.used = s.dev.used \union {b} \union {c} /\ c \in Blocks \ (s.dev.used \union {b})
      BY <1>7, Allocates
    <2>2. t = [a2 EXCEPT !.dev.block[c] = LeafBlock(l2), !.mem.root = r2]
      BY <1>5, <2>1 DEF Then
    <2> HIDE DEF t, a2, c, e
    <2>3. l2 \in Seq(Extents) /\ Len(l2) = RootMax + 1 /\ Len(l2) <= LeafMax
      <3>1. l2 \in Seq(Extents) /\ Len(l2) = Len(r.entries) + 1
        BY <1>3, <1>4
      <3> QED
        BY <1>3, <3>1, NodesAssumption
    <2> HIDE DEF l2
    <2>4. LeafBlock(l2) \in DeviceBlocks /\ LeafBlock(l2).node /\ LeafBlock(l2).extents = l2
      BY <2>3, LeafTyped
    <2>5. r.entries[1] \in Extents /\ r.entries[1].block \in Offsets
      <3>1. r.entries[1] \in Extents
        BY <1>3
      <3> QED
        BY <3>1, ExtentsTyped
    <2>6. r2 \in Roots /\ r2.depth = 1 /\ r2.entries \in Seq(Indexes) /\ Len(r2.entries) = 1 /\ LeafOf(r2) = c
      <3> DEFINE x == [block |-> r.entries[1].block, leaf |-> c]
      <3>1. x \in Indexes /\ x.leaf = c
        BY <2>1, <2>5 DEF Indexes
      <3> HIDE DEF x
      <3>2. <<x>> \in Seq(Indexes) /\ Len(<<x>>) = 1 /\ <<x>>[1] = x
        BY <3>1
      <3>3. r2 = [depth |-> 1, count |-> 1, entries |-> <<x>>]
        BY DEF x
      <3> HIDE DEF r2
      <3>4. r2.entries = <<x>> /\ r2.depth = 1 /\ r2.count = 1
        BY <3>3
      <3>5. r2 \in Roots
        BY <3>2, <3>3 DEF Roots
      <3> QED
        BY <3>1, <3>2, <3>4, <3>5 DEF LeafOf
    <2> HIDE DEF r2
    <2>7. t \in Results /\ t.status = "ok" /\ t.dev.inode = s.dev.inode /\ t.dev.used = s.dev.used \union {b, c}
          /\ t.dev.block = [s.dev.block EXCEPT ![c] = LeafBlock(l2)]
          /\ t.mem.size = s.mem.size /\ t.mem.root = r2
      <3> DEFINE B2 == [s.dev.block EXCEPT ![c] = LeafBlock(l2)]
                 d == [a2.dev EXCEPT !.block = B2]
                 m == [s.mem EXCEPT !.root = r2]
      <3>1. t = [a2 EXCEPT !.dev = d, !.mem = m]
        BY <2>1, <2>2
      <3>2. m \in Inodes /\ m.size = s.mem.size /\ m.root = r2
        BY <1>1, <2>6 DEF Inodes
      <3>3. B2 \in [Blocks -> DeviceBlocks]
        BY <1>1, <2>4, ResultFields
      <3>4. a2.dev \in Devices
        BY <2>1, ResultFields
      <3> HIDE DEF B2
      <3>5. d \in Devices /\ d.inode = a2.dev.inode /\ d.used = a2.dev.used /\ d.block = B2
        BY <3>3, <3>4 DEF Devices
      <3> HIDE DEF d, m
      <3>6. t \in Results /\ t.status = "ok" /\ t.dev = d /\ t.mem = m
        BY <2>1, <3>1, <3>2, <3>5 DEF Results
      <3> QED
        BY <2>1, <3>2, <3>5, <3>6 DEF B2
    <2>8. t.dev.block[c] = LeafBlock(l2) /\ \A x \in Blocks : x # c => t.dev.block[x] = s.dev.block[x]
      BY <1>1, <2>1, <2>7, ResultFields
    <2>9. Tree(t.mem.root, t.dev.block) /\ Counted(t.mem.root)
      BY <2>4, <2>6, <2>7, <2>8 DEF Tree, Counted
    <2>10. Entries(s) = r.entries /\ Entries(t) = l2
      BY <2>4, <2>6, <2>7, <2>8 DEF Entries, List
    <2>11. s.dev.used \subseteq Blocks
      BY <1>1, ResultFields
    <2>12. \A x \in s.dev.used : t.dev.block[x] = s.dev.block[x]
      BY <2>1, <2>8, <2>11
    <2>13. Mapped(s, t, f, n, b)
      <3>1. s.dev.used \subseteq t.dev.used /\ b \in t.dev.used \ s.dev.used
        BY <2>7
      <3>2. \A x \in t.dev.used \ s.dev.used : x = b \/ t.dev.block[x].node
        BY <2>4, <2>7, <2>8
      <3>3. LeafOf(t.mem.root) \in t.dev.used \ {b} /\ LeafOf(t.mem.root) \notin s.dev.used
        BY <2>1, <2>6, <2>7
      <3> QED
        BY <1>4, <2>7, <2>9, <2>10, <2>12, <3>1, <3>2, <3>3, MapsSo
    <2> QED
      BY <2>13 DEF t, e
  <1> QED
    BY <1>6, <1>7

\* There is a leaf, and it has room.
LEMMA AppendsToLeaf ==
    ASSUME NoSplit, NEW f \in Files, NEW s, Stands(s, f),
           NEW n \in Logical(f), \A x : ~Holds(Entries(s), x, n),
           NEW b \in Blocks \ s.dev.used, NEW a \in Results, a.status = "ok", a.mem = s.mem,
           a.dev.inode = s.dev.inode, a.dev.block = s.dev.block, a.dev.used = s.dev.used \union {b},
           s.mem.root.depth = 1
    PROVE  Mapped(s, AppendExtent(a, Extent(n, 1, b)), f, n, b)
  <1> DEFINE e == Extent(n, 1, b)
             r == s.mem.root
             c == LeafOf(r)
             l == s.dev.block[c].extents
             l2 == Extended(l, e)
             t == AppendExtent(a, e)
  <1>1. s \in Results /\ r \in Roots /\ s.mem \in Inodes /\ a.dev \in Devices /\ n \in Offsets
        /\ s.dev.block \in [Blocks -> DeviceBlocks] /\ s.dev.used \subseteq Blocks
    BY ResultFields, LogicalBelow DEF Stands
  <1>2. Tree(r, s.dev.block) /\ Orderly(Entries(s), f)
    BY InodesWith, <1>1 DEF Stands, Sound, TreesOK, Entries
  <1>3. c \in Blocks /\ Entries(s) = l /\ Len(r.entries) = 1 /\ s.dev.block[c].node
    BY <1>1, <1>2, TreeTyped DEF Entries, Tree
  <1>4. l \in Seq(Extents) /\ Len(l) < LeafMax
    BY <1>2, <1>3, LeafHasRoom DEF Orderly
  <1>5. Grows(l, l2, n, b)
    BY <1>1, <1>4, ExtendedGrows
  <1>6. t = [a EXCEPT !.dev.block[c] = LeafBlock(l2)]
    <2>1. Last(r.entries).leaf = c
      BY <1>3 DEF Last, LeafOf
    <2>2. t = appendExtentToTree(a, e)
      BY DEF AppendExtent
    <2> HIDE DEF t, e, c
    <2> QED
      BY <1>4, <2>1, <2>2 DEF appendExtentToTree
  <1> HIDE DEF t, l2, e, c, l
  <1>7. l2 \in Seq(Extents) /\ Len(l2) <= LeafMax
    BY <1>4, <1>5, NodesAssumption DEF Grows
  <1>8. LeafBlock(l2) \in DeviceBlocks /\ LeafBlock(l2).node /\ LeafBlock(l2).extents = l2
    BY <1>7, LeafTyped
  <1>9. t \in Results /\ t.status = "ok" /\ t.mem = s.mem
        /\ t.dev.inode = s.dev.inode /\ t.dev.used = s.dev.used \union {b}
        /\ t.dev.block = [s.dev.block EXCEPT ![c] = LeafBlock(l2)]
    <2> DEFINE B2 == [s.dev.block EXCEPT ![c] = LeafBlock(l2)]
               d == [a.dev EXCEPT !.block = B2]
    <2>1. t = [a EXCEPT !.dev = d]
      BY <1>6
    <2>2. B2 \in [Blocks -> DeviceBlocks]
      BY <1>1, <1>8
    <2> HIDE DEF B2
    <2>3. d \in Devices /\ d.inode = a.dev.inode /\ d.used = a.dev.used /\ d.block = B2
      BY <1>1, <2>2 DEF Devices
    <2> HIDE DEF d
    <2>4. t \in Results /\ t.status = "ok" /\ t.dev = d /\ t.mem = s.mem
      BY <2>1, <2>3 DEF Results
    <2> QED
      BY <2>3, <2>4 DEF B2
  <1>10. t.dev.block[c] = LeafBlock(l2) /\ \A x \in Blocks : x # c => t.dev.block[x] = s.dev.block[x]
    BY <1>1, <1>3, <1>9
  <1>11. Tree(t.mem.root, t.dev.block) /\ Counted(t.mem.root)
    BY <1>2, <1>8, <1>9, <1>10 DEF Tree, Counted, c
  <1>12. Entries(t) = l2
    BY <1>8, <1>9, <1>10 DEF Entries, List, c
  <1>13. c \in s.dev.used
    <2>1. Has(Inodes1(s, f)[f].root, s.dev.block, 0, c)
      BY <1>1, InodesWith DEF Has, c
    <2> QED
      BY <2>1 DEF Stands, Sound, InUse
  <1>14. Mapped(s, t, f, n, b)
    <2>1. s.dev.used \subseteq t.dev.used /\ b \in t.dev.used \ s.dev.used
      BY <1>9
    <2>2. \A x \in t.dev.used \ s.dev.used : x = b
      BY <1>9
    <2>3. \A x \in s.dev.used : t.dev.block[x] = s.dev.block[x] \/ x = c
      BY <1>1, <1>10
    <2>4. \A x \in s.dev.used : t.dev.block[x].node <=> s.dev.block[x].node
      BY <1>3, <1>8, <1>10, <2>3
    <2>5. LeafOf(t.mem.root) = c
      BY <1>9 DEF c
    <2>6. c \in t.dev.used \ {b}
      BY <1>13, <2>1
    <2>7. \A x \in s.dev.used : \/ t.dev.block[x] = s.dev.block[x]
                                \/ s.mem.root.depth = 1 /\ x = LeafOf(s.mem.root) /\ t.mem = s.mem
      BY <1>9, <2>3 DEF c
    <2>8. /\ LeafOf(t.mem.root) \in t.dev.used \ {b}
          /\ s.mem.root.depth = 1 /\ LeafOf(s.mem.root) = LeafOf(t.mem.root)
      BY <2>5, <2>6 DEF c
    <2>9. Grows(Entries(s), Entries(t), n, b)
      BY <1>3, <1>5, <1>12
    <2>10. t.dev.inode = s.dev.inode /\ t.mem.size = s.mem.size
      BY <1>9
    <2> QED
      BY <1>9, <1>11, <2>1, <2>2, <2>4, <2>7, <2>8, <2>9, <2>10, MapsSo
  <1> QED
    BY <1>14 DEF t, e

\* AppendExtent for a block that was just allocated.
LEMMA Appends ==
    ASSUME NoSplit, NEW f \in Files, NEW s, Stands(s, f),
           NEW n \in Logical(f), \A x : ~Holds(Entries(s), x, n),
           AllocateBlock(s).status = "ok"
    PROVE  LET t == AppendExtent(AllocateBlock(s), Extent(n, 1, NextFree(s)))
           IN  Failed(t) \/ Mapped(s, t, f, n, NextFree(s))
  <1> DEFINE b == NextFree(s)
             a == AllocateBlock(s)
  <1>1. s \in Results /\ s.status = "ok" /\ a.status # "error"
    BY DEF Stands
  <1>2. /\ a \in Results /\ a.status = "ok" /\ a.mem = s.mem
        /\ a.dev.inode = s.dev.inode /\ a.dev.block = s.dev.block
        /\ a.dev.used = s.dev.used \union {b} /\ b \in Blocks \ s.dev.used
    BY <1>1, Allocates DEF Failed
  <1> HIDE DEF a, b
  <1>3. s.mem.root.depth \in {0, 1}
    BY <1>1, ResultFields DEF Roots
  <1>4. CASE s.mem.root.depth = 0 /\ s.mem.root.count # RootMax
    <2>1. Mapped(s, AppendExtent(a, Extent(n, 1, b)), f, n, b)
      BY <1>2, <1>4, AppendsToRoot
    <2> QED
      BY <2>1 DEF a, b
  <1>5. CASE s.mem.root.depth = 0 /\ s.mem.root.count = RootMax
    <2>1. \/ Failed(AppendExtent(a, Extent(n, 1, b)))
          \/ Mapped(s, AppendExtent(a, Extent(n, 1, b)), f, n, b)
      BY <1>2, <1>5, AppendsBySplit
    <2> QED
      BY <2>1 DEF a, b
  <1>6. CASE s.mem.root.depth = 1
    <2>1. Mapped(s, AppendExtent(a, Extent(n, 1, b)), f, n, b)
      BY <1>2, <1>6, AppendsToLeaf
    <2> QED
      BY <2>1 DEF a, b
  <1> QED
    BY <1>3, <1>4, <1>5, <1>6

-----------------------------------------------------------------------------
(* One round of WriteFileAt *)

LEMMA ExtendsPhys ==
    ASSUME NEW l \in Seq(Extents), NEW l2 \in Seq(Extents), Extends(l, l2)
    PROVE  /\ \A x, b : Phys(l, x, b) => Phys(l2, x, b)
           /\ \A x, n : Holds(l, x, n) => Holds(l2, x, n)
  <1>1. \A x \in DOMAIN l : /\ x \in DOMAIN l2 /\ l2[x].block = l[x].block
                            /\ l2[x].start = l[x].start /\ l2[x].len >= l[x].len
    BY DEF Extends
  <1>2. \A x \in DOMAIN l : l[x].block \in Nat /\ l[x].start \in Nat /\ l[x].len \in Nat /\ l2[x].len \in Nat
    <2> TAKE x \in DOMAIN l
    <2>1. l[x] \in Extents /\ l2[x] \in Extents
      BY <1>1
    <2> QED
      BY <2>1, ExtentsTyped
  <1>3. \A x, b : Phys(l, x, b) => Phys(l2, x, b)
    BY <1>1, <1>2 DEF Phys
  <1>4. \A x, n : Holds(l, x, n) => Holds(l2, x, n)
    BY <1>1, <1>2 DEF Holds
  <1> QED
    BY <1>3, <1>4

LEMMA MappingHolds ==
    ASSUME NEW l \in Seq(Extents), NEW n \in Nat
    PROVE  \A x : x \in Mapping(l, n) <=> Holds(l, x, n)
  <1>1. \A x \in DOMAIN l : l[x].block \in Nat /\ l[x].len \in Nat
    BY ExtentsTyped
  <1> QED
    BY <1>1 DEF Mapping, Holds

\* findPhysicalBlock finds a block of the file.
LEMMA FindsPhysical ==
    ASSUME NEW l \in Seq(Extents), NEW n \in Nat, Mapping(l, n) # {}
    PROVE  \E x : Phys(l, x, findPhysicalBlock(l, n)) /\ Holds(l, x, n)
  <1> DEFINE S == Mapping(l, n)
             i == CHOOSE i \in S : \A j \in S : i <= j
  <1>1. S \in SUBSET Nat
    BY DEF Mapping
  <1>2. i \in S
    <2>1. \E x \in S : \A y \in S : x <= y
      BY <1>1, SmallestExists
    <2> QED
      BY <2>1, Zenon
  <1>3. findPhysicalBlock(l, n) = l[i].start + n - l[i].block
    BY DEF findPhysicalBlock
  <1> HIDE DEF i
  <1>4. i \in DOMAIN l /\ Holds(l, i, n)
    BY <1>2, MappingHolds DEF Mapping
  <1>5. l[i].block \in Nat /\ l[i].len \in Nat /\ l[i].start \in Nat
    <2>1. l[i] \in Extents
      BY <1>4
    <2> QED
      BY <2>1, ExtentsTyped
  <1>6. Phys(l, i, findPhysicalBlock(l, n))
    BY <1>3, <1>4, <1>5 DEF Phys, Holds
  <1> QED
    BY <1>4, <1>6

\* t is s with words in block b.
Overwritten(s, t, b, words) == t = [s EXCEPT !.dev.block[b] = DataBlock(words)]

\* t is s with words in block b of file f.
DataWritten(s, t, f, b) ==
    /\ Stands(t, f) /\ t.dev.inode = s.dev.inode /\ t.dev.used = s.dev.used /\ t.mem = s.mem
    /\ Entries(t) = Entries(s) /\ b \in Blocks
    /\ \A c \in Blocks : c # b => t.dev.block[c] = s.dev.block[c]
    /\ OthersKept(s, t, f)

\* Words are written into a block of the file.
LEMMA WritesData ==
    ASSUME NEW f \in Files, NEW s, Stands(s, f), NEW x, NEW b, Phys(Entries(s), x, b),
           NEW words \in [1 .. BlockWords -> Words],
           NEW t, Overwritten(s, t, b, words)
    PROVE  DataWritten(s, t, f, b)
  <1> DEFINE I == Inodes1(s, f)
             B == s.dev.block
             B2 == [B EXCEPT ![b] = DataBlock(words)]
             U == s.dev.used
  <1>1. s \in Results /\ s.status = "ok" /\ Sound(I, B, U) /\ I[f] = s.mem /\ s.mem \in Inodes
        /\ B \in [Blocks -> DeviceBlocks] /\ U \subseteq Blocks /\ s.dev \in Devices
        /\ \A g \in Files : g # f => I[g] = s.dev.inode[g]
    BY InodesWith, ResultFields DEF Stands
  <1>2. I \in [Files -> Inodes]
    BY <1>1, InodesWith
  <1>3. Phys(List(I[f].root, B), x, b)
    BY <1>1 DEF Entries
  <1>4. Has(I[f].root, B, x, b) /\ x # 0
    <2>1. List(I[f].root, B) \in Seq(Extents)
      BY <1>1 DEF Sound, TreesOK, Orderly
    <2> HIDE DEF I, B
    <2>2. x # 0
      BY <1>3, <2>1 DEF Phys
    <2> QED
      BY <1>3, <2>2 DEF Has
  <1>5. b \in U /\ b \in Blocks
    BY <1>1, <1>4 DEF Sound, InUse
  <1>6. \A g \in Files : I[g].root.depth = 1 => LeafOf(I[g].root) \in Blocks \ {b}
    <2> TAKE g \in Files
    <2> HAVE I[g].root.depth = 1
    <2>1. Has(I[g].root, B, 0, LeafOf(I[g].root))
      BY DEF Has
    <2>2. LeafOf(I[g].root) \in U
      BY <1>1, <2>1 DEF Sound, InUse
    <2>3. LeafOf(I[g].root) # b
      BY <1>1, <1>4, <2>1 DEF Sound, Apart
    <2> QED
      BY <1>1, <2>2, <2>3
  <1>7. DataBlock(words) \in DeviceBlocks
    <2>1. <<>> \in Seq(Extents) /\ Len(<<>>) <= LeafMax
      BY NodesAssumption
    <2> QED
      BY <2>1 DEF DataBlock, DeviceBlocks
  <1>8. B2 \in [Blocks -> DeviceBlocks] /\ \A c \in Blocks : c # b => B2[c] = B[c]
    BY <1>1, <1>7
  <1>9. t \in Results /\ t.status = "ok" /\ t.mem = s.mem /\ t.dev.inode = s.dev.inode
        /\ t.dev.used = U /\ t.dev.block = B2
    <2> DEFINE d == [s.dev EXCEPT !.block = B2]
    <2>1. t = [s EXCEPT !.dev = d]
      BY <1>1 DEF Overwritten
    <2> HIDE DEF B2
    <2>2. d \in Devices /\ d.inode = s.dev.inode /\ d.used = U /\ d.block = B2
      BY <1>1, <1>8 DEF Devices
    <2> HIDE DEF d
    <2>3. t \in Results /\ t.status = "ok" /\ t.mem = s.mem /\ t.dev = d
      BY <1>1, <2>1, <2>2 DEF Results
    <2> QED
      BY <2>2, <2>3
  <1> HIDE DEF B2
  <1>10. \A g \in Files : I[g].root.depth = 1 => B2[LeafOf(I[g].root)] = B[LeafOf(I[g].root)]
    BY <1>6, <1>8
  <1>11. Sound(I, B2, U) /\ \A g \in Files : List(I[g].root, B2) = List(I[g].root, B)
    <2> HIDE DEF I, B, U
    <2>1. U \subseteq U /\ Sound(I, B, U)
      BY <1>1
    <2>2. Sound(I, B2, U)
      BY <1>10, <2>1, SoundFrame
    <2> QED
      BY <1>10, <2>1, <2>2, SoundFrame
  <1>12. Inodes1(t, f) = I
    BY <1>9 DEF Inodes1
  <1>13. Stands(t, f)
    BY <1>9, <1>11, <1>12 DEF Stands
  <1>14. Entries(t) = Entries(s)
    BY <1>1, <1>9, <1>11 DEF Entries
  <1>15. OthersKept(s, t, f)
    BY <1>1, <1>9, <1>10 DEF OthersKept
  <1> QED
    BY <1>5, <1>8, <1>9, <1>13, <1>14, <1>15 DEF DataWritten

\* What is in use in t was in use in s, or is a node or the file's.
UseExplained(s, t) ==
    \A c \in t.dev.used : \/ c \in s.dev.used /\ (s.dev.block[c].node => t.dev.block[c].node)
                          \/ t.dev.block[c].node
                          \/ \E x : Phys(Entries(t), x, c)

\* t is s after logical block n of f was written.
Wrote(s, t, f, n) ==
    /\ Stands(t, f) /\ t.dev.inode = s.dev.inode /\ t.mem.size = s.mem.size
    /\ Extends(Entries(s), Entries(t))
    /\ \E x : Holds(Entries(t), x, n)
    /\ \A x, m : Holds(Entries(t), x, m) => Holds(Entries(s), x, m) \/ m = n
    /\ s.dev.used \subseteq t.dev.used
    /\ OthersKept(s, t, f) /\ UseExplained(s, t)

\* t is s after a panic at logical block n, which list l maps or not.
Panicked(s, t, f, l, n) ==
    /\ t \in Results /\ t.status = "panic" /\ t.dev.inode = s.dev.inode
    /\ s.mem = s.dev.inode[f] => Sound(s.dev.inode, t.dev.block, t.dev.used)
    /\ Mapping(l, n) # {} => t.dev = s.dev

LEMMA MappedWrote ==
    ASSUME NEW f \in Files, NEW s, NEW t, NEW n, NEW b, Mapped(s, t, f, n, b), Stands(s, f),
           NEW u, Stands(u, f), u.dev.inode = t.dev.inode, u.dev.used = t.dev.used, u.mem = t.mem,
           Entries(u) = Entries(t), \A c \in Blocks : c # b => u.dev.block[c] = t.dev.block[c],
           OthersKept(t, u, f)
    PROVE  Wrote(s, u, f, n) /\ \E x : Phys(Entries(u), x, b)
  <1>1. Grows(Entries(s), Entries(t), n, b)
    BY DEF Mapped
  <1>2. Extends(Entries(s), Entries(u)) /\ Holds(Entries(u), Len(Entries(t)), n)
        /\ Phys(Entries(u), Len(Entries(t)), b)
        /\ \A x, m : Holds(Entries(u), x, m) => Holds(Entries(s), x, m) \/ m = n
    BY <1>1 DEF Grows
  <1>3. UseExplained(s, u)
    <2> SUFFICES ASSUME NEW c \in u.dev.used
                 PROVE  \/ c \in s.dev.used /\ (s.dev.block[c].node => u.dev.block[c].node)
                        \/ u.dev.block[c].node
                        \/ \E x : Phys(Entries(u), x, c)
      BY DEF UseExplained
    <2>1. CASE c = b
      BY <1>2, <2>1
    <2>2. CASE c # b
      <3>1. c \in Blocks /\ u.dev.block[c] = t.dev.block[c] /\ c \in t.dev.used
        BY <2>2, ResultFields DEF Stands
      <3>2. c \in s.dev.used \/ u.dev.block[c].node
        BY <2>2, <3>1 DEF Mapped
      <3>3. c \in s.dev.used => (t.dev.block[c].node <=> s.dev.block[c].node)
        BY DEF Mapped
      <3> QED
        BY <3>1, <3>2, <3>3
    <2> QED
      BY <2>1, <2>2
  <1>4. OthersKept(s, u, f)
    BY DEF OthersKept, Mapped
  <1>5. u.dev.inode = s.dev.inode /\ u.mem.size = s.mem.size /\ s.dev.used \subseteq u.dev.used
    BY DEF Mapped
  <1> QED
    BY <1>2, <1>3, <1>4, <1>5 DEF Wrote

LEMMA MappedPhys ==
    ASSUME NEW s, NEW t, NEW f, NEW n, NEW b, Mapped(s, t, f, n, b)
    PROVE  Phys(Entries(t), Len(Entries(t)), b) /\ Stands(t, f)
  BY DEF Mapped, Grows

LEMMA EntriesTyped ==
    ASSUME NEW f \in Files, NEW s, Stands(s, f)
    PROVE  s \in Results /\ s.status = "ok" /\ Entries(s) \in Seq(Extents) /\ Orderly(Entries(s), f)
  <1>1. s \in Results /\ Inodes1(s, f)[f] = s.mem
    BY InodesWith DEF Stands
  <1>2. Orderly(Entries(s), f)
    BY <1>1 DEF Stands, Sound, TreesOK, Entries
  <1> QED
    BY <1>1, <1>2 DEF Stands, Orderly

\* Where list l has logical block n, if entry x holds it.
At(l, x, n) == l[x].start + (n - l[x].block)

\* The entries follow each other in the file, from its start up to block k at least.
Ascending(l) == \A x, y \in DOMAIN l : x < y => l[x].block < l[y].block
Dense(l) == \A x, m : Holds(l, x, m) => \A k \in 0 .. m : \E y : Holds(l, y, k)
Ready(l, k) == Ascending(l) /\ Dense(l) /\ \A m \in 0 .. k - 1 : \E y : Holds(l, y, m)

LEMMA ShiftIn ==
    ASSUME NEW a \in Nat, NEW k \in Nat, NEW c \in Nat, NEW m \in a .. a + k - 1
    PROVE  m \in Nat /\ a <= m /\ m <= a + k - 1 /\ c + (m - a) \in Nat /\ c + (m - a) \in c .. c + k - 1
  <1>1. m \in Int /\ a <= m /\ m <= a + k - 1
    OBVIOUS
  <1> QED
    BY <1>1

LEMMA HeldTyped ==
    ASSUME NEW l \in Seq(Extents), NEW x, NEW m, Holds(l, x, m)
    PROVE  /\ x \in 1 .. Len(l) /\ l[x] \in Extents /\ l[x].block \in Nat /\ l[x].len \in Nat /\ l[x].start \in Nat
           /\ m \in Nat /\ l[x].block <= m /\ m <= l[x].block + l[x].len - 1
           /\ At(l, x, m) \in Nat /\ Phys(l, x, At(l, x, m))
  <1>1. x \in 1 .. Len(l) /\ x \in DOMAIN l /\ m \in l[x].block .. l[x].block + l[x].len - 1
    BY DEF Holds
  <1>2. l[x] \in Extents
    BY <1>1
  <1>3. l[x].block \in Nat /\ l[x].len \in Nat /\ l[x].start \in Nat
    BY <1>2, ExtentsTyped
  <1>4. m \in Nat /\ l[x].block <= m /\ m <= l[x].block + l[x].len - 1 /\ l[x].start + (m - l[x].block) \in Nat
        /\ l[x].start + (m - l[x].block) \in l[x].start .. l[x].start + l[x].len - 1
    BY <1>1, <1>3, ShiftIn
  <1> QED
    BY <1>1, <1>2, <1>3, <1>4 DEF At, Phys

LEMMA ExtendsAt ==
    ASSUME NEW l, NEW l2, Extends(l, l2), NEW x, NEW m, Holds(l, x, m)
    PROVE  At(l2, x, m) = At(l, x, m)
  BY DEF Extends, Holds, At

\* Different blocks of the file are in different places of one extent.
LEMMA AtInjective ==
    ASSUME NEW l \in Seq(Extents), NEW x, NEW m, NEW n, Holds(l, x, m), Holds(l, x, n), At(l, x, m) = At(l, x, n)
    PROVE  m = n
  <1> DEFINE e == l[x]
  <1>1. e.block \in Nat /\ e.start \in Nat /\ m \in Nat /\ n \in Nat /\ e.start + (m - e.block) = e.start + (n - e.block)
    BY HeldTyped DEF At
  <1> HIDE DEF e
  <1> QED
    BY <1>1

LEMMA FindsAt ==
    ASSUME NEW l \in Seq(Extents), NEW n \in Nat, Mapping(l, n) # {}
    PROVE  \E x : Holds(l, x, n) /\ findPhysicalBlock(l, n) = At(l, x, n)
  <1> DEFINE S == Mapping(l, n)
             i == CHOOSE i \in S : \A j \in S : i <= j
  <1>1. S \in SUBSET Nat
    BY DEF Mapping
  <1>2. i \in S
    <2>1. \E x \in S : \A y \in S : x <= y
      BY <1>1, SmallestExists
    <2> QED
      BY <2>1, Zenon
  <1>3. findPhysicalBlock(l, n) = l[i].start + n - l[i].block
    BY DEF findPhysicalBlock
  <1> HIDE DEF i
  <1>4. Holds(l, i, n)
    BY <1>2, MappingHolds DEF Mapping
  <1>5. l[i].block \in Nat /\ l[i].start \in Nat
    BY <1>4, HeldTyped
  <1>6. findPhysicalBlock(l, n) = At(l, i, n)
    BY <1>3, <1>5 DEF At
  <1> QED
    BY <1>4, <1>6

\* The d numbers from a on are the c numbers from a on, and b.
Adds(a, c, d, b) == \A y \in Nat : y \in a .. a + d - 1 <=> (y \in a .. a + c - 1 \/ y = b)

LEMMA IntervalGrows ==
    ASSUME NEW a \in Nat, NEW c \in Nat \ {0}, NEW d \in Nat, d >= c, NEW b \in Nat,
           Adds(a, c, d, b), b \notin a .. a + c - 1
    PROVE  d = c + 1 /\ b = a + c
  <1>1. b \in a .. a + d - 1
    BY DEF Adds
  <1>2. b >= a + c
    BY <1>1
  <1>3. a + c \in Nat /\ a + c \in a .. a + d - 1 /\ ~(a + c \in a .. a + c - 1)
    BY <1>1, <1>2
  <1>4. b = a + c
    BY <1>3 DEF Adds
  <1>5. d > c + 1 => a + c + 1 \in a .. a + d - 1
    OBVIOUS
  <1>6. a + c + 1 \in Nat /\ ~(a + c + 1 \in a .. a + c - 1) /\ a + c + 1 # a + c
    OBVIOUS
  <1>7. ~(d > c + 1)
    BY <1>4, <1>5, <1>6 DEF Adds
  <1> QED
    BY <1>1, <1>4, <1>7

LEMMA IntervalOne ==
    ASSUME NEW a \in Nat, NEW d \in Nat \ {0}, NEW b,
           \A y \in Nat : y \in a .. a + d - 1 <=> y = b
    PROVE  d = 1 /\ b = a
  <1>1. a \in a .. a + d - 1
    OBVIOUS
  <1>2. b = a
    BY <1>1
  <1>3. d > 1 => a + 1 \in a .. a + d - 1 /\ a + 1 \in Nat
    OBVIOUS
  <1> QED
    BY <1>2, <1>3

\* The block that a list has grown by is where it was put.
LEMMA GrowsAt ==
    ASSUME NEW l \in Seq(Extents), NEW l2, NEW n \in Nat, NEW b \in Nat, Grows(l, l2, n, b),
           \A x : ~Holds(l, x, n), \A x : ~Phys(l, x, b)
    PROVE  Holds(l2, Len(l2), n) /\ At(l2, Len(l2), n) = b
  <1> DEFINE z == Len(l2)
             e == l2[z]
  <1>1. l2 \in Seq(Extents) /\ Len(l2) \in {Len(l), Len(l) + 1} /\ Extends(l, l2)
        /\ Holds(l2, z, n) /\ Phys(l2, z, b)
        /\ (\A m : Holds(l2, z, m) <=> (Holds(l, z, m) \/ m = n))
        /\ (\A c : Phys(l2, z, c) <=> (Phys(l, z, c) \/ c = b))
    BY DEF Grows
  <1>2. z \in 1 .. Len(l2) /\ e \in Extents /\ e.block \in Nat /\ e.len \in Nat /\ e.start \in Nat /\ z \in DOMAIN l2
        /\ e.len # 0
    <2>1. z \in 1 .. Len(l2) /\ e \in Extents /\ e.block \in Nat /\ e.len \in Nat /\ e.start \in Nat
      BY <1>1, HeldTyped
    <2>2. e.len # 0
      BY <2>1, ExtentsTyped
    <2> QED
      BY <1>1, <2>1, <2>2
  <1>3. CASE z \in DOMAIN l
    <2> DEFINE g == l[z]
    <2>1. g \in Extents /\ e.block = g.block /\ e.start = g.start /\ e.len >= g.len
      BY <1>1, <1>3 DEF Extends
    <2>2. g.block \in Nat /\ g.len \in Nat \ {0} /\ g.start \in Nat
      BY <2>1, ExtentsTyped
    <2>3. \A y : y \in e.block .. e.block + e.len - 1 <=> (y \in g.block .. g.block + g.len - 1 \/ y = n)
      BY <1>1, <1>2, <1>3 DEF Holds
    <2>4. \A y : y \in e.start .. e.start + e.len - 1 <=> (y \in g.start .. g.start + g.len - 1 \/ y = b)
      BY <1>1, <1>2, <1>3 DEF Phys
    <2>5. n \notin g.block .. g.block + g.len - 1 /\ b \notin g.start .. g.start + g.len - 1
      BY <1>3 DEF Holds, Phys
    <2> DEFINE gb == g.block
               gs == g.start
               gl == g.len
               el == e.len
    <2> HIDE DEF gb, gs, gl, el
    <2>6. /\ gb \in Nat /\ gs \in Nat /\ gl \in Nat \ {0} /\ el \in Nat /\ el >= gl
          /\ Adds(gb, gl, el, n) /\ Adds(gs, gl, el, b)
          /\ n \notin gb .. gb + gl - 1 /\ b \notin gs .. gs + gl - 1
      BY <1>2, <2>1, <2>2, <2>3, <2>4, <2>5 DEF gb, gs, gl, el, Adds
    <2>7. n = gb + gl
      BY <2>6, IntervalGrows
    <2>8. b = gs + gl
      BY <2>6, IntervalGrows
    <2>9. gs + (n - gb) = b
      BY <2>6, <2>7, <2>8
    <2> QED
      BY <1>1, <2>1, <2>9 DEF At, gb, gs
  <1>4. CASE z \notin DOMAIN l
    <2>1. \A y : y \in e.block .. e.block + e.len - 1 <=> y = n
      BY <1>1, <1>2, <1>4 DEF Holds
    <2>2. \A y : y \in e.start .. e.start + e.len - 1 <=> y = b
      BY <1>1, <1>2, <1>4 DEF Phys
    <2> DEFINE eb == e.block
               es == e.start
               el == e.len
    <2> HIDE DEF eb, es, el
    <2>3. /\ eb \in Nat /\ es \in Nat /\ el \in Nat \ {0}
          /\ \A y \in Nat : y \in eb .. eb + el - 1 <=> y = n
          /\ \A y \in Nat : y \in es .. es + el - 1 <=> y = b
      BY <1>2, <2>1, <2>2 DEF eb, es, el
    <2>4. n = eb
      BY <2>3, IntervalOne
    <2>5. b = es
      BY <2>3, IntervalOne
    <2>6. es + (n - eb) = b
      BY <2>3, <2>4, <2>5
    <2> QED
      BY <1>1, <2>6 DEF At, eb, es
  <1> QED
    BY <1>3, <1>4

LEMMA OneMore ==
    ASSUME NEW a \in Nat, NEW b \in {a, a + 1}
    PROVE  /\ \A x, y \in 1 .. b : x < y => x \in 1 .. a
           /\ \A y \in 1 .. b : y \notin 1 .. a => y = b
  OBVIOUS

\* A list that has all blocks before n, and gets n.
LEMMA GrowsReady ==
    ASSUME NEW l \in Seq(Extents), NEW l2, NEW n \in Nat, NEW b, Grows(l, l2, n, b),
           \A x : ~Holds(l, x, n), Ready(l, n)
    PROVE  Ready(l2, n + 1)
  <1>0. l2 \in Seq(Extents) /\ Len(l2) \in {Len(l), Len(l) + 1} /\ Extends(l, l2) /\ Len(l) \in Nat
    BY DEF Grows
  <1>1. \A x, m : Holds(l2, x, m) <=> (Holds(l, x, m) \/ (x = Len(l2) /\ m = n))
    BY DEF Grows
  <1>2. \A x, m : Holds(l, x, m) => m \in Nat /\ m < n
    <2> SUFFICES ASSUME NEW x, NEW m, Holds(l, x, m) PROVE m \in Nat /\ m < n
      OBVIOUS
    <2>1. m \in Nat
      BY HeldTyped
    <2>2. m >= n => \E y : Holds(l, y, n)
      BY <2>1 DEF Ready, Dense
    <2> QED
      BY <2>1, <2>2
  <1>3. \A m \in 0 .. n : \E y : Holds(l2, y, m)
    <2>1. \A m \in 0 .. n : m \in 0 .. n - 1 \/ m = n
      OBVIOUS
    <2>2. Holds(l2, Len(l2), n)
      BY <1>1
    <2> QED
      BY <1>1, <2>1, <2>2 DEF Ready
  <1>4. Dense(l2)
    <2> SUFFICES ASSUME NEW x, NEW m, Holds(l2, x, m), NEW k \in 0 .. m PROVE \E y : Holds(l2, y, k)
      BY DEF Dense
    <2>1. m \in Nat /\ m <= n
      BY <1>1, <1>2
    <2>2. k \in 0 .. n
      BY <2>1
    <2> QED
      BY <1>3, <2>2
  <1>5. Ascending(l2)
    <2> SUFFICES ASSUME NEW x \in DOMAIN l2, NEW y \in DOMAIN l2, x < y PROVE l2[x].block < l2[y].block
      BY DEF Ascending
    <2>1. x \in 1 .. Len(l2) /\ y \in 1 .. Len(l2) /\ DOMAIN l = 1 .. Len(l) /\ DOMAIN l2 = 1 .. Len(l2)
      BY <1>0
    <2>2. x \in DOMAIN l /\ l2[x].block = l[x].block
      <3>1. x \in 1 .. Len(l)
        BY <1>0, <2>1, OneMore
      <3> QED
        BY <1>0, <2>1, <3>1 DEF Extends
    <2>3. CASE y \in DOMAIN l
      <3>1. l2[y].block = l[y].block
        BY <1>0, <2>3 DEF Extends
      <3> QED
        BY <2>2, <2>3, <3>1 DEF Ready, Ascending
    <2>4. CASE y \notin DOMAIN l
      <3>1. y = Len(l2)
        BY <1>0, <2>1, <2>4, OneMore
      <3>2. l[x] \in Extents /\ l2[y] \in Extents
        <4>1. l[x] \in Extents
          BY <2>2
        <4>2. l2[y] \in Extents
          BY <1>0
        <4> QED
          BY <4>1, <4>2
      <3>3. l[x].block \in Nat /\ l[x].len \in Nat \ {0} /\ l2[y].block \in Nat /\ l2[y].len \in Nat \ {0}
        BY <3>2, ExtentsTyped
      <3>4. Holds(l2, y, l2[y].block)
        BY <3>3 DEF Holds
      <3>5. l2[y].block = n
        BY <1>1, <2>4, <3>4 DEF Holds
      <3>6. Holds(l, x, l[x].block)
        BY <2>2, <3>3 DEF Holds
      <3> QED
        BY <1>2, <2>2, <3>5, <3>6
    <2> QED
      BY <2>3, <2>4
  <1>6. \A m \in 0 .. (n + 1) - 1 : \E y : Holds(l2, y, m)
    BY <1>3
  <1> QED
    BY <1>4, <1>5, <1>6 DEF Ready

-----------------------------------------------------------------------------
(* The words of a file *)

\* Word j of logical block m, which entry x of the file's list holds.
WordOf(s, x, m, j) == s.dev.block[At(Entries(s), x, m)].words[j]

\* Word j of logical block m is one of the words w, which belong at start.
Among(w, start, m, j) == m * BlockWords + j - start \in DOMAIN w

\* In the blocks first .. n, the words w that belong there.
NewWords(s, start, w, first, n) ==
    \A x, m : \A j \in 1 .. BlockWords :
        Holds(Entries(s), x, m) /\ m \in first .. n /\ Among(w, start, m, j)
            => WordOf(s, x, m, j) = w[m * BlockWords + j - start]

\* Where these are not, what was there.
OldWords(s0, s, start, w, first, n) ==
    \A x, m : \A j \in 1 .. BlockWords :
        Holds(Entries(s0), x, m) /\ ~(m \in first .. n /\ Among(w, start, m, j))
            => WordOf(s, x, m, j) = WordOf(s0, x, m, j)

\* The other files have the words they had.
OthersWords(s0, s, f) ==
    \A g \in Files \ {f} : \A x, c :
        Phys(List(s0.dev.inode[g].root, s0.dev.block), x, c) => s.dev.block[c].words = s0.dev.block[c].words

\* s is s0 after the words w were written at start, in the blocks first .. n of file f.
Laid(s0, s, f, start, w, first, n) ==
    /\ NewWords(s, start, w, first, n)
    /\ OldWords(s0, s, start, w, first, n)
    /\ OthersWords(s0, s, f)
    /\ Ready(Entries(s0), first) => Ready(Entries(s), n + 1)

\* The words of a block with those of w that belong there.
Patched(words, old, start, w, n) ==
    \A j \in 1 .. BlockWords :
        words[j] = IF Among(w, start, n, j) THEN w[n * BlockWords + j - start] ELSE old[j]

\* The places of a file's blocks.
LEMMA HeldPlace ==
    ASSUME NEW f \in Files, NEW s, Stands(s, f), NEW x, NEW m, Holds(Entries(s), x, m)
    PROVE  LET c == At(Entries(s), x, m)
           IN  /\ Has(Inodes1(s, f)[f].root, s.dev.block, x, c)
               /\ c \in s.dev.used /\ c \in Blocks /\ m \in Nat
               /\ ~(s.mem.root.depth = 1 /\ c = LeafOf(s.mem.root))
  <1> DEFINE c == At(Entries(s), x, m)
             r == s.mem.root
  <1>1. s \in Results /\ Entries(s) \in Seq(Extents) /\ Inodes1(s, f)[f] = s.mem /\ s.dev.used \subseteq Blocks
    BY EntriesTyped, InodesWith, ResultFields
  <1>2. Phys(Entries(s), x, c) /\ m \in Nat /\ x \in 1 .. Len(Entries(s))
    BY <1>1, HeldTyped
  <1>3. x # 0
    BY <1>1, <1>2
  <1> HIDE DEF c
  <1>4. Has(r, s.dev.block, x, c)
    BY <1>2 DEF Has, Entries
  <1>5. Sound(Inodes1(s, f), s.dev.block, s.dev.used)
    BY DEF Stands
  <1>6. c \in s.dev.used
    BY <1>1, <1>4, <1>5 DEF Sound, InUse
  <1>7. r.depth = 1 /\ c = LeafOf(r) => Has(r, s.dev.block, 0, c)
    BY DEF Has
  <1>8. ~Has(r, s.dev.block, 0, c)
    BY <1>1, <1>3, <1>4, <1>5 DEF Sound, Apart
  <1> QED
    BY <1>1, <1>2, <1>4, <1>6, <1>7, <1>8 DEF c

\* Different places of a file's list are different blocks of the device.
LEMMA HeldApart ==
    ASSUME NEW f \in Files, NEW s, Stands(s, f), NEW x, NEW m, NEW y, NEW n,
           Holds(Entries(s), x, m), Holds(Entries(s), y, n)
    PROVE  At(Entries(s), x, m) = At(Entries(s), y, n) <=> (x = y /\ m = n)
  <1> DEFINE c == At(Entries(s), x, m)
             d == At(Entries(s), y, n)
             r == Inodes1(s, f)[f].root
  <1>1. Has(r, s.dev.block, x, c)
    BY HeldPlace
  <1>2. Has(r, s.dev.block, y, d)
    BY HeldPlace
  <1>3. Sound(Inodes1(s, f), s.dev.block, s.dev.used)
    BY DEF Stands
  <1> HIDE DEF c, d
  <1>4. c = d => x = y
    BY <1>1, <1>2, <1>3 DEF Sound, Apart
  <1>5. Entries(s) \in Seq(Extents)
    BY EntriesTyped
  <1>6. c = d => m = n
    BY <1>4, <1>5, AtInjective DEF c, d
  <1> QED
    BY <1>4, <1>6 DEF c, d

\* Another file's block is not touched by a write to block b of file f.
LEMMA OtherPlace ==
    ASSUME NEW f \in Files, NEW s, Stands(s, f), NEW g \in Files \ {f}, NEW x, NEW c,
           Phys(List(s.dev.inode[g].root, s.dev.block), x, c)
    PROVE  /\ c \in s.dev.used /\ c \in Blocks
           /\ ~(s.mem.root.depth = 1 /\ c = LeafOf(s.mem.root))
           /\ \A y : ~Phys(Entries(s), y, c)
  <1> DEFINE I == Inodes1(s, f)
             B == s.dev.block
  <1>1. s \in Results /\ I[f] = s.mem /\ I[g] = s.dev.inode[g] /\ s.dev.used \subseteq Blocks /\ f # g
    BY EntriesTyped, InodesWith, ResultFields
  <1>2. Sound(I, B, s.dev.used)
    BY DEF Stands
  <1> HIDE DEF I, B
  <1>3. Has(I[g].root, B, x, c)
    BY <1>1 DEF Has, B
  <1>4. c \in s.dev.used
    BY <1>2, <1>3 DEF Sound, InUse
  <1>5. \A y : ~Has(I[f].root, B, y, c)
    BY <1>1, <1>2, <1>3 DEF Sound, Apart
  <1>6. s.mem.root.depth = 1 /\ c = LeafOf(s.mem.root) => Has(I[f].root, B, 0, c)
    BY <1>1 DEF Has
  <1>7. \A y : Phys(Entries(s), y, c) => Has(I[f].root, B, y, c)
    BY <1>1 DEF Has, Entries, B
  <1> QED
    BY <1>1, <1>4, <1>5, <1>6, <1>7

\* Block b is where t has logical block n: it was there before, or it is new.
Located(s, t, f, n, b) ==
    /\ \E z : Holds(Entries(t), z, n) /\ At(Entries(t), z, n) = b
    /\ \/ t = s
       \/ Mapped(s, t, f, n, b) /\ \A x : ~Holds(Entries(s), x, n)

\* The other files' blocks are as they were, and b is not one of them.
OthersSpared(s, t, f, b) ==
    \A g \in Files \ {f} : \A x, c : Phys(List(s.dev.inode[g].root, s.dev.block), x, c) =>
        c \in Blocks /\ c # b /\ t.dev.block[c] = s.dev.block[c]

\* What the place of a block has to do with the list before.
LEMMA LocatedKeeps ==
    ASSUME NEW f \in Files, NEW s, Stands(s, f), NEW t, NEW n \in Nat, NEW b, Located(s, t, f, n, b)
    PROVE  /\ Stands(t, f) /\ Extends(Entries(s), Entries(t))
           /\ \A x, m : Holds(Entries(s), x, m) =>
                  /\ Holds(Entries(t), x, m) /\ At(Entries(t), x, m) = At(Entries(s), x, m)
                  /\ t.dev.block[At(Entries(s), x, m)] = s.dev.block[At(Entries(s), x, m)]
                  /\ m = n => t = s
           /\ OthersSpared(s, t, f, b)
           /\ Ready(Entries(s), n) => Ready(Entries(t), n + 1)
  <1>1. Entries(s) \in Seq(Extents)
    BY EntriesTyped
  <1>2. PICK z : Holds(Entries(t), z, n) /\ At(Entries(t), z, n) = b
    BY DEF Located
  <1>3. CASE t = s
    <2>1. Extends(Entries(s), Entries(s))
      BY <1>1, ExtendsSelf
    <2>2. Phys(Entries(s), z, b)
      BY <1>1, <1>2, <1>3, HeldTyped
    <2>3. \A g \in Files \ {f} : \A x, c : Phys(List(s.dev.inode[g].root, s.dev.block), x, c) => c \in Blocks /\ c # b
      BY <2>2, OtherPlace
    <2>4. Ready(Entries(s), n) => Ready(Entries(s), n + 1)
      <3>1. \A m \in 0 .. (n + 1) - 1 : m \in 0 .. n - 1 \/ m = n
        OBVIOUS
      <3> QED
        BY <1>2, <1>3, <3>1 DEF Ready
    <2> QED
      BY <1>3, <2>1, <2>3, <2>4 DEF OthersSpared
  <1>4. CASE Mapped(s, t, f, n, b) /\ \A x : ~Holds(Entries(s), x, n)
    <2>1. /\ Stands(t, f) /\ Grows(Entries(s), Entries(t), n, b) /\ LeavesBlocks(s, t)
          /\ b \notin s.dev.used
      BY <1>4 DEF Mapped
    <2>2. Extends(Entries(s), Entries(t)) /\ Entries(t) \in Seq(Extents)
      BY <2>1 DEF Grows
    <2>3. ASSUME NEW x, NEW m, Holds(Entries(s), x, m)
          PROVE  /\ Holds(Entries(t), x, m) /\ At(Entries(t), x, m) = At(Entries(s), x, m)
                 /\ t.dev.block[At(Entries(s), x, m)] = s.dev.block[At(Entries(s), x, m)]
                 /\ m = n => t = s
      <3>1. Holds(Entries(t), x, m)
        BY <1>1, <2>2, <2>3, ExtendsPhys
      <3>2. At(Entries(t), x, m) = At(Entries(s), x, m)
        BY <2>2, <2>3, ExtendsAt
      <3>3. t.dev.block[At(Entries(s), x, m)] = s.dev.block[At(Entries(s), x, m)]
        BY <2>1, <2>3, HeldPlace DEF LeavesBlocks
      <3> QED
        BY <1>4, <2>3, <3>1, <3>2, <3>3
    <2>4. ASSUME NEW g \in Files \ {f}, NEW x, NEW c, Phys(List(s.dev.inode[g].root, s.dev.block), x, c)
          PROVE  c \in Blocks /\ c # b /\ t.dev.block[c] = s.dev.block[c]
      <3>1. c \in s.dev.used /\ c \in Blocks /\ ~(s.mem.root.depth = 1 /\ c = LeafOf(s.mem.root))
        BY <2>4, OtherPlace
      <3> QED
        BY <2>1, <3>1 DEF LeavesBlocks
    <2>5. Ready(Entries(s), n) => Ready(Entries(t), n + 1)
      BY <1>1, <1>4, <2>1, GrowsReady
    <2> QED
      BY <2>1, <2>2, <2>3, <2>4, <2>5 DEF OthersSpared
  <1> QED
    BY <1>3, <1>4 DEF Located

\* A round of WriteFileAt that writes block n.
LEMMA RoundLaid ==
    ASSUME NEW f \in Files, NEW s, Stands(s, f), NEW t, NEW n \in Nat, NEW b, Located(s, t, f, n, b),
           NEW u, DataWritten(t, u, f, b), NEW start \in Nat, NEW w,
           Patched(u.dev.block[b].words, t.dev.block[b].words, start, w, n)
    PROVE  Laid(s, u, f, start, w, n, n)
  <1>1. /\ Stands(t, f) /\ Extends(Entries(s), Entries(t))
        /\ \A x, m : Holds(Entries(s), x, m) =>
               /\ Holds(Entries(t), x, m) /\ At(Entries(t), x, m) = At(Entries(s), x, m)
               /\ t.dev.block[At(Entries(s), x, m)] = s.dev.block[At(Entries(s), x, m)]
               /\ m = n => t = s
    BY LocatedKeeps
  <1>2. OthersSpared(s, t, f, b)
    BY LocatedKeeps
  <1>3. Entries(u) = Entries(t) /\ b \in Blocks /\ \A c \in Blocks : c # b => u.dev.block[c] = t.dev.block[c]
    BY DEF DataWritten
  <1>4. PICK z : Holds(Entries(t), z, n) /\ At(Entries(t), z, n) = b
    BY DEF Located
  <1>5. n \in n .. n /\ \A m : m \in n .. n => m = n
    OBVIOUS
  <1>6. \A x, m : Holds(Entries(t), x, m) =>
            /\ At(Entries(t), x, m) \in Blocks
            /\ m = n => At(Entries(t), x, m) = b
            /\ m # n => u.dev.block[At(Entries(t), x, m)] = t.dev.block[At(Entries(t), x, m)]
    <2> SUFFICES ASSUME NEW x, NEW m, Holds(Entries(t), x, m)
                 PROVE  /\ At(Entries(t), x, m) \in Blocks
                        /\ m = n => At(Entries(t), x, m) = b
                        /\ m # n => u.dev.block[At(Entries(t), x, m)] = t.dev.block[At(Entries(t), x, m)]
      OBVIOUS
    <2>1. At(Entries(t), x, m) \in Blocks
      BY <1>1, HeldPlace
    <2>2. m = n => x = z
      <3>1. Orderly(Entries(t), f)
        BY <1>1, EntriesTyped
      <3> QED
        BY <1>4, <3>1 DEF Orderly
    <2>3. m # n => At(Entries(t), x, m) # b
      BY <1>1, <1>4, HeldApart
    <2> QED
      BY <1>3, <1>4, <2>1, <2>2, <2>3
  <1>7. NewWords(u, start, w, n, n)
    <2> SUFFICES ASSUME NEW x, NEW m, NEW j \in 1 .. BlockWords, Holds(Entries(u), x, m), m = n, Among(w, start, m, j)
                 PROVE  WordOf(u, x, m, j) = w[m * BlockWords + j - start]
      BY <1>5 DEF NewWords
    <2>1. WordOf(u, x, m, j) = u.dev.block[b].words[j]
      BY <1>3, <1>6 DEF WordOf
    <2> QED
      BY <2>1 DEF Patched
  <1>8. OldWords(s, u, start, w, n, n)
    <2> SUFFICES ASSUME NEW x, NEW m, NEW j \in 1 .. BlockWords, Holds(Entries(s), x, m),
                        ~(m = n /\ Among(w, start, m, j))
                 PROVE  WordOf(u, x, m, j) = WordOf(s, x, m, j)
      BY <1>5 DEF OldWords
    <2>1. /\ Holds(Entries(t), x, m) /\ At(Entries(t), x, m) = At(Entries(s), x, m)
          /\ t.dev.block[At(Entries(s), x, m)] = s.dev.block[At(Entries(s), x, m)]
          /\ m = n => t = s
      BY <1>1
    <2>2. WordOf(u, x, m, j) = u.dev.block[At(Entries(t), x, m)].words[j]
          /\ WordOf(s, x, m, j) = t.dev.block[At(Entries(t), x, m)].words[j]
      BY <1>3, <2>1 DEF WordOf
    <2>3. CASE m = n
      <3>1. At(Entries(t), x, m) = b
        BY <1>6, <2>1, <2>3
      <3>2. u.dev.block[b].words[j] = t.dev.block[b].words[j]
        BY <2>3 DEF Patched
      <3> QED
        BY <2>2, <3>1, <3>2
    <2>4. CASE m # n
      BY <1>6, <2>1, <2>2, <2>4
    <2> QED
      BY <2>3, <2>4
  <1>9. OthersWords(s, u, f)
    BY <1>2, <1>3 DEF OthersWords, OthersSpared
  <1>10. Ready(Entries(s), n) => Ready(Entries(u), n + 1)
    BY <1>3, LocatedKeeps
  <1> QED
    BY <1>7, <1>8, <1>9, <1>10 DEF Laid

\* The loop's body: an error, a panic, or logical block n is written.
LEMMA WritesBlock ==
    ASSUME NoSplit, NEW f \in Files, NEW s, Stands(s, f), NEW l \in Seq(Extents), Extends(l, Entries(s)),
           NEW w \in Seq(Words), NEW start \in Nat, NEW n \in Logical(f),
           Mapping(l, n) = {} => \A x : ~Holds(Entries(s), x, n)
    PROVE  LET u == WriteBlock(s, l, start, w, n)
           IN  \/ Failed(u)
               \/ start > n * BlockWords /\ Panicked(s, u, f, l, n)
               \/ ~(start > n * BlockWords) /\ Wrote(s, u, f, n) /\ Laid(s, u, f, start, w, n, n)
  <1> DEFINE found == Mapping(l, n) # {}
             b == IF found THEN findPhysicalBlock(l, n) ELSE NextFree(s)
             t == IF found THEN s ELSE Then(AllocateBlock(s), LAMBDA a : AppendExtent(a, Extent(n, 1, b)))
             at(i) == n * BlockWords + i - start
             words == [i \in 1 .. BlockWords |->
                          IF at(i) \in DOMAIN w THEN w[at(i)] ELSE t.dev.block[b].words[i]]
             u == WriteBlock(s, l, start, w, n)
             v == [t EXCEPT !.dev.block[b] = DataBlock(words)]
  <1>1. s \in Results /\ s.status = "ok" /\ n \in Nat /\ Entries(s) \in Seq(Extents)
    <2>1. s \in Results /\ Inodes1(s, f)[f] = s.mem
      BY InodesWith DEF Stands
    <2>2. Orderly(Entries(s), f)
      BY <2>1 DEF Stands, Sound, TreesOK, Entries
    <2> QED
      BY <2>1, <2>2, LogicalBelow DEF Stands, Orderly
  <1>2. u = Then(t, LAMBDA z : IF start > n * BlockWords THEN [z EXCEPT !.status = "panic"]
                               ELSE [z EXCEPT !.dev.block[b] = DataBlock(words)])
    BY Zenon DEF WriteBlock
  <1>3. \/ Failed(t)
        \/ found /\ t = s /\ \E x : At(Entries(t), x, n) = b /\ Holds(Entries(t), x, n)
        \/ ~found /\ Mapped(s, t, f, n, b)
    <2>1. CASE found
      <3>1. t = s /\ b = findPhysicalBlock(l, n)
        BY <2>1
      <3>2. \E x : At(l, x, n) = b /\ Holds(l, x, n)
        BY <1>1, <2>1, <3>1, FindsAt
      <3> HIDE DEF t, b
      <3>3. \E x : At(Entries(s), x, n) = b /\ Holds(Entries(s), x, n)
        BY <1>1, <3>2, ExtendsPhys, ExtendsAt
      <3> QED
        BY <2>1, <3>1, <3>3
    <2>2. CASE ~found
      <3>1. b = NextFree(s) /\ t = Then(AllocateBlock(s), LAMBDA a : AppendExtent(a, Extent(n, 1, NextFree(s))))
        BY <2>2
      <3> HIDE DEF t, b
      <3>2. CASE AllocateBlock(s).status = "ok"
        <4>1. t = AppendExtent(AllocateBlock(s), Extent(n, 1, NextFree(s)))
          BY <3>1, <3>2 DEF Then
        <4>2. Failed(t) \/ Mapped(s, t, f, n, NextFree(s))
          BY <2>2, <3>2, <4>1, Appends
        <4> QED
          BY <2>2, <3>1, <4>2
      <3>3. CASE AllocateBlock(s).status # "ok"
        <4>1. Failed(AllocateBlock(s))
          BY <1>1, <3>3, Allocates
        <4>2. t = AllocateBlock(s)
          BY <3>1, <3>3 DEF Then
        <4> QED
          BY <4>1, <4>2
      <3> QED
        BY <3>2, <3>3
    <2> QED
      BY <2>1, <2>2
  <1>4. CASE Failed(t)
    BY <1>2, <1>4 DEF Then, Failed
  <1>5. CASE ~Failed(t)
    <2>1. /\ Stands(t, f)
          /\ \E x : Phys(Entries(t), x, b)
          /\ \/ found /\ t = s /\ \E x : At(Entries(t), x, n) = b /\ Holds(Entries(t), x, n)
             \/ ~found /\ Mapped(s, t, f, n, b)
      <3> HIDE DEF t, b
      <3>1. CASE ~found /\ Mapped(s, t, f, n, b)
        BY <3>1, MappedPhys
      <3>2. CASE found /\ t = s /\ \E x : At(Entries(t), x, n) = b /\ Holds(Entries(t), x, n)
        BY <1>1, <3>2, HeldTyped
      <3> QED
        BY <1>3, <1>5, <3>1, <3>2
    <2>0. Located(s, t, f, n, b)
      <3> HIDE DEF t, b
      <3>1. CASE ~found /\ Mapped(s, t, f, n, b)
        <4>1. \A x : ~Holds(Entries(s), x, n)
          BY <3>1
        <4>2. Grows(Entries(s), Entries(t), n, b) /\ b \notin s.dev.used
          BY <3>1 DEF Mapped
        <4>3. \A x : ~Phys(Entries(s), x, b)
          <5>1. Sound(Inodes1(s, f), s.dev.block, s.dev.used) /\ Inodes1(s, f)[f] = s.mem
            BY <1>1, InodesWith DEF Stands
          <5>2. \A x : Phys(Entries(s), x, b) => Has(s.mem.root, s.dev.block, x, b)
            BY DEF Has, Entries
          <5> QED
            BY <4>2, <5>1, <5>2 DEF Sound, InUse
        <4>4. b \in Nat
          <5>1. b \in t.dev.used /\ t \in Results
            BY <3>1 DEF Mapped, Stands
          <5> QED
            BY <5>1, ResultFields, SizesAssumption DEF Blocks
        <4>5. Holds(Entries(t), Len(Entries(t)), n) /\ At(Entries(t), Len(Entries(t)), n) = b
          BY <1>1, <4>1, <4>2, <4>3, <4>4, GrowsAt
        <4> QED
          BY <3>1, <4>1, <4>5 DEF Located
      <3>2. CASE t = s /\ \E x : At(Entries(t), x, n) = b /\ Holds(Entries(t), x, n)
        BY <3>2 DEF Located
      <3> QED
        BY <2>1, <3>1, <3>2
    <2>2. u = IF start > n * BlockWords THEN [t EXCEPT !.status = "panic"] ELSE v
      <3>1. t.status = "ok"
        BY <2>1 DEF Stands
      <3> HIDE DEF t, b, words, u
      <3> QED
        BY <1>2, <3>1 DEF Then
    <2>3. t \in Results /\ t.dev.block \in [Blocks -> DeviceBlocks]
      BY <2>1, ResultFields DEF Stands
    <2>4. PICK x : Phys(Entries(t), x, b)
      BY <2>1
    <2>5. b \in Blocks
      <3>1. Has(Inodes1(t, f)[f].root, t.dev.block, x, b)
        BY <2>3, <2>4, InodesWith DEF Has, Entries
      <3>2. b \in t.dev.used
        BY <2>1, <3>1 DEF Stands, Sound, InUse
      <3> QED
        BY <2>3, <3>2, ResultFields
    <2>6. words \in [1 .. BlockWords -> Words]
      <3>1. t.dev.block[b].words \in [1 .. BlockWords -> Words]
        BY <2>3, <2>5 DEF DeviceBlocks
      <3> DEFINE old == t.dev.block[b].words
      <3>2. \A i \in 1 .. BlockWords : old[i] \in Words
        BY <3>1
      <3> HIDE DEF old, at
      <3>3. \A i \in 1 .. BlockWords : (IF at(i) \in DOMAIN w THEN w[at(i)] ELSE old[i]) \in Words
        BY <3>2
      <3>4. words = [i \in 1 .. BlockWords |-> IF at(i) \in DOMAIN w THEN w[at(i)] ELSE old[i]]
        BY Zenon DEF old
      <3> HIDE DEF words
      <3> QED
        BY <3>3, <3>4
    <2> HIDE DEF words, found, b
    <2>7. CASE start > n * BlockWords
      <3>1. u = [t EXCEPT !.status = "panic"]
        BY <2>2, <2>7
      <3> HIDE DEF u, t
      <3>2. u \in Results /\ u.status = "panic" /\ u.dev = t.dev
        BY <2>3, <3>1 DEF Results
      <3>3. t.dev.inode = s.dev.inode /\ (found => t.dev = s.dev)
        BY <2>1 DEF Mapped
      <3>4. s.mem = s.dev.inode[f] => Sound(s.dev.inode, t.dev.block, t.dev.used)
        <4>1. CASE Mapped(s, t, f, n, b)
          BY <4>1 DEF Mapped
        <4>2. CASE t = s
          BY <1>1, <4>2, InodesWith DEF Stands
        <4> QED
          BY <2>1, <4>1, <4>2
      <3>5. Panicked(s, u, f, l, n)
        BY <3>2, <3>3, <3>4 DEF Panicked, found
      <3> QED
        BY <2>7, <3>5 DEF u
    <2>8. CASE ~(start > n * BlockWords)
      <3>1. Overwritten(t, u, b, words)
        BY <2>2, <2>8 DEF Overwritten
      <3> HIDE DEF u, t, v
      <3>0. DataWritten(t, u, f, b)
        <4>1. Stands(t, f)
          BY <2>1
        <4> QED
          BY <4>1, <2>4, <2>6, <3>1, WritesData
      <3>2. /\ Stands(u, f) /\ u.dev.inode = t.dev.inode /\ u.dev.used = t.dev.used /\ u.mem = t.mem
            /\ Entries(u) = Entries(t) /\ b \in Blocks
            /\ \A c \in Blocks : c # b => u.dev.block[c] = t.dev.block[c]
            /\ OthersKept(t, u, f)
        BY <3>0 DEF DataWritten
      <3>4. Laid(s, u, f, start, w, n, n)
        <4>1. u.dev.block[b].words = words
          BY <2>3, <2>5, <3>1, ResultFields DEF Overwritten, DataBlock, Results, Devices
        <4>2. Patched(words, t.dev.block[b].words, start, w, n)
          BY DEF Patched, Among, words
        <4> QED
          BY <1>1, <2>0, <3>0, <4>1, <4>2, RoundLaid
      <3>3. Wrote(s, u, f, n)
        <4>1. CASE Mapped(s, t, f, n, b)
          BY <3>2, <4>1, MappedWrote
        <4>2. CASE t = s /\ \E y : Holds(Entries(t), y, n)
          <5>1. Extends(Entries(s), Entries(u))
            BY <1>1, <3>2, <4>2, ExtendsSelf
          <5>2. UseExplained(s, u)
            <6>1. \A c \in u.dev.used : c \in Blocks
              BY <2>3, <3>2, ResultFields
            <6>2. \A c \in u.dev.used : c = b \/ u.dev.block[c] = s.dev.block[c]
              BY <3>2, <4>2, <6>1
            <6>3. Phys(Entries(u), x, b) /\ u.dev.used = s.dev.used
              BY <2>4, <3>2, <4>2
            <6> QED
              BY <6>2, <6>3 DEF UseExplained
          <5> QED
            BY <3>2, <4>2, <5>1, <5>2 DEF Wrote
        <4> QED
          BY <2>1, <4>1, <4>2
      <3> QED
        BY <2>8, <3>3, <3>4 DEF u
    <2> QED
      BY <2>7, <2>8
  <1> QED
    BY <1>4, <1>5

-----------------------------------------------------------------------------
(* WriteFileAt *)

LEMMA TimesMonotone ==
    ASSUME NEW a \in Nat, NEW c \in Nat, NEW k \in Nat, a <= c
    PROVE  a * k <= c * k /\ a * k \in Nat /\ c * k \in Nat
  OBVIOUS

LEMMA Quotient ==
    ASSUME NEW x \in Nat, NEW k \in Nat \ {0}
    PROVE  /\ x \div k \in Nat
           /\ (x \div k) * k <= x
           /\ x < (x \div k + 1) * k
  OBVIOUS

\* The blocks of the words from start on, up to word y.
LEMMA BlockOfWord ==
    ASSUME NEW x \in Nat, NEW n \in Nat
    PROVE  /\ n <= x \div BlockWords <=> n * BlockWords <= x
           /\ x \div BlockWords \in Nat
  <1> DEFINE k == BlockWords
             q == x \div k
  <1>1. k \in Nat \ {0}
    BY SizesAssumption
  <1>2. q \in Nat /\ q * k <= x /\ x < (q + 1) * k
    BY <1>1, Quotient
  <1> HIDE DEF k, q
  <1>3. n <= q => n * k <= x
    <2>1. n <= q => n * k <= q * k /\ n * k \in Nat /\ q * k \in Nat
      BY <1>1, <1>2, TimesMonotone
    <2> QED
      BY <1>2, <2>1
  <1>4. ~(n <= q) => ~(n * k <= x)
    <2>1. ~(n <= q) => q + 1 <= n
      BY <1>2
    <2>2. q + 1 <= n => (q + 1) * k <= n * k /\ (q + 1) * k \in Nat /\ n * k \in Nat
      <3>1. q + 1 \in Nat
        BY <1>2
      <3> QED
        BY <1>1, <3>1, TimesMonotone
    <2> QED
      BY <1>2, <2>1, <2>2
  <1> QED
    BY <1>2, <1>3, <1>4 DEF k, q

\* Up to logical block n, the loop that began at block first with s0 has come to s.
Running(s0, s, f, first, n) ==
    /\ Stands(s, f) /\ s.dev.inode = s0.dev.inode /\ s.mem.size = s0.mem.size
    /\ Extends(Entries(s0), Entries(s))
    /\ \A m \in first .. n : \E x : Holds(Entries(s), x, m)
    /\ \A x, m : Holds(Entries(s), x, m) => Holds(Entries(s0), x, m) \/ m \in first .. n
    /\ s0.dev.used \subseteq s.dev.used
    /\ OthersKept(s0, s, f) /\ UseExplained(s0, s)
    /\ n = first - 1 => s = s0

Loop(s0, s, f, start, w, first, n) ==
    \/ Failed(s)
    \/ start > first * BlockWords /\ Panicked(s0, s, f, Entries(s0), first)
    \/ Running(s0, s, f, first, n) /\ Laid(s0, s, f, start, w, first, n)

LEMMA LoopStarts ==
    ASSUME NEW f \in Files, NEW s, Stands(s, f), NEW first \in Nat
    PROVE  Running(s, s, f, first, first - 1)
  <1>1. Entries(s) \in Seq(Extents)
    BY EntriesTyped
  <1>2. Extends(Entries(s), Entries(s))
    BY <1>1, ExtendsSelf
  <1>3. OthersKept(s, s, f) /\ UseExplained(s, s)
    BY DEF OthersKept, UseExplained
  <1>4. first .. first - 1 = {}
    OBVIOUS
  <1> QED
    BY <1>2, <1>3, <1>4 DEF Running

LEMMA WroteAgain ==
    ASSUME NEW f \in Files, NEW s0, Stands(s0, f), NEW s, NEW first \in Nat, NEW n \in Nat, first <= n,
           Running(s0, s, f, first, n - 1), NEW u, Wrote(s, u, f, n)
    PROVE  Running(s0, u, f, first, n)
  <1>1. Entries(s0) \in Seq(Extents) /\ Entries(s) \in Seq(Extents) /\ Entries(u) \in Seq(Extents)
    BY EntriesTyped DEF Running, Wrote
  <1>2. Extends(Entries(s), Entries(u)) /\ Extends(Entries(s0), Entries(s))
    BY DEF Running, Wrote
  <1>3. Extends(Entries(s0), Entries(u))
    BY <1>1, <1>2, ExtendsTransitive
  <1>4. /\ \A x, c : Phys(Entries(s), x, c) => Phys(Entries(u), x, c)
        /\ \A x, m : Holds(Entries(s), x, m) => Holds(Entries(u), x, m)
    BY <1>1, <1>2, ExtendsPhys
  <1>5. \A m : m \in first .. n <=> m \in first .. n - 1 \/ m = n
    OBVIOUS
  <1>6. \A m \in first .. n : \E x : Holds(Entries(u), x, m)
    BY <1>4, <1>5 DEF Running, Wrote
  <1>7. \A x, m : Holds(Entries(u), x, m) => Holds(Entries(s0), x, m) \/ m \in first .. n
    BY <1>5 DEF Running, Wrote
  <1>8. s.dev.inode = s0.dev.inode
    BY DEF Running
  <1>9. OthersKept(s0, u, f)
    BY <1>8 DEF OthersKept, Running, Wrote
  <1>10. UseExplained(s0, u)
    <2> SUFFICES ASSUME NEW c \in u.dev.used
                 PROVE  \/ c \in s0.dev.used /\ (s0.dev.block[c].node => u.dev.block[c].node)
                        \/ u.dev.block[c].node
                        \/ \E x : Phys(Entries(u), x, c)
      BY DEF UseExplained
    <2>1. \/ c \in s.dev.used /\ (s.dev.block[c].node => u.dev.block[c].node)
          \/ u.dev.block[c].node
          \/ \E x : Phys(Entries(u), x, c)
      BY DEF Wrote, UseExplained
    <2>2. c \in s.dev.used => \/ c \in s0.dev.used /\ (s0.dev.block[c].node => s.dev.block[c].node)
                              \/ s.dev.block[c].node
                              \/ \E x : Phys(Entries(s), x, c)
      BY DEF Running, UseExplained
    <2> QED
      BY <1>4, <2>1, <2>2
  <1>11. s0.dev.used \subseteq u.dev.used /\ Stands(u, f) /\ u.dev.inode = s0.dev.inode
         /\ u.mem.size = s0.mem.size /\ n # first - 1
    BY <1>8 DEF Running, Wrote
  <1> QED
    BY <1>3, <1>6, <1>7, <1>9, <1>10, <1>11 DEF Running

\* Nothing has been written yet.
LEMMA LaidStarts ==
    ASSUME NEW s, NEW f, NEW start, NEW w, NEW first \in Nat
    PROVE  Laid(s, s, f, start, w, first, first - 1)
  <1>1. \A m : m \notin first .. first - 1
    OBVIOUS
  <1>2. NewWords(s, start, w, first, first - 1) /\ OldWords(s, s, start, w, first, first - 1)
    BY <1>1 DEF NewWords, OldWords
  <1>3. OthersWords(s, s, f)
    BY DEF OthersWords
  <1>4. (first - 1) + 1 = first
    OBVIOUS
  <1> QED
    BY <1>2, <1>3, <1>4 DEF Laid

\* The files that s is not about have the same list.
LEMMA OthersList ==
    ASSUME NEW f, NEW s0, NEW s, OthersKept(s0, s, f), s.dev.inode = s0.dev.inode, NEW g \in Files \ {f},
           s0.dev.inode[g].root.depth \in {0, 1}
    PROVE  List(s.dev.inode[g].root, s.dev.block) = List(s0.dev.inode[g].root, s0.dev.block)
  BY DEF OthersKept, List

\* One more round.
LEMMA LaidAgain ==
    ASSUME NEW f \in Files, NEW s0, Stands(s0, f), NEW s, NEW first \in Nat, NEW n \in Nat, first <= n,
           Running(s0, s, f, first, n - 1), NEW u, Wrote(s, u, f, n), NEW start \in Nat, NEW w,
           Laid(s0, s, f, start, w, first, n - 1), Laid(s, u, f, start, w, n, n)
    PROVE  Laid(s0, u, f, start, w, first, n)
  <1>1. Entries(s0) \in Seq(Extents) /\ Entries(s) \in Seq(Extents) /\ Entries(u) \in Seq(Extents) /\ s0 \in Results
    BY EntriesTyped DEF Running, Wrote
  <1>2. Extends(Entries(s), Entries(u)) /\ Extends(Entries(s0), Entries(s))
    BY DEF Running, Wrote
  <1>3. \A x, m : Holds(Entries(s0), x, m) => Holds(Entries(s), x, m)
    BY <1>1, <1>2, ExtendsPhys
  <1>4. \A x, m : Holds(Entries(u), x, m) => Holds(Entries(s), x, m) \/ m = n
    BY DEF Wrote
  <1>5. \A m : m \in first .. n <=> (m \in first .. n - 1 \/ m = n)
    OBVIOUS
  <1>6. n \notin first .. n - 1 /\ \A m : m \in n .. n <=> m = n
    OBVIOUS
  <1>7. NewWords(u, start, w, first, n)
    <2> SUFFICES ASSUME NEW x, NEW m, NEW j \in 1 .. BlockWords, Holds(Entries(u), x, m), m \in first .. n, Among(w, start, m, j)
                 PROVE  WordOf(u, x, m, j) = w[m * BlockWords + j - start]
      BY DEF NewWords
    <2>1. CASE m = n
      BY <1>6, <2>1 DEF Laid, NewWords
    <2>2. CASE m # n
      <3>1. Holds(Entries(s), x, m) /\ m \in first .. n - 1 /\ m \notin n .. n
        BY <1>4, <1>5, <1>6, <2>2
      <3>2. WordOf(s, x, m, j) = w[m * BlockWords + j - start]
        BY <3>1 DEF Laid, NewWords
      <3>3. WordOf(u, x, m, j) = WordOf(s, x, m, j)
        BY <3>1 DEF Laid, OldWords
      <3> QED
        BY <3>2, <3>3
    <2> QED
      BY <2>1, <2>2
  <1>8. OldWords(s0, u, start, w, first, n)
    <2> SUFFICES ASSUME NEW x, NEW m, NEW j \in 1 .. BlockWords, Holds(Entries(s0), x, m),
                        ~(m \in first .. n /\ Among(w, start, m, j))
                 PROVE  WordOf(u, x, m, j) = WordOf(s0, x, m, j)
      BY DEF OldWords
    <2>1. Holds(Entries(s), x, m) /\ ~(m \in n .. n /\ Among(w, start, m, j))
          /\ ~(m \in first .. n - 1 /\ Among(w, start, m, j))
      BY <1>3, <1>5, <1>6
    <2>2. WordOf(u, x, m, j) = WordOf(s, x, m, j)
      BY <2>1 DEF Laid, OldWords
    <2>3. WordOf(s, x, m, j) = WordOf(s0, x, m, j)
      BY <2>1 DEF Laid, OldWords
    <2> QED
      BY <2>2, <2>3
  <1>9. OthersWords(s0, u, f)
    <2> SUFFICES ASSUME NEW g \in Files \ {f}, NEW x, NEW c, Phys(List(s0.dev.inode[g].root, s0.dev.block), x, c)
                 PROVE  u.dev.block[c].words = s0.dev.block[c].words
      BY DEF OthersWords
    <2>1. s0.dev.inode[g].root.depth \in {0, 1}
      BY <1>1, ResultFields DEF Inodes, Roots
    <2>2. OthersKept(s0, s, f) /\ s.dev.inode = s0.dev.inode
      BY DEF Running
    <2>3. Phys(List(s.dev.inode[g].root, s.dev.block), x, c)
      BY <2>1, <2>2, OthersList
    <2>4. u.dev.block[c].words = s.dev.block[c].words
      BY <2>3 DEF Laid, OthersWords
    <2>5. s.dev.block[c].words = s0.dev.block[c].words
      BY DEF Laid, OthersWords
    <2> QED
      BY <2>4, <2>5
  <1>10. (n - 1) + 1 = n
    OBVIOUS
  <1>11. Ready(Entries(s0), first) => Ready(Entries(u), n + 1)
    BY <1>10 DEF Laid
  <1> QED
    BY <1>7, <1>8, <1>9, <1>11 DEF Laid

\* A round of the loop.
Round(s, s0, start, w, n) == Then(s, LAMBDA v : WriteBlock(v, Entries(s0), start, w, n))

LEMMA LoopGoesOn ==
    ASSUME NoSplit, NEW f \in Files, NEW s0, Stands(s0, f), NEW s, NEW w \in Seq(Words),
           NEW start \in Nat, NEW n \in Logical(f),
           start \div BlockWords <= n, Loop(s0, s, f, start, w, start \div BlockWords, n - 1)
    PROVE  /\ Round(s, s0, start, w, n) \in Results
           /\ Loop(s0, Round(s, s0, start, w, n), f, start, w, start \div BlockWords, n)
  <1> DEFINE first == start \div BlockWords
             u == Round(s, s0, start, w, n)
             wb == WriteBlock(s, Entries(s0), start, w, n)
  <1>1. n \in Nat /\ first \in Nat
    BY LogicalBelow, BlockOfWord
  <1> HIDE DEF first
  <1>2. CASE Failed(s) \/ (start > first * BlockWords /\ Panicked(s0, s, f, Entries(s0), first))
    <2>1. s.status # "ok" /\ s \in Results
      BY <1>2 DEF Failed, Panicked
    <2>2. u = s
      BY <2>1 DEF Then, Round
    <2> HIDE DEF u
    <2> QED
      BY <1>2, <2>1, <2>2 DEF Loop, u, first
  <1>3. CASE Running(s0, s, f, first, n - 1) /\ Laid(s0, s, f, start, w, first, n - 1)
    <2>1. Stands(s, f) /\ Extends(Entries(s0), Entries(s))
      BY <1>3 DEF Running
    <2>2. u = wb
      <3>1. s.status = "ok"
        BY <2>1 DEF Stands
      <3> QED
        BY <3>1 DEF Then, Round
    <2> HIDE DEF u
    <2>3. Entries(s0) \in Seq(Extents)
      BY EntriesTyped
    <2>4. Mapping(Entries(s0), n) = {} => \A x : ~Holds(Entries(s), x, n)
      <3>1. \A x : Holds(Entries(s0), x, n) => Mapping(Entries(s0), n) # {}
        BY <1>1, <2>3, MappingHolds
      <3>2. n \notin first .. n - 1
        BY <1>1
      <3> QED
        BY <1>3, <3>1, <3>2 DEF Running
    <2>5. \/ Failed(wb)
          \/ start > n * BlockWords /\ Panicked(s, wb, f, Entries(s0), n)
          \/ ~(start > n * BlockWords) /\ Wrote(s, wb, f, n) /\ Laid(s, wb, f, start, w, n, n)
      BY <2>1, <2>3, <2>4, WritesBlock
    <2> HIDE DEF wb
    <2>6. CASE Failed(wb)
      BY <2>2, <2>6 DEF Failed, Loop, u
    <2>7. CASE start > n * BlockWords /\ Panicked(s, wb, f, Entries(s0), n)
      <3>1. n <= first
        <4>1. n * BlockWords <= start
          BY <1>1, <2>7, SizesAssumption
        <4> QED
          BY <1>1, <4>1, BlockOfWord DEF first
      <3>2. n = first
        BY <1>1, <3>1 DEF first
      <3>3. s = s0
        BY <1>1, <1>3, <3>2 DEF Running
      <3>4. wb \in Results
        BY <2>7 DEF Panicked
      <3> QED
        BY <2>2, <2>7, <3>2, <3>3, <3>4 DEF Loop, first, u
    <2>8. CASE ~(start > n * BlockWords) /\ Wrote(s, wb, f, n) /\ Laid(s, wb, f, start, w, n, n)
      <3>1. first <= n
        BY DEF first
      <3>2. Running(s0, wb, f, first, n)
        BY <1>1, <1>3, <2>8, <3>1, WroteAgain
      <3>3. wb \in Results
        BY <3>2, EntriesTyped DEF Running
      <3>4. Laid(s0, wb, f, start, w, first, n)
        BY <1>1, <1>3, <2>8, <3>1, LaidAgain
      <3> QED
        BY <2>2, <3>2, <3>3, <3>4 DEF Loop, first, u
    <2> QED
      BY <2>5, <2>6, <2>7, <2>8
  <1> QED
    BY <1>2, <1>3 DEF Loop, first

\* A loop of k rounds over T, as far as it stays among the results.
Rounds(T, s0, f, w, start, k) ==
    /\ T[0] = s0
    /\ \A i \in 1 .. k :
          LET u == Round(T[i - 1], s0, start, w, start \div BlockWords + i - 1)
          IN  u \in Results => T[i] = u

LEMMA RoundsHold ==
    ASSUME NoSplit, NEW f \in Files, NEW s0, Stands(s0, f), NEW w \in Seq(Words), NEW start \in Nat,
           NEW k \in Nat, \A i \in 1 .. k : start \div BlockWords + i - 1 \in Logical(f),
           NEW T, Rounds(T, s0, f, w, start, k)
    PROVE  \A i \in 0 .. k : Loop(s0, T[i], f, start, w, start \div BlockWords, start \div BlockWords + i - 1)
  <1> DEFINE first == start \div BlockWords
             Good(i) == Loop(s0, T[i], f, start, w, first, first + i - 1)
             Bad == {i \in 0 .. k : ~Good(i)}
  <1>1. first \in Nat
    BY BlockOfWord
  <1>2. Good(0)
    <2>1. Running(s0, s0, f, first, first - 1)
      BY <1>1, LoopStarts
    <2>2. T[0] = s0 /\ first + 0 - 1 = first - 1
      BY <1>1 DEF Rounds
    <2>3. Laid(s0, s0, f, start, w, first, first - 1)
      BY <1>1, LaidStarts
    <2> HIDE DEF first
    <2> QED
      BY <2>1, <2>2, <2>3 DEF Loop
  <1>3. SUFFICES ASSUME Bad # {} PROVE FALSE
    <2> HIDE DEF Good
    <2> QED
      BY DEF Good
  <1>4. PICK i \in Bad : \A j \in Bad : i <= j
    <2>1. Bad \in SUBSET Nat
      OBVIOUS
    <2> HIDE DEF Bad
    <2> QED
      BY <1>3, <2>1, SmallestExists
  <1> HIDE DEF Good
  <1>5. i \in 1 .. k /\ i - 1 \in 0 .. k /\ i \in Nat
    BY <1>2, <1>4
  <1>6. Good(i - 1)
    BY <1>4, <1>5
  <1> DEFINE n == first + i - 1
             u == Round(T[i - 1], s0, start, w, n)
  <1>7. n \in Logical(f) /\ first <= n /\ first + (i - 1) - 1 = n - 1
    BY <1>1, <1>5
  <1>8. Loop(s0, T[i - 1], f, start, w, first, n - 1)
    BY <1>6, <1>7 DEF Good
  <1>9. u \in Results => T[i] = u
    BY <1>5 DEF Rounds
  <1> HIDE DEF n
  <1>10. u \in Results /\ Loop(s0, u, f, start, w, first, n)
    BY <1>7, <1>8, LoopGoesOn
  <1>11. T[i] = u
    BY <1>9, <1>10
  <1> HIDE DEF u
  <1>12. Good(i)
    BY <1>10, <1>11 DEF Good, n
  <1> QED
    BY <1>4, <1>12

\* Between the inode numbers first - 1 and last, the recursive function of WriteFileAt.
IsLoop(W, s0, w, start, first, last) ==
    W = [n \in first - 1 .. last |->
            IF n < first THEN s0
            ELSE Round(W[n - 1], s0, start, w, n)]

LEMMA LoopRounds ==
    ASSUME NEW f \in Files, NEW s0, NEW w, NEW start \in Nat, NEW last \in Nat, start \div BlockWords <= last,
           NEW W, IsLoop(W, s0, w, start, start \div BlockWords, last)
    PROVE  LET k == last - start \div BlockWords + 1
           IN  Rounds([i \in 0 .. k |-> W[start \div BlockWords + i - 1]], s0, f, w, start, k)
  <1> DEFINE first == start \div BlockWords
             k == last - first + 1
             T == [i \in 0 .. k |-> W[first + i - 1]]
  <1>1. first \in Nat /\ k \in Nat
    BY BlockOfWord
  <1> HIDE DEF first
  <1>2. W[first - 1] = s0
    BY <1>1 DEF IsLoop, first
  <1>3. T[0] = s0
    BY <1>1, <1>2
  <1>4. ASSUME NEW i \in 1 .. k
        PROVE  T[i] = Round(T[i - 1], s0, start, w, first + i - 1)
    <2> DEFINE n == first + i - 1
    <2>1. n \in first - 1 .. last /\ ~(n < first) /\ n - 1 = first + (i - 1) - 1
      BY <1>1
    <2>2. T[i] = W[n] /\ T[i - 1] = W[n - 1]
      BY <1>1, <2>1
    <2> HIDE DEF n, T
    <2>3. W[n] = Round(W[n - 1], s0, start, w, n)
      BY <2>1 DEF IsLoop, first
    <2> QED
      BY <2>2, <2>3 DEF n
  <1> HIDE DEF T
  <1>5. Rounds(T, s0, f, w, start, k)
    BY <1>3, <1>4 DEF Rounds, first
  <1> QED
    BY <1>5 DEF T, first

LEMMA LoopExists ==
    ASSUME NoSplit, NEW f \in Files, NEW s0, Stands(s0, f), NEW w \in Seq(Words), NEW start \in Nat,
           NEW last \in Nat, start \div BlockWords <= last,
           \A n \in start \div BlockWords .. last : n \in Logical(f)
    PROVE  \E W : IsLoop(W, s0, w, start, start \div BlockWords, last)
  <1> DEFINE first == start \div BlockWords
             k == last - first + 1
             h == [x \in (1 .. k) \X Results |->
                      IF Round(x[2], s0, start, w, first + x[1] - 1) \in Results
                      THEN Round(x[2], s0, start, w, first + x[1] - 1) ELSE s0]
  <1>1. first \in Nat /\ k \in Nat /\ first <= last
    BY BlockOfWord
  <1>2. \A i \in 1 .. k : first + i - 1 \in Logical(f)
    <2> HIDE DEF first
    <2>1. \A i \in 1 .. k : first + i - 1 \in first .. last
      BY <1>1
    <2> QED
      BY <2>1 DEF first
  <1> HIDE DEF first, k
  <1>3. s0 \in Results
    BY DEF Stands
  <1>4. IsStep(h, k, Results)
    <2>1. \A x \in (1 .. k) \X Results : h[x] \in Results
      BY <1>3
    <2> HIDE DEF h
    <2>2. h = [x \in (1 .. k) \X Results |-> h[x]]
      BY DEF h
    <2>3. h \in [(1 .. k) \X Results -> Results]
      BY <2>1, <2>2
    <2> QED
      BY <2>3 DEF IsStep
  <1>5. PICK T : Recursion(T, k, Results, s0, h)
    <2> HIDE DEF h
    <2> QED
      BY <1>1, <1>3, <1>4, RecursionExists
  <1>6. T \in [0 .. k -> Results] /\ T[0] = s0 /\ \A i \in 1 .. k : T[i] = h[<<i, T[i - 1]>>]
    BY <1>5 DEF Recursion
  <1>7. \A i \in 1 .. k : i - 1 \in 0 .. k /\ <<i, T[i - 1]>> \in (1 .. k) \X Results
    BY <1>1, <1>6
  <1>8. \A i \in 1 .. k : Round(T[i - 1], s0, start, w, first + i - 1) \in Results =>
                             T[i] = Round(T[i - 1], s0, start, w, first + i - 1)
    <2> SUFFICES ASSUME NEW i \in 1 .. k, Round(T[i - 1], s0, start, w, first + i - 1) \in Results
                 PROVE  T[i] = Round(T[i - 1], s0, start, w, first + i - 1)
      OBVIOUS
    <2> DEFINE x == <<i, T[i - 1]>>
    <2>1. x[1] = i /\ x[2] = T[i - 1] /\ x \in (1 .. k) \X Results
      BY <1>7
    <2> HIDE DEF x
    <2>2. h[x] = Round(T[i - 1], s0, start, w, first + i - 1)
      BY <2>1
    <2> QED
      BY <1>6, <2>2 DEF x
  <1>9. Rounds(T, s0, f, w, start, k)
    BY <1>6, <1>8 DEF Rounds, first
  <1>10. \A i \in 0 .. k : Loop(s0, T[i], f, start, w, first, first + i - 1)
    BY <1>1, <1>2, <1>9, RoundsHold DEF first
  <1>11. \A i \in 1 .. k : T[i] = Round(T[i - 1], s0, start, w, first + i - 1)
    <2> TAKE i \in 1 .. k
    <2> DEFINE n == first + i - 1
    <2>1. n \in Logical(f) /\ first <= n /\ first + (i - 1) - 1 = n - 1
      <3> HIDE DEF h
      <3>1. i \in Nat /\ i >= 1 /\ first + i - 1 \in Logical(f)
        BY <1>1, <1>2
      <3> QED
        BY <1>1, <3>1
    <2>2. Loop(s0, T[i - 1], f, start, w, first, n - 1)
      BY <1>7, <1>10, <2>1
    <2> HIDE DEF n
    <2>3. Round(T[i - 1], s0, start, w, n) \in Results
      BY <2>1, <2>2, LoopGoesOn DEF first
    <2> QED
      BY <1>8, <2>3 DEF n
  <1> DEFINE W == [n \in first - 1 .. last |-> T[n - first + 1]]
  <1>12. IsLoop(W, s0, w, start, first, last)
    <2> DEFINE V(n) == IF n < first THEN s0 ELSE Round(W[n - 1], s0, start, w, n)
    <2>1. \A n \in first - 1 .. last : W[n] = V(n)
      <3> TAKE n \in first - 1 .. last
      <3>1. CASE n < first
        <4>1. n - first + 1 = 0
          BY <1>1, <3>1
        <4> QED
          BY <1>6, <3>1, <4>1
      <3>2. CASE ~(n < first)
        <4> DEFINE i == n - first + 1
        <4>1. i \in 1 .. k /\ n = first + i - 1 /\ (n - 1) - first + 1 = i - 1 /\ n - 1 \in first - 1 .. last
          BY <1>1, <3>2 DEF k
        <4>2. W[n] = T[i] /\ W[n - 1] = T[i - 1]
          BY <4>1
        <4> HIDE DEF i, W
        <4>3. T[i] = Round(T[i - 1], s0, start, w, first + i - 1)
          BY <1>11, <4>1
        <4> QED
          BY <3>2, <4>1, <4>2, <4>3
      <3> QED
        BY <3>1, <3>2
    <2>2. W = [n \in first - 1 .. last |-> W[n]]
      OBVIOUS
    <2> HIDE DEF W, V
    <2>3. W = [n \in first - 1 .. last |-> V(n)]
      BY <2>1, <2>2
    <2> QED
      BY <2>3 DEF V, IsLoop
  <1> QED
    BY <1>12 DEF first

\* r is s0 after the words from start to end, in the blocks first .. last, were written to f.
Written(s0, r, f, first, last, end) ==
    /\ r \in Results /\ r.status = "ok"
    /\ Sound(Inodes1(r, f), r.dev.block, r.dev.used) /\ Counted(r.mem.root)
    /\ r.dev.inode = s0.dev.inode
    /\ r.mem.size = IF end > s0.mem.size THEN end ELSE s0.mem.size
    /\ \A m \in first .. last : \E x : Holds(Entries(r), x, m)
    /\ \A x, m : Holds(Entries(r), x, m) => Holds(Entries(s0), x, m) \/ m \in first .. last
    /\ Extends(Entries(s0), Entries(r))
    /\ s0.dev.used \subseteq r.dev.used
    /\ OthersKept(s0, r, f) /\ UseExplained(s0, r)

LEMMA Sized ==
    ASSUME NEW f \in Files, NEW s0 \in Results, NEW s, NEW first, NEW last, Running(s0, s, f, first, last),
           NEW end \in Nat, NEW r, r = [s EXCEPT !.mem.size = IF end > @ THEN end ELSE @]
    PROVE  Written(s0, r, f, first, last, end)
  <1>1. s \in Results /\ s.mem \in Inodes /\ s.mem.size = s0.mem.size /\ s0.mem.size \in Nat /\ s.status = "ok"
    BY ResultFields DEF Running, Stands
  <1> DEFINE size == IF end > s0.mem.size THEN end ELSE s0.mem.size
             m == [s.mem EXCEPT !.size = size]
  <1>2. size \in Nat
    BY <1>1
  <1>3. r = [s EXCEPT !.mem = m]
    BY <1>1
  <1> HIDE DEF size
  <1>4. m \in Inodes /\ m.size = size /\ m.root = s.mem.root
    BY <1>1, <1>2 DEF Inodes
  <1> HIDE DEF m
  <1>5. r \in Results /\ r.status = "ok" /\ r.mem = m /\ r.dev = s.dev
    BY <1>1, <1>3, <1>4 DEF Results
  <1>6. \A g \in Files : Inodes1(r, f)[g].root = Inodes1(s, f)[g].root
    <2> TAKE g \in Files
    <2>1. CASE g = f
      BY <1>1, <1>4, <1>5, <2>1, InodesWith
    <2>2. CASE g # f
      <3>1. Inodes1(s, f)[g] = s.dev.inode[g]
        BY <1>1, <2>2, InodesWith
      <3>2. Inodes1(r, f)[g] = r.dev.inode[g]
        BY <1>5, <2>2, InodesWith
      <3> QED
        BY <1>5, <3>1, <3>2
    <2> QED
      BY <2>1, <2>2
  <1>7. Sound(Inodes1(r, f), r.dev.block, r.dev.used)
    <2> DEFINE I == Inodes1(s, f)
               J == Inodes1(r, f)
    <2>1. Sound(I, s.dev.block, s.dev.used)
      BY DEF Running, Stands
    <2>2. \A g \in Files : J[g].root = I[g].root
      BY <1>6
    <2> HIDE DEF I, J
    <2>3. Sound(J, s.dev.block, s.dev.used)
      BY <2>1, <2>2 DEF Sound, TreesOK, InUse, Apart
    <2> QED
      BY <1>5, <2>3 DEF J
  <1>8. Entries(r) = Entries(s) /\ Counted(r.mem.root)
    BY <1>4, <1>5 DEF Entries, Running, Stands
  <1>9. OthersKept(s0, r, f) /\ UseExplained(s0, r)
    BY <1>5, <1>8 DEF Running, OthersKept, UseExplained
  <1> QED
    BY <1>4, <1>5, <1>7, <1>8, <1>9 DEF Running, Written, size

\* A write of n > 0 words fails, panics in its first block or writes all of them.
LEMMA WritesFile ==
    ASSUME NoSplit, NEW f \in Files, NEW s0, Stands(s0, f), NEW w \in Seq(Words), w # <<>>,
           NEW start \in Nat, start + Len(w) <= MaxSize[f]
    PROVE  LET r == WriteFileAt(s0, start, w)
               first == start \div BlockWords
               last == (start + Len(w) - 1) \div BlockWords
           IN  \/ Failed(r)
               \/ start > first * BlockWords /\ Panicked(s0, r, f, Entries(s0), first)
               \/ Written(s0, r, f, first, last, start + Len(w)) /\ Laid(s0, r, f, start, w, first, last)
  <1> DEFINE r == WriteFileAt(s0, start, w)
             first == start \div BlockWords
             last == (start + Len(w) - 1) \div BlockWords
             end == start + Len(w)
             x == ReadExtents(s0.dev, s0.mem)
             LoopFun == CHOOSE W : IsLoop(W, s0, w, start, first, last)
  <1>1. s0 \in Results /\ x.ok /\ x.list = Entries(s0)
    <2>1. s0 \in Results /\ Counted(s0.mem.root) /\ Inodes1(s0, f)[f] = s0.mem
      BY InodesWith DEF Stands
    <2>2. Tree(s0.mem.root, s0.dev.block)
      BY <2>1 DEF Stands, Sound, TreesOK
    <2>3. s0.mem.root \in Roots /\ s0.dev.block \in [Blocks -> DeviceBlocks]
      BY <2>1, ResultFields
    <2>4. x.list = Entries(s0) /\ (x.ok <=> Counted(s0.mem.root))
      <3> HIDE DEF x
      <3> QED
        BY <2>2, <2>3, ReadExtentsIs DEF Entries, x
    <2> QED
      BY <2>1, <2>4, Zenon
  <1>2. Len(w) \in Nat \ {0} /\ end \in Nat /\ end - 1 \in Nat /\ MaxSize[f] \in Nat /\ start <= end - 1
    BY BoundsAssumption
  <1>3. first \in Nat /\ last \in Nat /\ first <= last
    <2>1. first \in Nat /\ last \in Nat
      <3> DEFINE y == end - 1
      <3>1. y \in Nat
        BY <1>2
      <3> HIDE DEF y
      <3>2. y \div BlockWords \in Nat /\ first \in Nat
        BY <3>1, BlockOfWord
      <3> QED
        BY <3>2 DEF y
    <2>2. first * BlockWords <= start
      <3>1. first <= start \div BlockWords
        BY <2>1
      <3> QED
        BY <2>1, <3>1, BlockOfWord
    <2>3. first * BlockWords <= end - 1
      BY <1>2, <2>1, <2>2, SizesAssumption
    <2> HIDE DEF first
    <2>4. first <= last
      BY <1>2, <2>1, <2>3, BlockOfWord
    <2> QED
      BY <2>1, <2>4
  <1>4. \A n \in first .. last : n \in Logical(f)
    <2> SUFFICES ASSUME NEW n \in first .. last PROVE n \in Logical(f)
      OBVIOUS
    <2>1. n \in Nat /\ n <= last
      BY <1>3
    <2> HIDE DEF first
    <2>2. n * BlockWords <= end - 1
      BY <1>2, <2>1, BlockOfWord
    <2>3. n * BlockWords \in Nat /\ n <= n * BlockWords
      <3> DEFINE k == BlockWords
      <3>1. k \in Nat \ {0} /\ 1 <= k
        BY SizesAssumption
      <3> HIDE DEF k
      <3>2. n * k \in Nat /\ n * 1 <= n * k
        BY <2>1, <3>1
      <3> QED
        BY <2>1, <3>2 DEF k
    <2>4. n * BlockWords < MaxSize[f]
      <3> DEFINE y == n * BlockWords
      <3>1. y \in Nat /\ y <= end - 1
        BY <2>2, <2>3
      <3> HIDE DEF y
      <3> QED
        BY <1>2, <3>1 DEF y
    <2>5. n <= MaxSize[f]
      <3> DEFINE y == n * BlockWords
      <3>1. y \in Nat /\ n <= y /\ y < MaxSize[f]
        BY <2>3, <2>4
      <3> HIDE DEF y
      <3> QED
        BY <1>2, <2>1, <3>1
    <2> QED
      BY <1>2, <2>1, <2>4, <2>5 DEF Logical
  <1>5. r = Then(LoopFun[last], LAMBDA u : [u EXCEPT !.mem.size = IF end > @ THEN end ELSE @])
    <2> DEFINE Run(l) == LET W[n \in first - 1 .. last] ==
                                 IF n < first THEN s0
                                 ELSE Then(W[n - 1], LAMBDA u : WriteBlock(u, l, start, w, n))
                         IN  Then(W[last], LAMBDA u : [u EXCEPT !.mem.size = IF end > @ THEN end ELSE @])
    <2>1. r = IF w = <<>> THEN s0 ELSE IF ~x.ok THEN Error(s0) ELSE Run(x.list)
      BY Zenon DEF WriteFileAt
    <2>2. r = Run(Entries(s0))
      <3> HIDE DEF r, x, first, last, end, Run
      <3> QED
        BY <1>1, <2>1, Zenon
    <2> HIDE DEF r, x, first, last, end
    <2> QED
      BY <2>2, Zenon DEF IsLoop, Round
  <1> HIDE DEF r, x, first, last
  <1>6. IsLoop(LoopFun, s0, w, start, first, last)
    <2>1. \E W : IsLoop(W, s0, w, start, first, last)
      BY <1>3, <1>4, LoopExists DEF first
    <2> QED
      BY <2>1, Zenon
  <1> HIDE DEF LoopFun
  <1> DEFINE k == last - first + 1
             T == [i \in 0 .. k |-> LoopFun[first + i - 1]]
  <1>7. Rounds(T, s0, f, w, start, k)
    BY <1>3, <1>6, LoopRounds DEF first
  <1>8. k \in Nat /\ k \in 0 .. k /\ first + k - 1 = last
    BY <1>3
  <1>9. \A i \in 1 .. k : first + i - 1 \in Logical(f)
    <2>1. \A i \in 1 .. k : first + i - 1 \in first .. last
      BY <1>3
    <2> QED
      BY <1>4, <2>1
  <1>10. T[k] = LoopFun[last]
    BY <1>8
  <1> HIDE DEF k, T
  <1>11. Loop(s0, LoopFun[last], f, start, w, first, last)
    <2>1. \A i \in 0 .. k : Loop(s0, T[i], f, start, w, first, first + i - 1)
      BY <1>7, <1>8, <1>9, RoundsHold DEF first
    <2>2. Loop(s0, T[k], f, start, w, first, first + k - 1)
      BY <1>8, <2>1
    <2> QED
      BY <1>8, <1>10, <2>2
  <1> DEFINE s == LoopFun[last]
  <1> HIDE DEF s
  <1>12. r = Then(s, LAMBDA u : [u EXCEPT !.mem.size = IF end > @ THEN end ELSE @])
         /\ Loop(s0, s, f, start, w, first, last)
    BY <1>5, <1>11 DEF s
  <1>13. CASE Failed(s)
    <2>1. r = s
      BY <1>12, <1>13 DEF Then, Failed
    <2> QED
      BY <1>13, <2>1 DEF r
  <1>14. CASE start > first * BlockWords /\ Panicked(s0, s, f, Entries(s0), first)
    <2>1. r = s
      BY <1>12, <1>14 DEF Then, Panicked
    <2> QED
      BY <1>14, <2>1 DEF r, first
  <1>15. CASE Running(s0, s, f, first, last) /\ Laid(s0, s, f, start, w, first, last)
    <2>1. s.status = "ok"
      BY <1>15 DEF Running, Stands
    <2>2. r = [s EXCEPT !.mem.size = IF end > @ THEN end ELSE @]
      BY <1>12, <2>1 DEF Then
    <2>3. Written(s0, r, f, first, last, end)
      BY <1>1, <1>2, <1>15, <2>2, Sized
    <2>4. Laid(s0, r, f, start, w, first, last)
      <3>1. s \in Results /\ s.mem \in Inodes
        BY <1>15, ResultFields DEF Running, Stands
      <3>2. r.dev = s.dev /\ r.mem.root = s.mem.root
        BY <2>2, <3>1 DEF Results, Inodes
      <3>3. Entries(r) = Entries(s)
        BY <3>2 DEF Entries
      <3> QED
        BY <1>15, <3>2, <3>3 DEF Laid, NewWords, OldWords, OthersWords, WordOf
    <2> QED
      BY <2>3, <2>4 DEF r, first, last
  <1> QED
    BY <1>12, <1>13, <1>14, <1>15 DEF Loop

-----------------------------------------------------------------------------
(* Truncate *)

LEMMA CutIs ==
    ASSUME NEW e \in Extents, NEW last \in Int, e.block <= last
    PROVE  LET c == Cut(e, last)
           IN  /\ c \in Extents /\ c.block = e.block /\ c.start = e.start
               /\ c.len \in Nat \ {0} /\ c.len <= e.len /\ c.block + c.len - 1 <= last
               /\ c.len = e.len \/ c.block + c.len - 1 = last
  <1> DEFINE len == IF e.block + e.len - 1 <= last THEN e.len ELSE last - e.block + 1
             c == Cut(e, last)
  <1>1. e.block \in Offsets /\ e.len \in 1 .. MaxLen /\ e.start \in Blocks /\ e.block \in Nat /\ e.len \in Nat
    BY ExtentsTyped
  <1>2. len \in 1 .. MaxLen /\ len <= e.len /\ e.block + len - 1 <= last
        /\ (len = e.len \/ e.block + len - 1 = last)
    BY <1>1, SizesAssumption
  <1>3. c = [e EXCEPT !.len = len]
    BY DEF Cut
  <1> HIDE DEF len
  <1>4. c = [block |-> e.block, len |-> len, start |-> e.start]
    BY <1>3 DEF Extents
  <1> HIDE DEF c
  <1>5. c \in Extents /\ c.block = e.block /\ c.start = e.start /\ c.len = len
    BY <1>1, <1>2, <1>4 DEF Extents
  <1> QED
    BY <1>2, <1>5, SizesAssumption DEF c

\* K is what is kept of the first k extents of l: each up to logical block last.
KeptOf(K, l, last, k) ==
    /\ K \in Seq(Extents)
    /\ \A x \in DOMAIN K : \E j \in 1 .. k : l[j].block <= last /\ K[x] = Cut(l[j], last)
    /\ \A j \in 1 .. k : l[j].block <= last => \E x \in DOMAIN K : K[x] = Cut(l[j], last)
    /\ \A x, y \in DOMAIN K : K[x].block = K[y].block => x = y
    /\ Ascending(l) => Ascending(K)

LEMMA OrderlyBlocks ==
    ASSUME NEW f, NEW l, Orderly(l, f)
    PROVE  /\ l \in Seq(Extents) /\ Len(l) \in Nat /\ DOMAIN l = 1 .. Len(l)
           /\ \A j \in 1 .. Len(l) : l[j] \in Extents /\ Holds(l, j, l[j].block)
           /\ \A i, j \in 1 .. Len(l) : l[i].block = l[j].block => i = j
  <1>1. l \in Seq(Extents) /\ Len(l) \in Nat /\ DOMAIN l = 1 .. Len(l)
    BY DEF Orderly
  <1>2. \A j \in 1 .. Len(l) : l[j] \in Extents
    BY <1>1
  <1>3. \A j \in 1 .. Len(l) : Holds(l, j, l[j].block)
    BY <1>1, <1>2, ExtentsTyped DEF Holds
  <1>4. \A i, j \in 1 .. Len(l) : l[i].block = l[j].block => i = j
    BY <1>3 DEF Orderly
  <1> QED
    BY <1>1, <1>2, <1>3, <1>4

LEMMA KeptSkips ==
    ASSUME NEW f, NEW l, Orderly(l, f), NEW last \in Int, NEW k \in 1 .. Len(l), NEW K,
           KeptOf(K, l, last, k - 1), l[k].block > last
    PROVE  KeptOf(K, l, last, k)
  <1>1. k \in Nat /\ l[k] \in Extents /\ l[k].block \in Nat
    BY OrderlyBlocks, ExtentsTyped
  <1>2. \A j \in 1 .. k : j \in 1 .. k - 1 \/ j = k
    BY <1>1
  <1>3. \A j \in 1 .. k - 1 : j \in 1 .. k
    BY <1>1
  <1>4. ~(l[k].block <= last)
    BY <1>1
  <1> QED
    BY <1>2, <1>3, <1>4 DEF KeptOf

LEMMA KeptAdds ==
    ASSUME NEW f, NEW l, Orderly(l, f), NEW last \in Int, NEW k \in 1 .. Len(l), NEW K,
           KeptOf(K, l, last, k - 1), l[k].block <= last
    PROVE  KeptOf(Append(K, Cut(l[k], last)), l, last, k)
  <1> DEFINE c == Cut(l[k], last)
             K2 == Append(K, c)
  <1>1. k \in Nat /\ l[k] \in Extents /\ c \in Extents /\ c.block = l[k].block
    BY OrderlyBlocks, CutIs
  <1> HIDE DEF c
  <1>2. K \in Seq(Extents)
    BY DEF KeptOf
  <1>3. K2 \in Seq(Extents) /\ DOMAIN K = 1 .. Len(K) /\ DOMAIN K2 = 1 .. Len(K) + 1 /\ K2[Len(K) + 1] = c
        /\ Len(K) \in Nat /\ \A x \in 1 .. Len(K) : K2[x] = K[x]
    BY <1>1, <1>2
  <1> HIDE DEF K2
  <1>4. \A x \in DOMAIN K2 : x \in DOMAIN K \/ x = Len(K) + 1
    BY <1>3
  <1>5. \A x \in DOMAIN K : K2[x] = K[x] /\ x \in DOMAIN K2
    BY <1>3
  <1>6. \A j \in 1 .. k : j \in 1 .. k - 1 \/ j = k
    BY <1>1
  <1>7. \A j \in 1 .. k - 1 : j \in 1 .. k /\ j # k /\ j \in 1 .. Len(l)
    BY <1>1, OrderlyBlocks
  <1>8. \A x \in DOMAIN K2 : \E j \in 1 .. k : l[j].block <= last /\ K2[x] = Cut(l[j], last)
    <2> TAKE x \in DOMAIN K2
    <2>1. CASE x \in DOMAIN K
      BY <1>5, <1>7, <2>1 DEF KeptOf
    <2>2. CASE x = Len(K) + 1
      <3>1. k \in 1 .. k
        BY <1>1
      <3> QED
        BY <1>3, <2>2, <3>1 DEF c
    <2> QED
      BY <1>4, <2>1, <2>2
  <1>9. \A j \in 1 .. k : l[j].block <= last => \E x \in DOMAIN K2 : K2[x] = Cut(l[j], last)
    <2> TAKE j \in 1 .. k
    <2> HAVE l[j].block <= last
    <2>1. CASE j \in 1 .. k - 1
      BY <1>5, <2>1 DEF KeptOf
    <2>2. CASE j = k
      <3>1. Len(K) + 1 \in DOMAIN K2
        BY <1>3
      <3> QED
        BY <1>3, <2>2, <3>1 DEF c
    <2> QED
      BY <1>6, <2>1, <2>2
  <1>10. \A x \in DOMAIN K : K[x].block # c.block
    <2> TAKE x \in DOMAIN K
    <2>1. PICK j \in 1 .. k - 1 : l[j].block <= last /\ K[x] = Cut(l[j], last)
      BY DEF KeptOf
    <2>2. K[x].block = l[j].block
      BY <1>7, <2>1, OrderlyBlocks, CutIs
    <2> QED
      BY <1>1, <1>7, <2>2, OrderlyBlocks
  <1>11. \A x, y \in DOMAIN K2 : K2[x].block = K2[y].block => x = y
    BY <1>3, <1>4, <1>5, <1>10 DEF KeptOf
  <1>12. Ascending(l) => Ascending(K2)
    <2> SUFFICES ASSUME Ascending(l), NEW x \in DOMAIN K2, NEW y \in DOMAIN K2, x < y
                 PROVE  K2[x].block < K2[y].block
      BY DEF Ascending
    <2>1. x \in DOMAIN K
      BY <1>3
    <2>2. CASE y \in DOMAIN K
      <3>1. K[x].block < K[y].block
        BY <2>1, <2>2 DEF KeptOf, Ascending
      <3> QED
        BY <1>5, <2>1, <2>2, <3>1
    <2>3. CASE y = Len(K) + 1
      <3>1. PICK j \in 1 .. k - 1 : l[j].block <= last /\ K[x] = Cut(l[j], last)
        BY <2>1 DEF KeptOf
      <3>2. K[x].block = l[j].block
        BY <1>7, <3>1, OrderlyBlocks, CutIs
      <3>3. l[j].block < l[k].block
        <4>1. j \in DOMAIN l /\ k \in DOMAIN l /\ j < k
          BY <1>1, <1>7, OrderlyBlocks
        <4> QED
          BY <4>1 DEF Ascending
      <3> QED
        BY <1>1, <1>3, <1>5, <2>1, <2>3, <3>2, <3>3
    <2> QED
      BY <1>4, <2>2, <2>3
  <1>13. KeptOf(K2, l, last, k)
    BY <1>3, <1>8, <1>9, <1>11, <1>12 DEF KeptOf
  <1> QED
    BY <1>13 DEF K2, c

\* The recursive function of Kept, up to k.
IsKept(K, l, last) ==
    K = [i \in 0 .. Len(l) |->
            IF i = 0 THEN <<>>
            ELSE IF l[i].block > last THEN K[i - 1] ELSE Append(K[i - 1], Cut(l[i], last))]

LEMMA KeptExists ==
    ASSUME NEW f, NEW l, Orderly(l, f), NEW last \in Int
    PROVE  \E K : IsKept(K, l, last)
  <1> DEFINE n == Len(l)
             S == Seq(Extents)
             V(i, a) == IF l[i].block > last THEN a ELSE Append(a, Cut(l[i], last))
             h == [x \in (1 .. n) \X S |-> V(x[1], x[2])]
  <1>1. n \in Nat /\ <<>> \in S
    BY OrderlyBlocks
  <1>2. IsStep(h, n, S)
    <2>1. \A x \in (1 .. n) \X S : V(x[1], x[2]) \in S
      <3> SUFFICES ASSUME NEW i \in 1 .. n, NEW a \in S PROVE V(i, a) \in S
        OBVIOUS
      <3>1. CASE l[i].block > last
        BY <3>1
      <3>2. CASE ~(l[i].block > last)
        <4>1. l[i] \in Extents /\ l[i].block \in Nat
          BY OrderlyBlocks, ExtentsTyped
        <4>2. Cut(l[i], last) \in Extents
          BY <3>2, <4>1, CutIs
        <4> QED
          BY <3>2, <4>2
      <3> QED
        BY <3>1, <3>2
    <2> HIDE DEF V, S, n
    <2> QED
      BY <2>1 DEF IsStep
  <1> HIDE DEF h
  <1>3. PICK T : Recursion(T, n, S, <<>>, h)
    <2> HIDE DEF n, S
    <2> QED
      BY <1>1, <1>2, RecursionExists
  <1>4. T \in [0 .. n -> S] /\ T[0] = <<>> /\ \A i \in 1 .. n : T[i] = h[<<i, T[i - 1]>>]
    BY <1>3 DEF Recursion
  <1>5. \A i \in 1 .. n : T[i] = V(i, T[i - 1])
    <2> TAKE i \in 1 .. n
    <2> DEFINE x == <<i, T[i - 1]>>
    <2>1. i - 1 \in 0 .. n
      BY <1>1
    <2> HIDE DEF n, S
    <2>2. x \in (1 .. n) \X S /\ x[1] = i /\ x[2] = T[i - 1]
      BY <1>4, <2>1
    <2> HIDE DEF x, V
    <2>3. h[x] = V(i, T[i - 1])
      BY <2>2 DEF h
    <2> QED
      BY <1>4, <2>3 DEF x
  <1>6. T = [i \in 0 .. n |-> IF i = 0 THEN <<>> ELSE V(i, T[i - 1])]
    <2>1. \A i \in 0 .. n : i = 0 \/ i \in 1 .. n
      BY <1>1
    <2> HIDE DEF V, S, n
    <2> QED
      BY <1>4, <1>5, <2>1
  <1> QED
    BY <1>6, Zenon DEF IsKept

LEMMA KeptIs ==
    ASSUME NEW f, NEW l, Orderly(l, f), NEW last \in Int
    PROVE  KeptOf(Kept(l, last), l, last, Len(l))
  <1> DEFINE K == CHOOSE K : IsKept(K, l, last)
             n == Len(l)
             Bad == {i \in 0 .. n : ~KeptOf(K[i], l, last, i)}
  <1>1. Kept(l, last) = K[n]
    BY Zenon DEF Kept, IsKept
  <1>2. IsKept(K, l, last)
    <2>1. \E k : IsKept(k, l, last)
      BY KeptExists
    <2> QED
      BY <2>1, Zenon
  <1> HIDE DEF K
  <1>3. n \in Nat
    BY OrderlyBlocks
  <1>4. K[0] = <<>> /\ \A i \in 1 .. n : K[i] = IF l[i].block > last THEN K[i - 1] ELSE Append(K[i - 1], Cut(l[i], last))
    <2>1. \A i \in 0 .. n : K[i] = IF i = 0 THEN <<>>
                                  ELSE IF l[i].block > last THEN K[i - 1] ELSE Append(K[i - 1], Cut(l[i], last))
      BY <1>2, Zenon DEF IsKept
    <2>2. 0 \in 0 .. n /\ \A i \in 1 .. n : i \in 0 .. n /\ i # 0
      BY <1>3
    <2> HIDE DEF n
    <2> QED
      BY <2>1, <2>2, Zenon
  <1>5. KeptOf(K[0], l, last, 0)
    <2>1. <<>> \in Seq(Extents) /\ DOMAIN <<>> = {} /\ 1 .. 0 = {}
      OBVIOUS
    <2> QED
      BY <1>4, <2>1 DEF KeptOf, Ascending
  <1>6. Bad = {}
    <2>1. SUFFICES ASSUME Bad # {} PROVE FALSE
      OBVIOUS
    <2>2. Bad \in SUBSET Nat
      OBVIOUS
    <2> HIDE DEF Bad
    <2>3. PICK i \in Bad : \A j \in Bad : i <= j
      BY <2>1, <2>2, SmallestExists
    <2>4. i \in 0 .. n /\ ~KeptOf(K[i], l, last, i)
      BY <2>3 DEF Bad
    <2>5. i \in 1 .. n /\ i - 1 \in 0 .. n /\ i - 1 \notin Bad
      BY <1>3, <1>5, <2>3, <2>4
    <2>6. KeptOf(K[i - 1], l, last, i - 1)
      BY <2>5 DEF Bad
    <2>7. l[i].block \in Nat
      BY <2>5, OrderlyBlocks, ExtentsTyped
    <2>8. CASE l[i].block > last
      <3>1. KeptOf(K[i - 1], l, last, i)
        BY <2>5, <2>6, <2>8, KeptSkips
      <3> QED
        BY <1>4, <2>4, <2>5, <2>8, <3>1
    <2>9. CASE ~(l[i].block > last)
      <3>1. l[i].block <= last
        BY <2>7, <2>9
      <3>2. KeptOf(Append(K[i - 1], Cut(l[i], last)), l, last, i)
        BY <2>5, <2>6, <3>1, KeptAdds
      <3> QED
        BY <1>4, <2>4, <2>5, <2>9, <3>2
    <2> QED
      BY <2>8, <2>9
  <1>7. KeptOf(K[n], l, last, n)
    BY <1>3, <1>6
  <1> QED
    BY <1>1, <1>7

\* Root r has what is kept of list l, or the beginning of it.
Trimmed(r, l, last) ==
    /\ r \in Roots /\ r.depth = 0
    /\ r.entries \in Seq(Extents) /\ Len(r.entries) <= RootMax /\ Len(r.entries) <= r.count
    /\ \A x \in DOMAIN r.entries : \E j \in DOMAIN l : l[j].block <= last /\ r.entries[x] = Cut(l[j], last)
    /\ \A x, y \in DOMAIN r.entries : r.entries[x].block = r.entries[y].block => x = y
    /\ Counted(r) => \A j \in DOMAIN l : l[j].block <= last =>
                        \E x \in DOMAIN r.entries : r.entries[x] = Cut(l[j], last)
    /\ Ascending(l) => Ascending(r.entries)

LEMMA RootTrimmed ==
    ASSUME NEW f, NEW l, Orderly(l, f), NEW last \in Int
    PROVE  LET K == Kept(l, last)
               m == IF Len(K) < RootMax THEN Len(K) ELSE RootMax
           IN  Trimmed([depth |-> 0, count |-> Len(K), entries |-> SubSeq(K, 1, m)], l, last)
  <1> DEFINE K == Kept(l, last)
             m == IF Len(K) < RootMax THEN Len(K) ELSE RootMax
             p == SubSeq(K, 1, m)
             r == [depth |-> 0, count |-> Len(K), entries |-> p]
  <1>1. KeptOf(K, l, last, Len(l)) /\ DOMAIN l = 1 .. Len(l)
    BY KeptIs, OrderlyBlocks
  <1> HIDE DEF K
  <1>2. K \in Seq(Extents) /\ Len(K) \in Nat /\ DOMAIN K = 1 .. Len(K)
    BY <1>1 DEF KeptOf
  <1>3. m \in Nat /\ m <= Len(K) /\ m <= RootMax
    BY <1>2, NodesAssumption
  <1>4. p \in Seq(Extents) /\ Len(p) = m /\ DOMAIN p = 1 .. m /\ \A x \in 1 .. m : p[x] = K[x] /\ x \in DOMAIN K
    BY <1>2, <1>3
  <1> HIDE DEF p, m
  <1>5. r \in Roots /\ r.depth = 0 /\ r.entries = p /\ r.count = Len(K)
    BY <1>2, <1>4 DEF Roots
  <1> HIDE DEF r
  <1>6. Counted(r) => m = Len(K)
    BY <1>4, <1>5 DEF Counted
  <1>7. Counted(r) => \A x \in DOMAIN K : x \in DOMAIN p /\ p[x] = K[x]
    BY <1>2, <1>4, <1>6
  <1>8. \A x \in DOMAIN p : \E j \in DOMAIN l : l[j].block <= last /\ p[x] = Cut(l[j], last)
    <2>1. \A x \in DOMAIN K : \E j \in DOMAIN l : l[j].block <= last /\ K[x] = Cut(l[j], last)
      BY <1>1 DEF KeptOf
    <2> QED
      BY <1>4, <2>1
  <1>9. \A x, y \in DOMAIN p : p[x].block = p[y].block => x = y
    BY <1>1, <1>4 DEF KeptOf
  <1>10. Counted(r) => \A j \in DOMAIN l : l[j].block <= last => \E x \in DOMAIN p : p[x] = Cut(l[j], last)
    BY <1>1, <1>7 DEF KeptOf
  <1>11. Ascending(l) => Ascending(p)
    BY <1>1, <1>4 DEF KeptOf, Ascending
  <1>12. Trimmed(r, l, last)
    BY <1>3, <1>4, <1>5, <1>8, <1>9, <1>10, <1>11 DEF Trimmed
  <1> QED
    BY <1>12 DEF r, p, m, K

\* Block b in entry j of l belongs to logical block last or one before it.
Before(l, j, b, last) == l[j].block + (b - l[j].start) <= last

\* What is mapped by a cut extent.
LEMMA CutHolds ==
    ASSUME NEW e \in Extents, NEW last \in Int, e.block <= last
    PROVE  LET c == Cut(e, last)
           IN  /\ \A n : n \in c.block .. c.block + c.len - 1 <=>
                         n \in e.block .. e.block + e.len - 1 /\ n <= last
               /\ \A b : b \in c.start .. c.start + c.len - 1 <=>
                         b \in e.start .. e.start + e.len - 1 /\ e.block + (b - e.start) <= last
  <1> DEFINE c == Cut(e, last)
  <1>1. c.block = e.block /\ c.start = e.start /\ c.len \in Nat \ {0} /\ c.len <= e.len
        /\ e.block + c.len - 1 <= last /\ (c.len = e.len \/ e.block + c.len - 1 = last)
    BY CutIs
  <1>2. e.block \in Nat /\ e.len \in Nat /\ e.start \in Nat
    BY ExtentsTyped
  <1> HIDE DEF c
  <1>3. \A n : n \in c.block .. c.block + c.len - 1 <=> n \in e.block .. e.block + e.len - 1 /\ n <= last
    BY <1>1, <1>2
  <1>4. \A b : b \in c.start .. c.start + c.len - 1 <=>
               b \in e.start .. e.start + e.len - 1 /\ e.block + (b - e.start) <= last
    BY <1>1, <1>2
  <1> QED
    BY <1>3, <1>4 DEF c

LEMMA TrimmedHas ==
    ASSUME NEW f, NEW l, Orderly(l, f), NEW last \in Int, NEW r, Trimmed(r, l, last)
    PROVE  /\ \A x, n : Holds(r.entries, x, n) => n <= last /\ \E j : Holds(l, j, n) /\ r.entries[x].block = l[j].block
           /\ \A x, b : Phys(r.entries, x, b) =>
                  \E j : Phys(l, j, b) /\ r.entries[x].block = l[j].block /\ Before(l, j, b, last)
           /\ Counted(r) => \A j, n : Holds(l, j, n) /\ n <= last => \E x : Holds(r.entries, x, n)
           /\ Counted(r) => \A j, b : Phys(l, j, b) /\ Before(l, j, b, last) => \E x : Phys(r.entries, x, b)
  <1> DEFINE p == r.entries
  <1>1. \A j \in DOMAIN l : l[j] \in Extents /\ l[j].block \in Nat /\ l[j].len \in Nat /\ l[j].start \in Nat
    BY OrderlyBlocks, ExtentsTyped
  <1>2. ASSUME NEW x \in DOMAIN p
        PROVE  \E j \in DOMAIN l : p[x] = Cut(l[j], last) /\ l[j].block <= last /\ p[x].block = l[j].block
    <2>1. PICK j \in DOMAIN l : l[j].block <= last /\ p[x] = Cut(l[j], last)
      BY DEF Trimmed
    <2>2. l[j] \in Extents
      BY <1>1
    <2>3. p[x].block = l[j].block
      BY <2>1, <2>2, CutIs
    <2> QED
      BY <2>1, <2>3
  <1>3. Counted(r) => \A j \in DOMAIN l : l[j].block <= last => \E x \in DOMAIN p : p[x] = Cut(l[j], last)
    BY DEF Trimmed
  <1> HIDE DEF p
  <1>4. ASSUME NEW x, NEW n, Holds(p, x, n)
        PROVE  n <= last /\ \E j : Holds(l, j, n) /\ p[x].block = l[j].block
    <2>1. x \in DOMAIN p /\ n \in p[x].block .. p[x].block + p[x].len - 1
      BY <1>4 DEF Holds
    <2>2. PICK j \in DOMAIN l : p[x] = Cut(l[j], last) /\ l[j].block <= last /\ p[x].block = l[j].block
      BY <1>2, <2>1
    <2>3. n \in l[j].block .. l[j].block + l[j].len - 1 /\ n <= last
      BY <1>1, <2>1, <2>2, CutHolds
    <2> QED
      BY <2>2, <2>3 DEF Holds
  <1>5. ASSUME NEW x, NEW b, Phys(p, x, b)
        PROVE  \E j : Phys(l, j, b) /\ p[x].block = l[j].block /\ Before(l, j, b, last)
    <2>1. x \in DOMAIN p /\ b \in p[x].start .. p[x].start + p[x].len - 1
      BY <1>5 DEF Phys
    <2>2. PICK j \in DOMAIN l : p[x] = Cut(l[j], last) /\ l[j].block <= last /\ p[x].block = l[j].block
      BY <1>2, <2>1
    <2>3. b \in l[j].start .. l[j].start + l[j].len - 1 /\ l[j].block + (b - l[j].start) <= last
      BY <1>1, <2>1, <2>2, CutHolds
    <2> QED
      BY <2>2, <2>3 DEF Phys, Before
  <1>6. ASSUME Counted(r), NEW j, NEW n, Holds(l, j, n), n <= last
        PROVE  \E x : Holds(p, x, n)
    <2>1. j \in DOMAIN l /\ n \in l[j].block .. l[j].block + l[j].len - 1
      BY <1>6 DEF Holds
    <2>2. l[j].block <= last
      BY <1>1, <1>6, <2>1
    <2>3. PICK x \in DOMAIN p : p[x] = Cut(l[j], last)
      BY <1>3, <1>6, <2>1, <2>2
    <2>4. n \in p[x].block .. p[x].block + p[x].len - 1
      BY <1>1, <1>6, <2>1, <2>2, <2>3, CutHolds
    <2> QED
      BY <2>3, <2>4 DEF Holds
  <1>7. ASSUME Counted(r), NEW j, NEW b, Phys(l, j, b), Before(l, j, b, last)
        PROVE  \E x : Phys(p, x, b)
    <2>1. j \in DOMAIN l /\ b \in l[j].start .. l[j].start + l[j].len - 1 /\ l[j].block + (b - l[j].start) <= last
      BY <1>7 DEF Phys, Before
    <2>2. l[j].block <= last
      BY <1>1, <2>1
    <2>3. PICK x \in DOMAIN p : p[x] = Cut(l[j], last)
      BY <1>3, <1>7, <2>1, <2>2
    <2>4. b \in p[x].start .. p[x].start + p[x].len - 1
      BY <1>1, <2>1, <2>2, <2>3, CutHolds
    <2> QED
      BY <2>3, <2>4 DEF Phys
  <1> QED
    BY <1>4, <1>5, <1>6, <1>7 DEF p

LEMMA TrimmedOrderly ==
    ASSUME NEW f, NEW l, Orderly(l, f), NEW last \in Int, NEW r, Trimmed(r, l, last)
    PROVE  Orderly(r.entries, f)
  <1> DEFINE p == r.entries
  <1>1. p \in Seq(Extents)
    BY DEF Trimmed
  <1>2. \A x, n : Holds(p, x, n) => \E j : Holds(l, j, n) /\ p[x].block = l[j].block
    BY TrimmedHas
  <1>3. \A x, y \in DOMAIN p : p[x].block = p[y].block => x = y
    BY DEF Trimmed
  <1> HIDE DEF p
  <1>4. \A x, n : Holds(p, x, n) => n \in Logical(f)
    BY <1>2 DEF Orderly
  <1>5. ASSUME NEW x, NEW y, NEW n, Holds(p, x, n), Holds(p, y, n)
        PROVE  x = y
    <2>1. PICK i : Holds(l, i, n) /\ p[x].block = l[i].block
      BY <1>2, <1>5
    <2>2. PICK j : Holds(l, j, n) /\ p[y].block = l[j].block
      BY <1>2, <1>5
    <2>3. i = j
      BY <2>1, <2>2 DEF Orderly
    <2>4. x \in DOMAIN p /\ y \in DOMAIN p
      BY <1>5 DEF Holds
    <2> QED
      BY <1>3, <2>1, <2>2, <2>3, <2>4
  <1>6. Orderly(p, f)
    BY <1>1, <1>4, <1>5 DEF Orderly
  <1> QED
    BY <1>6 DEF p

\* The places of an extent behind logical block last, by block number.
LEMMA PlacesBehind ==
    ASSUME NEW block \in Nat, NEW len \in Nat, NEW first \in Nat, NEW last \in Int, NEW b
    PROVE  (\E k \in 0 .. len - 1 : block + k > last /\ b = first + k) <=>
               b \in first .. first + len - 1 /\ ~(block + (b - first) <= last)
  <1>1. ASSUME NEW k \in 0 .. len - 1, block + k > last, b = first + k
        PROVE  b \in first .. first + len - 1 /\ ~(block + (b - first) <= last)
    <2>1. b \in Nat /\ b - first = k /\ k \in Nat /\ first <= b /\ b <= first + len - 1
      BY <1>1
    <2> QED
      BY <1>1, <2>1
  <1>2. ASSUME b \in first .. first + len - 1, ~(block + (b - first) <= last)
        PROVE  \E k \in 0 .. len - 1 : block + k > last /\ b = first + k
    <2> DEFINE k == b - first
    <2>1. b \in Int /\ k \in 0 .. len - 1 /\ b = first + k
      BY <1>2
    <2>2. block + k > last
      BY <1>2, <2>1
    <2> HIDE DEF k
    <2> QED
      BY <2>1, <2>2
  <1> QED
    BY <1>1, <1>2

\* Behind has the blocks of the list that are not Before.
LEMMA BehindIs ==
    ASSUME NEW l \in Seq(Extents), NEW last \in Int, NEW b
    PROVE  b \in Behind(l, last) <=> \E j : Phys(l, j, b) /\ ~Before(l, j, b, last)
  <1>1. \A j \in DOMAIN l : l[j] \in Extents /\ l[j].block \in Nat /\ l[j].len \in Nat /\ l[j].start \in Nat
    BY ExtentsTyped
  <1> DEFINE Rest(e) == {e.start + k : k \in {k \in 0 .. e.len - 1 : e.block + k > last}}
  <1>2. b \in Behind(l, last) <=> \E j \in DOMAIN l : b \in Rest(l[j])
    BY DEF Behind, Range
  <1>3. \A j \in DOMAIN l : b \in Rest(l[j]) <=> Phys(l, j, b) /\ ~Before(l, j, b, last)
    <2> TAKE j \in DOMAIN l
    <2> DEFINE e == l[j]
    <2>1. e.block \in Nat /\ e.len \in Nat /\ e.start \in Nat
      BY <1>1
    <2>2. b \in Rest(e) <=> \E k \in 0 .. e.len - 1 : e.block + k > last /\ b = e.start + k
      OBVIOUS
    <2> HIDE DEF e
    <2>3. (\E k \in 0 .. e.len - 1 : e.block + k > last /\ b = e.start + k) <=>
            b \in e.start .. e.start + e.len - 1 /\ ~(e.block + (b - e.start) <= last)
      BY <2>1, PlacesBehind
    <2> HIDE DEF Rest
    <2> QED
      BY <2>2, <2>3 DEF Phys, Before, e
  <1> HIDE DEF Rest
  <1>4. \A j : Phys(l, j, b) => j \in DOMAIN l
    BY DEF Phys
  <1> QED
    BY <1>2, <1>3, <1>4

\* A file gives back the blocks behind logical block last.
LEMMA SoundLoses ==
    ASSUME NEW I, NEW I2, NEW B, NEW U, Sound(I, B, U), NEW f \in Files,
           \A g \in Files : g # f => I2[g] = I[g],
           NEW last \in Int, Trimmed(I2[f].root, List(I[f].root, B), last)
    PROVE  Sound(I2, B, U \ Behind(List(I[f].root, B), last))
  <1> DEFINE l == List(I[f].root, B)
             r == I2[f].root
             p == r.entries
             gone == Behind(l, last)
             H(g, x, c) == Has(I[g].root, B, x, c)
             H2(g, x, c) == Has(I2[g].root, B, x, c)
  <1>1. Orderly(l, f) /\ l \in Seq(Extents) /\ List(r, B) = p /\ r.depth = 0 /\ Orderly(p, f)
    <2>1. Orderly(l, f)
      BY DEF Sound, TreesOK
    <2>2. Orderly(p, f)
      BY <2>1, TrimmedOrderly
    <2> QED
      BY <2>1, <2>2 DEF Orderly, Trimmed, List
  <1>2. \A x, c : Phys(p, x, c) =>
            \E j : Phys(l, j, c) /\ p[x].block = l[j].block /\ Before(l, j, c, last)
    <2>1. Orderly(l, f) /\ Trimmed(r, l, last)
      BY <1>1
    <2> HIDE DEF l, r
    <2> QED
      BY <2>1, TrimmedHas
  <1>3. \A x, y \in DOMAIN p : p[x].block = p[y].block => x = y
    BY DEF Trimmed
  <1>4. Tree(r, B)
    BY DEF Trimmed, Tree
  <1>5. \A c : c \in gone <=> \E j : Phys(l, j, c) /\ ~Before(l, j, c, last)
    BY <1>1, BehindIs
  <1>6. \A c : c \in gone => \E j : H(f, j, c) /\ Phys(l, j, c) /\ ~Before(l, j, c, last)
    BY <1>5 DEF Has
  <1>7. \A x, c : H2(f, x, c) => Phys(p, x, c)
    BY <1>1 DEF Has
  <1>8. \A x, c : Phys(l, x, c) => H(f, x, c)
    BY DEF Has
  <1>9. \A g \in Files : \A x, c : g # f => (H2(g, x, c) <=> H(g, x, c))
    BY DEF Has
  <1>10. \A g \in Files : \A x, c : H(g, x, c) => c \in U /\ c # 0
    BY DEF Sound, InUse
  <1>11. \A g, k \in Files : \A x, y, c : H(g, x, c) /\ H(k, y, c) => g = k /\ x = y
    BY DEF Sound, Apart
  <1>12. TreesOK(I2, B)
    BY <1>1, <1>4 DEF Sound, TreesOK
  <1>13. 0 \in U \ gone
    BY <1>6, <1>10 DEF Sound
  <1> HIDE DEF l, r, gone
  <1>14. InUse(I2, B, U \ gone)
    <2> HIDE DEF p, H, H2
    <2> SUFFICES ASSUME NEW g \in Files, NEW x, NEW c, H2(g, x, c)
                 PROVE  c \in (U \ gone) \ {0}
      BY DEF InUse, H2
    <2>1. CASE g # f
      <3>1. H(g, x, c)
        BY <1>9, <2>1
      <3> QED
        BY <1>6, <1>10, <1>11, <2>1, <3>1
    <2>2. CASE g = f
      <3>1. PICK j : Phys(l, j, c) /\ Before(l, j, c, last)
        BY <1>2, <1>7, <2>2
      <3>2. H(f, j, c)
        BY <1>8, <3>1
      <3>3. c \notin gone
        BY <1>6, <1>11, <3>1, <3>2
      <3> QED
        BY <1>10, <3>2, <3>3
    <2> QED
      BY <2>1, <2>2
  <1>15. Apart(I2, B)
    <2> HIDE DEF p, H, H2
    <2> SUFFICES ASSUME NEW g \in Files, NEW k \in Files, NEW x, NEW y, NEW c, H2(g, x, c), H2(k, y, c)
                 PROVE  g = k /\ x = y
      BY DEF Apart, H2
    <2>1. \A z : H2(f, z, c) => z \in DOMAIN p /\ \E j : H(f, j, c) /\ p[z].block = l[j].block
      <3> TAKE z
      <3> HAVE H2(f, z, c)
      <3>1. Phys(p, z, c)
        BY <1>7
      <3> QED
        BY <1>2, <1>8, <3>1 DEF Phys
    <2>2. CASE g # f /\ k # f
      BY <1>9, <1>11, <2>2
    <2>3. CASE g = f /\ k # f
      BY <1>9, <1>11, <2>1, <2>3
    <2>4. CASE g # f /\ k = f
      BY <1>9, <1>11, <2>1, <2>4
    <2>5. CASE g = f /\ k = f
      <3>1. x \in DOMAIN p /\ y \in DOMAIN p
        BY <2>1, <2>5
      <3>2. PICK i : H(f, i, c) /\ p[x].block = l[i].block
        BY <2>1, <2>5
      <3>3. PICK j : H(f, j, c) /\ p[y].block = l[j].block
        BY <2>1, <2>5
      <3>4. i = j
        BY <1>11, <3>2, <3>3
      <3> QED
        BY <1>3, <2>5, <3>1, <3>2, <3>3, <3>4
    <2> QED
      BY <2>2, <2>3, <2>4, <2>5
  <1>16. Sound(I2, B, U \ gone)
    BY <1>12, <1>13, <1>14, <1>15 DEF Sound
  <1> QED
    BY <1>16 DEF gone, l

\* What TruncateInode does with a file whose extents it can read.
LEMMA Truncates ==
    ASSUME NEW f \in Files, NEW s \in Results, NEW size \in Nat, Tree(s.mem.root, s.dev.block),
           Orderly(Entries(s), f), TruncateInode(s, size).status = "ok", s.status = "ok"
    PROVE  LET t == TruncateInode(s, size)
               last == ((size + BlockWords - 1) \div BlockWords) - 1
           IN  /\ last \in Int /\ Counted(s.mem.root)
               /\ t.dev.inode = s.dev.inode /\ t.dev.block = s.dev.block
               /\ t.dev.used = s.dev.used \ Behind(Entries(s), last)
               /\ t.dev \in Devices /\ t.mem \in Inodes /\ t.mem.size = size
               /\ Trimmed(t.mem.root, Entries(s), last)
  <1> DEFINE t == TruncateInode(s, size)
             last == ((size + BlockWords - 1) \div BlockWords) - 1
             x == ReadExtents(s.dev, s.mem)
             K == Kept(Entries(s), last)
             root == [depth |-> 0, count |-> Len(K),
                      entries |-> SubSeq(K, 1, IF Len(K) < RootMax THEN Len(K) ELSE RootMax)]
             new(list) == LET kept == Kept(list, last)
                          IN  [s EXCEPT !.dev.used = @ \ Behind(list, last),
                                        !.mem = [size |-> size,
                                                 root |-> [depth |-> 0, count |-> Len(kept),
                                                           entries |-> SubSeq(kept, 1, IF Len(kept) < RootMax THEN Len(kept) ELSE RootMax)]]]
  <1>1. last \in Int
    <2> DEFINE y == size + BlockWords - 1
    <2>1. y \in Nat
      BY SizesAssumption
    <2> HIDE DEF y
    <2>2. y \div BlockWords \in Nat
      BY <2>1, BlockOfWord
    <2> QED
      BY <2>2 DEF y
  <1>2. x.list = Entries(s) /\ (x.ok <=> Counted(s.mem.root))
    <2> HIDE DEF x
    <2>1. s.mem.root \in Roots /\ s.dev.block \in [Blocks -> DeviceBlocks]
      BY ResultFields
    <2> QED
      BY <2>1, ReadExtentsIs DEF Entries, x
  <1>3. t = IF ~x.ok THEN Error(s) ELSE new(x.list)
    BY Zenon DEF TruncateInode
  <1>4. x.ok
    <2>1. CASE ~x.ok
      <3> HIDE DEF t, x, new
      <3>1. t = Error(s)
        BY <1>3, <2>1
      <3>2. Error(s).status = "error"
        BY DEF Error, Results
      <3>3. t.status = "ok"
        BY DEF t
      <3> QED
        BY <3>1, <3>2, <3>3
    <2> QED
      BY <2>1
  <1>5. t = new(Entries(s))
    <2> HIDE DEF t, x, new
    <2> QED
      BY <1>2, <1>3, <1>4, Zenon
  <1> HIDE DEF last, x
  <1>6. Trimmed(root, Entries(s), last)
    BY <1>1, RootTrimmed
  <1> DEFINE inode == [size |-> size, root |-> root]
             d == [s.dev EXCEPT !.used = s.dev.used \ Behind(Entries(s), last)]
  <1>7. t = [s EXCEPT !.dev = d, !.mem = inode]
    <2> HIDE DEF K
    <2>1. t = [s EXCEPT !.dev.used = @ \ Behind(Entries(s), last), !.mem = inode]
      BY <1>5, Zenon DEF K
    <2> HIDE DEF root, t, inode
    <2> QED
      BY <2>1
  <1> HIDE DEF t, new, root
  <1>8. inode \in Inodes /\ inode.size = size /\ inode.root = root
    BY <1>6 DEF Trimmed, Inodes
  <1>9. s.dev \in Devices
    BY DEF Results
  <1>10. d \in Devices /\ d.inode = s.dev.inode /\ d.block = s.dev.block
         /\ d.used = s.dev.used \ Behind(Entries(s), last)
    BY <1>9 DEF Devices
  <1> HIDE DEF d, inode
  <1>11. t.dev = d /\ t.mem = inode
    BY <1>7 DEF Results
  <1>12. /\ t.dev.inode = s.dev.inode /\ t.dev.block = s.dev.block
         /\ t.dev.used = s.dev.used \ Behind(Entries(s), last)
         /\ t.dev \in Devices /\ t.mem \in Inodes /\ t.mem.size = size
         /\ Trimmed(t.mem.root, Entries(s), last)
    BY <1>6, <1>8, <1>10, <1>11
  <1>13. Counted(s.mem.root)
    BY <1>2, <1>4, Zenon
  <1> QED
    BY <1>1, <1>12, <1>13 DEF t, last

-----------------------------------------------------------------------------
(* The device after an operation *)

\* Device d has sound trees, of files within their bounds.
SafeDev(d) ==
    /\ d \in Devices
    /\ \A f \in Files : d.inode[f].size <= MaxSize[f]
    /\ Sound(d.inode, d.block, d.used)

LEMMA WithInodeIs ==
    ASSUME NEW f \in Files, NEW s, s.dev \in Devices, s.mem \in Inodes
    PROVE  LET d == WithInode(s, f)
           IN  /\ d \in Devices /\ d.inode = [s.dev.inode EXCEPT ![f] = s.mem]
               /\ d.block = s.dev.block /\ d.used = s.dev.used
  <1> DEFINE J == [s.dev.inode EXCEPT ![f] = s.mem]
             d == WithInode(s, f)
  <1>1. s.dev.inode \in [Files -> Inodes]
    BY DEF Devices
  <1>2. J \in [Files -> Inodes]
    BY <1>1
  <1>3. d = [s.dev EXCEPT !.inode = J]
    BY DEF WithInode
  <1> HIDE DEF J
  <1>4. d \in Devices /\ d.inode = J /\ d.block = s.dev.block /\ d.used = s.dev.used
    BY <1>2, <1>3 DEF Devices
  <1> QED
    BY <1>4 DEF J, d

LEMMA Begins ==
    ASSUME SafeDev(dev), NEW f \in Files
    PROVE  /\ Begin(f) \in Results /\ Begin(f).status = "ok"
           /\ Begin(f).dev = dev /\ Begin(f).mem = dev.inode[f] /\ Inodes1(Begin(f), f) = dev.inode
           /\ Entries(Begin(f)) = List(dev.inode[f].root, dev.block)
           /\ Tree(dev.inode[f].root, dev.block) /\ Orderly(Entries(Begin(f)), f)
           /\ Counted(dev.inode[f].root) => Stands(Begin(f), f)
           /\ dev.inode \in [Files -> Inodes] /\ dev.block \in [Blocks -> DeviceBlocks] /\ dev.used \subseteq Blocks
  <1>1. dev \in Devices /\ Sound(dev.inode, dev.block, dev.used)
    BY DEF SafeDev
  <1>2. dev.inode \in [Files -> Inodes] /\ dev.block \in [Blocks -> DeviceBlocks] /\ dev.used \subseteq Blocks
    BY <1>1 DEF Devices
  <1> DEFINE s == Begin(f)
  <1>3. s \in Results /\ s.status = "ok" /\ s.dev = dev /\ s.mem = dev.inode[f]
    BY <1>1, <1>2 DEF Begin, Results
  <1> HIDE DEF s
  <1>4. Inodes1(s, f) = dev.inode
    BY <1>2, <1>3 DEF Inodes1
  <1>5. Entries(s) = List(dev.inode[f].root, dev.block)
    BY <1>3 DEF Entries
  <1>6. Tree(dev.inode[f].root, dev.block) /\ Orderly(Entries(s), f)
    BY <1>1, <1>5 DEF Sound, TreesOK
  <1>7. Counted(dev.inode[f].root) => Stands(s, f)
    BY <1>1, <1>3, <1>4 DEF Stands
  <1> QED
    BY <1>2, <1>3, <1>4, <1>5, <1>6, <1>7 DEF s

\* A file whose extents cannot be read is not written to.
LEMMA WriteFails ==
    ASSUME SafeDev(dev), NEW f \in Files, NEW w, w # <<>>, NEW start, ~Counted(dev.inode[f].root)
    PROVE  WriteFileAt(Begin(f), start, w).status = "error"
  <1> DEFINE s == Begin(f)
             r == WriteFileAt(s, start, w)
             x == ReadExtents(s.dev, s.mem)
             first == start \div BlockWords
             last == (start + Len(w) - 1) \div BlockWords
             end == start + Len(w)
             Run(l) == LET W[n \in first - 1 .. last] ==
                               IF n < first THEN s
                               ELSE Then(W[n - 1], LAMBDA u : WriteBlock(u, l, start, w, n))
                       IN  Then(W[last], LAMBDA u : [u EXCEPT !.mem.size = IF end > @ THEN end ELSE @])
  <1>1. s \in Results /\ s.dev = dev /\ s.mem = dev.inode[f] /\ Tree(s.mem.root, s.dev.block)
    BY Begins
  <1> HIDE DEF s
  <1>2. x.ok <=> Counted(s.mem.root)
    <2>1. s.mem.root \in Roots /\ s.dev.block \in [Blocks -> DeviceBlocks]
      BY <1>1, ResultFields
    <2> HIDE DEF x
    <2> QED
      BY <1>1, <2>1, ReadExtentsIs DEF x
  <1>3. ~x.ok
    <2>1. ~Counted(s.mem.root)
      BY <1>1
    <2> QED
      BY <1>2, <2>1, Zenon
  <1>4. r = IF w = <<>> THEN s ELSE IF ~x.ok THEN Error(s) ELSE Run(x.list)
    BY Zenon DEF WriteFileAt
  <1> HIDE DEF r, x, Run
  <1>5. r = Error(s)
    BY <1>3, <1>4, Zenon
  <1>6. Error(s).status = "error"
    BY <1>1 DEF Error, Results
  <1> QED
    BY <1>5, <1>6 DEF r, s

\* What a write that got through or panicked leaves behind.
LEMMA WriteLeaves ==
    ASSUME NoSplit, SafeDev(dev), NEW f \in Files, NEW w \in Seq(Words), w # <<>>,
           NEW start \in Nat, start + Len(w) <= MaxSize[f],
           WriteFileAt(Begin(f), start, w).status # "error"
    PROVE  LET r == WriteFileAt(Begin(f), start, w)
               first == start \div BlockWords
               last == (start + Len(w) - 1) \div BlockWords
           IN  /\ Counted(dev.inode[f].root)
               /\ \/ /\ r.status = "panic" /\ start > first * BlockWords
                     /\ Panicked(Begin(f), r, f, Entries(Begin(f)), first)
                  \/ /\ r.status = "ok" /\ Written(Begin(f), r, f, first, last, start + Len(w))
                     /\ Laid(Begin(f), r, f, start, w, first, last)
  <1> DEFINE r == WriteFileAt(Begin(f), start, w)
             first == start \div BlockWords
             last == (start + Len(w) - 1) \div BlockWords
  <1>1. Counted(dev.inode[f].root)
    BY WriteFails
  <1>2. Stands(Begin(f), f)
    BY <1>1, Begins
  <1>3. \/ Failed(r)
        \/ start > first * BlockWords /\ Panicked(Begin(f), r, f, Entries(Begin(f)), first)
        \/ Written(Begin(f), r, f, first, last, start + Len(w)) /\ Laid(Begin(f), r, f, start, w, first, last)
    BY <1>2, WritesFile
  <1>4. r.status # "error"
    OBVIOUS
  <1> HIDE DEF r, first, last
  <1>5. \/ r.status = "panic" /\ start > first * BlockWords /\ Panicked(Begin(f), r, f, Entries(Begin(f)), first)
        \/ /\ r.status = "ok" /\ Written(Begin(f), r, f, first, last, start + Len(w))
           /\ Laid(Begin(f), r, f, start, w, first, last)
    BY <1>3, <1>4 DEF Failed, Panicked, Written
  <1> QED
    BY <1>1, <1>5 DEF r, first, last

LEMMA WriteSafe ==
    ASSUME NoSplit, SafeDev(dev), NEW f \in Files, NEW w \in Seq(Words), w # <<>>,
           NEW start \in Nat, start + Len(w) <= MaxSize[f]
    PROVE  LET r == WriteFileAt(Begin(f), start, w)
           IN  /\ r.status = "ok" =>
                    /\ SafeDev(WithInode(r, f)) /\ r.mem.size \in 0 .. MaxSize[f]
                    /\ ReadExtents(r.dev, r.mem).list \in Seq(Extents)
               /\ r.status = "panic" => SafeDev(r.dev)
  <1> DEFINE r == WriteFileAt(Begin(f), start, w)
             first == start \div BlockWords
             last == (start + Len(w) - 1) \div BlockWords
             end == start + Len(w)
  <1>1. /\ Begin(f).dev = dev /\ Begin(f).mem = dev.inode[f] /\ dev.inode[f] \in Inodes /\ Begin(f) \in Results
        /\ dev.inode \in [Files -> Inodes]
    BY Begins
  <1>2. end \in Nat /\ end <= MaxSize[f] /\ MaxSize[f] \in Nat /\ dev.inode[f].size \in Nat
        /\ \A g \in Files : dev.inode[g].size <= MaxSize[g]
    BY <1>1, BoundsAssumption DEF SafeDev, Inodes
  <1>3. r.status # "error" =>
            \/ r.status = "panic" /\ Panicked(Begin(f), r, f, Entries(Begin(f)), first)
            \/ r.status = "ok" /\ Written(Begin(f), r, f, first, last, end)
    BY WriteLeaves
  <1> HIDE DEF r, first, last, end
  <1>4. ASSUME r.status = "ok"
        PROVE  /\ SafeDev(WithInode(r, f)) /\ r.mem.size \in 0 .. MaxSize[f]
               /\ ReadExtents(r.dev, r.mem).list \in Seq(Extents)
    <2>1. Written(Begin(f), r, f, first, last, end)
      BY <1>3, <1>4
    <2>2. r \in Results /\ Sound(Inodes1(r, f), r.dev.block, r.dev.used) /\ r.dev.inode = dev.inode
          /\ r.mem.size = IF end > dev.inode[f].size THEN end ELSE dev.inode[f].size
      BY <1>1, <2>1 DEF Written
    <2>3. r.dev \in Devices /\ r.mem \in Inodes /\ r.mem.root \in Roots /\ r.dev.block \in [Blocks -> DeviceBlocks]
      BY <2>2, ResultFields
    <2>4. r.mem.size \in 0 .. MaxSize[f]
      BY <1>2, <2>2
    <2> DEFINE d == WithInode(r, f)
    <2>5. d \in Devices /\ d.inode = [dev.inode EXCEPT ![f] = r.mem] /\ d.inode = Inodes1(r, f)
          /\ d.block = r.dev.block /\ d.used = r.dev.used
      BY <2>2, <2>3, WithInodeIs DEF Inodes1
    <2> HIDE DEF d
    <2>6. \A g \in Files : d.inode[g].size <= MaxSize[g]
      BY <1>1, <1>2, <2>4, <2>5
    <2>7. SafeDev(d)
      BY <2>2, <2>5, <2>6 DEF SafeDev
    <2>8. Tree(r.mem.root, r.dev.block)
      <3>1. Inodes1(r, f)[f] = r.mem
        BY <2>2, InodesWith
      <3> QED
        BY <2>2, <3>1 DEF Sound, TreesOK
    <2>9. ReadExtents(r.dev, r.mem).list = List(r.mem.root, r.dev.block)
      BY <2>3, <2>8, ReadExtentsIs
    <2>10. List(r.mem.root, r.dev.block) \in Seq(Extents)
      BY <2>3, <2>8, TreeTyped
    <2> QED
      BY <2>4, <2>7, <2>9, <2>10 DEF d
  <1>5. ASSUME r.status = "panic"
        PROVE  SafeDev(r.dev)
    <2>1. Panicked(Begin(f), r, f, Entries(Begin(f)), first)
      BY <1>3, <1>5
    <2>2. r \in Results /\ r.dev.inode = dev.inode /\ Sound(r.dev.inode, r.dev.block, r.dev.used)
      BY <1>1, <2>1 DEF Panicked
    <2>3. r.dev \in Devices
      BY <2>2, ResultFields
    <2> QED
      BY <1>2, <2>2, <2>3 DEF SafeDev
  <1> QED
    BY <1>4, <1>5 DEF r

\* Truncate to fewer words.
LEMMA ShrinkLeaves ==
    ASSUME SafeDev(dev), NEW f \in Files, NEW size \in Nat, size < dev.inode[f].size,
           TruncateInode(Begin(f), size).status = "ok"
    PROVE  LET d == WithInode(TruncateInode(Begin(f), size), f)
               list == List(dev.inode[f].root, dev.block)
               last == ((size + BlockWords - 1) \div BlockWords) - 1
           IN  /\ SafeDev(d) /\ last \in Int /\ Counted(dev.inode[f].root)
               /\ \A g \in Files : g # f => d.inode[g] = dev.inode[g]
               /\ Trimmed(d.inode[f].root, list, last) /\ d.inode[f].size = size
               /\ d.block = dev.block /\ d.used = dev.used \ Behind(list, last)
  <1> DEFINE t == TruncateInode(Begin(f), size)
             d == WithInode(t, f)
             list == List(dev.inode[f].root, dev.block)
             last == ((size + BlockWords - 1) \div BlockWords) - 1
  <1>1. /\ Begin(f) \in Results /\ Begin(f).status = "ok" /\ Begin(f).dev = dev /\ Begin(f).mem = dev.inode[f]
        /\ Entries(Begin(f)) = list /\ Orderly(Entries(Begin(f)), f) /\ Tree(dev.inode[f].root, dev.block)
        /\ dev.inode \in [Files -> Inodes]
    BY Begins
  <1>2. /\ last \in Int /\ Counted(dev.inode[f].root)
        /\ t.dev.inode = dev.inode /\ t.dev.block = dev.block
        /\ t.dev.used = dev.used \ Behind(list, last)
        /\ t.dev \in Devices /\ t.mem \in Inodes /\ t.mem.size = size
        /\ Trimmed(t.mem.root, list, last)
    <2>1. Tree(Begin(f).mem.root, Begin(f).dev.block)
      BY <1>1
    <2> HIDE DEF list
    <2> QED
      BY <1>1, <2>1, Truncates
  <1> HIDE DEF t, last, list
  <1>3. d \in Devices /\ d.inode = [dev.inode EXCEPT ![f] = t.mem] /\ d.block = dev.block
        /\ d.used = dev.used \ Behind(list, last)
    BY <1>2, WithInodeIs
  <1> HIDE DEF d
  <1>4. d.inode[f] = t.mem /\ \A g \in Files : g # f => d.inode[g] = dev.inode[g]
    BY <1>1, <1>3
  <1>5. \A g \in Files : d.inode[g].size <= MaxSize[g]
    <2>1. dev.inode[f].size \in Nat /\ MaxSize[f] \in Nat
      BY <1>1, BoundsAssumption DEF Inodes
    <2> QED
      BY <1>2, <1>4, <2>1 DEF SafeDev
  <1>6. Sound(d.inode, dev.block, dev.used \ Behind(list, last))
    <2>1. Sound(dev.inode, dev.block, dev.used)
      BY DEF SafeDev
    <2> QED
      BY <1>2, <1>4, <2>1, SoundLoses DEF list
  <1>7. SafeDev(d)
    BY <1>3, <1>5, <1>6 DEF SafeDev
  <1> QED
    BY <1>2, <1>3, <1>4, <1>7 DEF d, t, list, last

-----------------------------------------------------------------------------
(* The invariant *)

\* What the table of open files holds.
Opened(t) ==
    /\ DOMAIN t \subseteq Paths
    /\ \A p \in DOMAIN t : t[p].extents \in Seq(Extents) /\ t[p].size \in 0 .. MaxSize[InodeOf[p]]

\* The inductive invariant: the trees are sound and the open files typed.
Inv == SafeDev(dev) /\ Opened(files)

LEMMA OpenedWith ==
    ASSUME NEW t, Opened(t), NEW p \in Paths, NEW entry, NEW t2,
           DOMAIN t2 \subseteq DOMAIN t \union {p},
           \A q \in DOMAIN t2 : q # p => t2[q] = t[q],
           p \in DOMAIN t2 => t2[p] = entry,
           entry.extents \in Seq(Extents), entry.size \in 0 .. MaxSize[InodeOf[p]]
    PROVE  Opened(t2)
  <1>1. DOMAIN t2 \subseteq Paths
    BY DEF Opened
  <1>2. ASSUME NEW q \in DOMAIN t2
        PROVE  t2[q].extents \in Seq(Extents) /\ t2[q].size \in 0 .. MaxSize[InodeOf[q]]
    <2>1. CASE q = p
      BY <2>1
    <2>2. CASE q # p
      BY <2>2 DEF Opened
    <2> QED
      BY <2>1, <2>2
  <1> QED
    BY <1>1, <1>2 DEF Opened

\* The words of a write.
LEMMA BufferTyped ==
    ASSUME NEW f \in Files, NEW start \in Nat, NEW n \in Nat \ {0}, start + n <= MaxSize[f]
    PROVE  LET w == [i \in 1 .. n |-> Word(f, start + i - 1)]
           IN  w \in Seq(Words) /\ w # <<>> /\ Len(w) = n
  <1>1. \A i \in 1 .. n : start + i - 1 \in 0 .. MaxSize[f]
    BY BoundsAssumption
  <1>2. \A i \in 1 .. n : start + i - 1 \in Offsets
    BY <1>1 DEF Offsets
  <1>3. \A i \in 1 .. n : Word(f, start + i - 1) \in Words
    BY <1>2 DEF Words
  <1> QED
    BY <1>3

LEMMA ZerosTyped ==
    ASSUME NEW n \in Nat \ {0}
    PROVE  LET w == [i \in 1 .. n |-> Zero]
           IN  w \in Seq(Words) /\ w # <<>> /\ Len(w) = n
  <1>1. Zero \in Words
    BY DEF Words
  <1> QED
    BY <1>1

LEMMA InitInv ==
    Init => Inv
  <1> SUFFICES ASSUME Init PROVE Inv
    OBVIOUS
  <1> DEFINE inode == [size |-> 0, root |-> EmptyRoot]
             blk == DataBlock([i \in 1 .. BlockWords |-> OldWord])
  <1>1. <<>> \in Seq(Extents) /\ Len(<<>>) = 0 /\ DOMAIN <<>> = {}
    OBVIOUS
  <1>2. EmptyRoot.depth = 0 /\ EmptyRoot.count = 0 /\ EmptyRoot.entries = <<>> /\ EmptyRoot \in Roots
    BY <1>1 DEF EmptyRoot, Roots
  <1>3. inode \in Inodes /\ inode.root = EmptyRoot /\ inode.size = 0
    BY <1>2 DEF Inodes
  <1>4. blk \in DeviceBlocks
    <2>1. OldWord \in Words
      BY DEF Words
    <2>2. Len(<<>>) <= LeafMax
      BY <1>1, NodesAssumption
    <2> QED
      BY <1>1, <2>1, <2>2 DEF DataBlock, DeviceBlocks
  <1> HIDE DEF inode, blk
  <1>5. dev.inode = [f \in Files |-> inode] /\ dev.used = {0} /\ dev.block = [b \in Blocks |-> blk]
        /\ dev = [inode |-> [f \in Files |-> inode], used |-> {0}, block |-> [b \in Blocks |-> blk]]
    BY DEF Init, inode, blk
  <1>6. 0 \in Blocks
    BY SizesAssumption DEF Blocks
  <1>7. dev \in Devices
    BY <1>3, <1>4, <1>5, <1>6 DEF Devices
  <1>8. \A f \in Files : dev.inode[f].root = EmptyRoot /\ dev.inode[f].size = 0
    BY <1>3, <1>5
  <1>9. \A f \in Files : dev.inode[f].size <= MaxSize[f]
    BY <1>8, BoundsAssumption
  <1>10. \A f \in Files : List(dev.inode[f].root, dev.block) = <<>>
    BY <1>2, <1>8 DEF List
  <1>11. \A f \in Files : Tree(dev.inode[f].root, dev.block)
    <2>1. EmptyRoot.entries \in Seq(Extents) /\ Len(EmptyRoot.entries) = 0 /\ 0 <= RootMax /\ 0 <= EmptyRoot.count
      BY <1>1, <1>2, NodesAssumption
    <2> QED
      BY <1>2, <1>8, <2>1 DEF Tree
  <1>12. \A f : Orderly(<<>>, f)
    BY <1>1 DEF Orderly, Holds
  <1>13. \A f \in Files : \A x, b : ~Has(dev.inode[f].root, dev.block, x, b)
    BY <1>1, <1>2, <1>8, <1>10 DEF Has, Phys
  <1>14. Sound(dev.inode, dev.block, dev.used)
    BY <1>5, <1>10, <1>11, <1>12, <1>13 DEF Sound, TreesOK, InUse, Apart
  <1>15. Opened(files)
    BY <1>1 DEF Init, Opened
  <1> QED
    BY <1>7, <1>9, <1>14, <1>15 DEF Inv, SafeDev

LEMMA OpenInv ==
    ASSUME Inv, NEW p \in Paths, Open(p)
    PROVE  Inv'
  <1> DEFINE f == InodeOf[p]
             x == ReadExtents(dev, dev.inode[f])
             entry == [extents |-> x.list, size |-> dev.inode[f].size]
  <1>1. f \in Files
    BY PathsAssumption
  <1>2. SafeDev(dev) /\ Opened(files)
    BY DEF Inv
  <1> HIDE DEF f
  <1>3. /\ dev.inode[f] \in Inodes /\ Tree(dev.inode[f].root, dev.block)
        /\ dev.block \in [Blocks -> DeviceBlocks]
    BY <1>1, <1>2, Begins
  <1>4. dev.inode[f].size \in 0 .. MaxSize[f] /\ dev.inode[f].root \in Roots
    BY <1>1, <1>2, <1>3, BoundsAssumption DEF SafeDev, Inodes
  <1>5. x.list = List(dev.inode[f].root, dev.block)
    BY <1>3, <1>4, ReadExtentsIs
  <1>6. List(dev.inode[f].root, dev.block) \in Seq(Extents)
    BY <1>3, <1>4, TreeTyped
  <1> HIDE DEF x
  <1>7. entry.extents \in Seq(Extents) /\ entry.size \in 0 .. MaxSize[f]
    BY <1>4, <1>5, <1>6
  <1>8. files' = [q \in DOMAIN files \union {p} |-> IF q = p THEN entry ELSE files[q]]
    BY Zenon DEF Open, x, f
  <1> HIDE DEF entry
  <1>9. Opened(files')
    BY <1>2, <1>7, <1>8, OpenedWith DEF f
  <1>10. dev' = dev
    BY DEF Open
  <1> QED
    BY <1>2, <1>9, <1>10 DEF Inv

LEMMA ReleaseInv ==
    ASSUME Inv, NEW p \in Paths, Release(p)
    PROVE  Inv'
  <1>1. files' = [q \in DOMAIN files \ {p} |-> files[q]] /\ dev' = dev
    BY DEF Release
  <1>2. Opened(files')
    BY <1>1 DEF Inv, Opened
  <1> QED
    BY <1>1, <1>2 DEF Inv

LEMMA WriteInv ==
    ASSUME NoSplit, Inv, NEW p \in Paths, NEW n \in Nat \ {0}, NEW start \in Nat,
           start + n <= MaxSize[InodeOf[p]], Write(p, start, n)
    PROVE  Inv'
  <1> DEFINE f == InodeOf[p]
             w == [i \in 1 .. n |-> Word(f, start + i - 1)]
             s == WriteFileAt(Begin(f), start, w)
  <1>1. f \in Files
    BY PathsAssumption
  <1>2. SafeDev(dev) /\ Opened(files)
    BY DEF Inv
  <1>3. \/ s.status = "ok" /\ dev' = WithInode(s, f) /\ files' = [files EXCEPT ![p] = Refreshed(@, s)]
        \/ s.status = "ok" /\ dev' = dev /\ files' = [files EXCEPT ![p] = Refreshed(@, s)]
        \/ s.status = "panic" /\ dev' = s.dev /\ files' = files
    BY Zenon DEF Write
  <1>4. start + n <= MaxSize[f]
    OBVIOUS
  <1>5. p \in DOMAIN files
    BY DEF Write
  <1> HIDE DEF f
  <1>6. w \in Seq(Words) /\ w # <<>> /\ Len(w) = n
    BY <1>1, <1>4, BufferTyped
  <1> HIDE DEF w
  <1>7. /\ s.status = "ok" => SafeDev(WithInode(s, f)) /\ s.mem.size \in 0 .. MaxSize[f]
                              /\ ReadExtents(s.dev, s.mem).list \in Seq(Extents)
        /\ s.status = "panic" => SafeDev(s.dev)
    BY <1>1, <1>2, <1>4, <1>6, WriteSafe
  <1> HIDE DEF s
  <1>8. SafeDev(dev')
    BY <1>2, <1>3, <1>7
  <1>9. Opened(files')
    <2>1. CASE files' = files
      BY <1>2, <2>1
    <2>2. CASE s.status = "ok" /\ files' = [files EXCEPT ![p] = Refreshed(@, s)]
      <3> DEFINE entry == Refreshed(files[p], s)
                 x == ReadExtents(s.dev, s.mem)
                 list == IF x.ok THEN x.list ELSE files[p].extents
      <3>1. files[p].extents \in Seq(Extents)
        BY <1>2, <1>5 DEF Opened
      <3>2. entry = [extents |-> list, size |-> s.mem.size]
        BY Zenon DEF Refreshed
      <3>3. list \in Seq(Extents)
        <4>1. x.list \in Seq(Extents)
          BY <1>7, <2>2
        <4> HIDE DEF x
        <4> QED
          BY <3>1, <4>1
      <3> HIDE DEF list
      <3>4. entry.extents \in Seq(Extents) /\ entry.size \in 0 .. MaxSize[f]
        BY <1>7, <2>2, <3>2, <3>3
      <3>5. files' = [files EXCEPT ![p] = entry]
        BY <2>2
      <3> HIDE DEF entry
      <3> QED
        BY <1>2, <1>5, <3>4, <3>5, OpenedWith DEF f
    <2> QED
      BY <1>3, <2>1, <2>2
  <1> QED
    BY <1>8, <1>9 DEF Inv

LEMMA GrowInv ==
    ASSUME NoSplit, Inv, NEW p \in Paths, NEW size \in 0 .. MaxSize[InodeOf[p]], Grow(p, size)
    PROVE  Inv'
  <1> DEFINE f == InodeOf[p]
             old == dev.inode[f].size
             w == [i \in 1 .. size - old |-> Zero]
             s == WriteFileAt(Begin(f), old, w)
  <1>1. f \in Files
    BY PathsAssumption
  <1>2. SafeDev(dev) /\ Opened(files)
    BY DEF Inv
  <1>3. \/ s.status = "ok" /\ dev' = WithInode(s, f)
        \/ s.status = "panic" /\ dev' = s.dev
    BY Zenon DEF Grow
  <1>4. size > old /\ files' = files
    BY DEF Grow
  <1>5. size \in 0 .. MaxSize[f]
    OBVIOUS
  <1> HIDE DEF f
  <1>6. old \in Nat /\ MaxSize[f] \in Nat
    <2>1. dev.inode[f] \in Inodes
      BY <1>1, <1>2, Begins
    <2> QED
      BY <1>1, <2>1, BoundsAssumption DEF Inodes
  <1> HIDE DEF old
  <1>7. size - old \in Nat \ {0} /\ old + (size - old) = size
    BY <1>4, <1>5, <1>6
  <1>8. w \in Seq(Words) /\ w # <<>> /\ Len(w) = size - old
    BY <1>7, ZerosTyped
  <1> HIDE DEF w
  <1>9. old + Len(w) <= MaxSize[f]
    BY <1>5, <1>6, <1>7, <1>8
  <1>10. /\ s.status = "ok" => SafeDev(WithInode(s, f))
         /\ s.status = "panic" => SafeDev(s.dev)
    BY <1>1, <1>2, <1>6, <1>8, <1>9, WriteSafe
  <1> HIDE DEF s
  <1>11. SafeDev(dev')
    BY <1>3, <1>10
  <1> QED
    BY <1>2, <1>4, <1>11 DEF Inv

LEMMA ShrinkInv ==
    ASSUME Inv, NEW p \in Paths, NEW size \in 0 .. MaxSize[InodeOf[p]], Shrink(p, size)
    PROVE  Inv'
  <1> DEFINE f == InodeOf[p]
             t == TruncateInode(Begin(f), size)
  <1>1. f \in Files
    BY PathsAssumption
  <1>2. SafeDev(dev) /\ Opened(files)
    BY DEF Inv
  <1>3. t.status = "ok" /\ dev' = WithInode(t, f) /\ size < dev.inode[f].size /\ files' = files
    BY DEF Shrink
  <1>4. size \in Nat
    BY <1>1, BoundsAssumption
  <1> HIDE DEF f
  <1>5. SafeDev(WithInode(t, f))
    BY <1>1, <1>2, <1>3, <1>4, ShrinkLeaves
  <1> QED
    BY <1>2, <1>3, <1>5 DEF Inv

LEMMA NextInv ==
    NoSplit /\ Inv /\ [Next]_vars => Inv'
  <1> SUFFICES ASSUME NoSplit, Inv, [Next]_vars PROVE Inv'
    OBVIOUS
  <1>1. ASSUME NEW p \in Paths, Open(p)
        PROVE  Inv'
    BY <1>1, OpenInv
  <1>2. ASSUME NEW p \in Paths, Release(p)
        PROVE  Inv'
    BY <1>2, ReleaseInv
  <1>3. ASSUME NEW p \in Paths, NEW n \in 1 .. MaxBuf, NEW start \in 0 .. MaxSize[InodeOf[p]] - n, Write(p, start, n)
        PROVE  Inv'
    <2> DEFINE m == MaxSize[InodeOf[p]]
    <2>1. m \in Nat /\ MaxBuf \in Nat
      BY PathsAssumption, BoundsAssumption
    <2>2. start \in 0 .. m - n
      OBVIOUS
    <2> HIDE DEF m
    <2>3. n \in Nat \ {0} /\ start \in Nat /\ start + n <= m
      BY <2>1, <2>2
    <2> QED
      BY <1>3, <2>3, WriteInv DEF m
  <1>4. ASSUME NEW p \in Paths, NEW size \in 0 .. MaxSize[InodeOf[p]], Grow(p, size)
        PROVE  Inv'
    BY <1>4, GrowInv
  <1>5. ASSUME NEW p \in Paths, NEW size \in 0 .. MaxSize[InodeOf[p]], Shrink(p, size)
        PROVE  Inv'
    BY <1>5, ShrinkInv
  <1>6. CASE Remount
    <2>1. files' = <<>> /\ dev' = dev /\ DOMAIN <<>> = {}
      BY <1>6 DEF Remount
    <2>2. Opened(files')
      BY <2>1 DEF Opened
    <2> QED
      BY <2>1, <2>2 DEF Inv
  <1>7. CASE UNCHANGED vars
    BY <1>7 DEF vars, Inv
  <1> QED
    BY <1>1, <1>2, <1>3, <1>4, <1>5, <1>6, <1>7, Zenon DEF Next

-----------------------------------------------------------------------------
(* What follows from it *)

LEMMA InvTypeOK ==
    Inv => TypeOK
  <1> SUFFICES ASSUME Inv PROVE TypeOK
    OBVIOUS
  <1>1. SafeDev(dev) /\ Opened(files)
    BY DEF Inv
  <1>2. dev \in Devices
    BY <1>1 DEF SafeDev
  <1>3. dev.used \subseteq Blocks /\ dev.block \in [Blocks -> DeviceBlocks] /\ dev.inode \in [Files -> Inodes]
    BY <1>2 DEF Devices
  <1>4. ASSUME NEW f \in Files
        PROVE  LET root == dev.inode[f].root IN
               /\ dev.inode[f].size \in 0 .. MaxSize[f]
               /\ \/ root.depth = 0 /\ root.entries \in Seq(Extents) /\ Len(root.entries) <= RootMax
                  \/ root.depth = 1 /\ root.entries \in Seq([block : Offsets, leaf : Blocks]) /\ Len(root.entries) = 1
    <2>1. dev.inode[f].size \in Nat /\ dev.inode[f].size <= MaxSize[f] /\ MaxSize[f] \in Nat
      BY <1>1, <1>3, BoundsAssumption DEF SafeDev, Inodes
    <2>2. dev.inode[f].size \in 0 .. MaxSize[f]
      BY <2>1
    <2>3. Tree(dev.inode[f].root, dev.block)
      BY <1>1, Begins
    <2> QED
      BY <2>2, <2>3 DEF Tree, Indexes
  <1>5. \A b \in Blocks : /\ dev.block[b].words \in [1 .. BlockWords -> Words]
                          /\ dev.block[b].extents \in Seq(Extents) /\ Len(dev.block[b].extents) <= LeafMax
    <2> TAKE b \in Blocks
    <2>1. dev.block[b] \in DeviceBlocks
      BY <1>3
    <2> QED
      BY <2>1 DEF DeviceBlocks
  <1>6. \A p \in DOMAIN files : files[p].extents \in Seq(Extents) /\ files[p].size \in 0 .. MaxSize[InodeOf[p]]
    BY <1>1 DEF Opened
  <1> QED
    BY <1>3, <1>4, <1>5, <1>6 DEF TypeOK

\* The places of a tree, and what Reached finds there.
LEMMA ReachedIs ==
    ASSUME SafeDev(dev), NEW f \in Files
    PROVE  LET R == Reached(f)
               r == dev.inode[f].root
           IN  /\ \A z \in DOMAIN R : /\ z = <<z[1], z[2]>>
                                      /\ Has(r, dev.block, z[1], R[z])
               /\ \A y, z \in DOMAIN R : y[1] = z[1] /\ R[y] = R[z] => y = z
               /\ \A x, b : Has(r, dev.block, x, b) => \E z \in DOMAIN R : R[z] = b
  <1> DEFINE r == dev.inode[f].root
             list == List(r, dev.block)
             nodes == {<<0, n>> : n \in IF r.depth = 0 THEN {} ELSE DOMAIN r.entries}
             data == UNION {{<<i, k>> : k \in 0 .. list[i].len - 1} : i \in DOMAIN list}
             Value(z) == IF z \in nodes THEN r.entries[z[2]].leaf ELSE list[z[1]].start + z[2]
             R == Reached(f)
  <1>1. Tree(r, dev.block) /\ r \in Roots /\ list \in Seq(Extents) /\ dev.block \in [Blocks -> DeviceBlocks]
    <2>1. Tree(r, dev.block) /\ Orderly(list, f) /\ dev.inode[f] \in Inodes /\ dev.block \in [Blocks -> DeviceBlocks]
      BY Begins
    <2> QED
      BY <2>1 DEF Orderly, Inodes
  <1>2. ReadExtents(dev, dev.inode[f]).list = list
    BY <1>1, ReadExtentsIs
  <1>3. R = [z \in nodes \union data |-> Value(z)]
    <2> DEFINE places(l) == UNION {{<<i, k>> : k \in 0 .. l[i].len - 1} : i \in DOMAIN l}
               Table(l) == [z \in nodes \union places(l) |->
                               IF z \in nodes THEN r.entries[z[2]].leaf ELSE l[z[1]].start + z[2]]
    <2>1. R = Table(ReadExtents(dev, dev.inode[f]).list)
      BY Zenon DEF Reached
    <2> HIDE DEF R, list, Table
    <2>2. R = Table(list)
      BY <1>2, <2>1
    <2> QED
      BY <2>2, Zenon DEF Table
  <1> DEFINE IsNode(z) == r.depth = 1 /\ z = <<0, 1>>
             IsData(z) == \E i, k : i \in DOMAIN list /\ k \in 0 .. list[i].len - 1 /\ z = <<i, k>>
  <1>4. \A z : z \in nodes <=> IsNode(z)
    <2>1. CASE r.depth = 0
      BY <2>1
    <2>2. CASE r.depth = 1
      <3>1. DOMAIN r.entries = {1}
        BY <1>1, <2>2 DEF Tree
      <3> QED
        BY <2>2, <3>1
    <2> QED
      BY <1>1, <2>1, <2>2 DEF Roots
  <1>5. \A z : z \in data <=> IsData(z)
    <2> TAKE z
    <2>1. z \in data <=> \E i \in DOMAIN list : \E k \in 0 .. list[i].len - 1 : z = <<i, k>>
      <3> HIDE DEF list
      <3> QED
        OBVIOUS
    <2> HIDE DEF list, data
    <2> QED
      BY <2>1, Zenon
  <1>6. \A i \in DOMAIN list : list[i].len \in Nat /\ list[i].start \in Nat /\ i # 0
    BY <1>1, ExtentsTyped
  <1> HIDE DEF nodes, data, R, list, r
  <1>7. ASSUME NEW z, IsNode(z)
        PROVE  z \in DOMAIN R /\ z[1] = 0 /\ z[2] = 1 /\ R[z] = LeafOf(r) /\ z = <<z[1], z[2]>>
               /\ Has(r, dev.block, z[1], R[z])
    <2>1. z \in nodes /\ z[1] = 0 /\ z[2] = 1 /\ z = <<z[1], z[2]>>
      BY <1>4, <1>7
    <2>2. z \in DOMAIN R /\ R[z] = r.entries[1].leaf
      BY <1>3, <2>1
    <2> QED
      BY <1>7, <2>1, <2>2 DEF LeafOf, Has
  <1>8. ASSUME NEW z, IsData(z)
        PROVE  z \in DOMAIN R /\ z[1] \in DOMAIN list /\ z[2] \in 0 .. list[z[1]].len - 1 /\ z[1] # 0
               /\ R[z] = list[z[1]].start + z[2] /\ z = <<z[1], z[2]>> /\ Has(r, dev.block, z[1], R[z])
    <2>1. PICK i, k : i \in DOMAIN list /\ k \in 0 .. list[i].len - 1 /\ z = <<i, k>>
      BY <1>8, Zenon
    <2>2. z[1] = i /\ z[2] = k /\ z = <<z[1], z[2]>> /\ z[1] # 0
      BY <1>6, <2>1
    <2>3. z \in data /\ z \notin nodes
      <3>1. z \in data
        BY <1>5, <1>8
      <3> QED
        BY <1>4, <2>2, <3>1
    <2>4. z \in DOMAIN R /\ R[z] = list[z[1]].start + z[2]
      BY <1>3, <2>3
    <2>5. R[z] \in list[i].start .. list[i].start + list[i].len - 1
      BY <1>6, <2>1, <2>2, <2>4
    <2>6. Has(r, dev.block, z[1], R[z])
      BY <2>1, <2>2, <2>5 DEF Has, Phys, list
    <2> QED
      BY <2>1, <2>2, <2>4, <2>6
  <1>9. \A z \in DOMAIN R : IsNode(z) \/ IsData(z)
    <2>1. DOMAIN R = nodes \union data
      BY <1>3
    <2> QED
      BY <1>4, <1>5, <2>1
  <1>10. \A z \in DOMAIN R : z = <<z[1], z[2]>> /\ Has(r, dev.block, z[1], R[z])
    <2> HIDE DEF IsNode, IsData
    <2> QED
      BY <1>7, <1>8, <1>9
  <1>11. ASSUME NEW y \in DOMAIN R, NEW z \in DOMAIN R, y[1] = z[1], R[y] = R[z]
         PROVE  y = z
    <2>1. CASE IsNode(y) /\ IsNode(z)
      BY <2>1
    <2>2. CASE IsData(y) /\ IsData(z)
      <3> DEFINE e == list[z[1]]
      <3>1. y[2] \in 0 .. e.len - 1 /\ z[2] \in 0 .. e.len - 1 /\ e.start + y[2] = e.start + z[2]
            /\ e.start \in Nat /\ y = <<y[1], y[2]>> /\ z = <<z[1], z[2]>>
        <4> HIDE DEF IsData
        <4> QED
          BY <1>6, <1>8, <1>11, <2>2
      <3> HIDE DEF e
      <3>2. y[2] = z[2]
        BY <3>1
      <3> QED
        BY <1>11, <3>1, <3>2
    <2>3. CASE (IsNode(y) /\ IsData(z)) \/ (IsData(y) /\ IsNode(z))
      <3> HIDE DEF IsNode, IsData
      <3> QED
        BY <1>7, <1>8, <1>11, <2>3
    <2> QED
      BY <1>9, <2>1, <2>2, <2>3
  <1>12. ASSUME NEW x, NEW b, Has(r, dev.block, x, b)
         PROVE  \E z \in DOMAIN R : R[z] = b
    <2>1. CASE r.depth = 1 /\ b = LeafOf(r)
      <3>1. IsNode(<<0, 1>>)
        BY <2>1
      <3> HIDE DEF IsNode
      <3> QED
        BY <1>7, <2>1, <3>1
    <2>2. CASE Phys(list, x, b)
      <3>1. x \in DOMAIN list /\ b \in list[x].start .. list[x].start + list[x].len - 1
        BY <2>2 DEF Phys
      <3>2. b - list[x].start \in 0 .. list[x].len - 1 /\ list[x].start + (b - list[x].start) = b
        BY <1>6, <3>1
      <3> DEFINE z == <<x, b - list[x].start>>
      <3>3. IsData(z) /\ z[1] = x /\ z[2] = b - list[x].start
        BY <3>1, <3>2
      <3> HIDE DEF IsData, z
      <3>4. z \in DOMAIN R /\ R[z] = list[z[1]].start + z[2]
        BY <1>8, <3>3
      <3> QED
        BY <3>2, <3>3, <3>4
    <2> QED
      BY <1>12, <2>1, <2>2 DEF Has, list
  <1> QED
    BY <1>10, <1>11, <1>12 DEF R, r

LEMMA InvBlocksOwned ==
    Inv => BlocksOwned
  <1> SUFFICES ASSUME Inv PROVE BlocksOwned
    OBVIOUS
  <1>1. SafeDev(dev) /\ Sound(dev.inode, dev.block, dev.used)
    BY DEF Inv, SafeDev
  <1> DEFINE H(f, x, b) == Has(dev.inode[f].root, dev.block, x, b)
  <1>2. \A f \in Files : \A x, b : H(f, x, b) => b \in dev.used \ {0}
    BY <1>1 DEF Sound, InUse
  <1>3. \A f, g \in Files : \A x, y, b : H(f, x, b) /\ H(g, y, b) => f = g /\ x = y
    BY <1>1 DEF Sound, Apart
  <1>4. \A f \in Files : \A z \in DOMAIN Reached(f) : H(f, z[1], Reached(f)[z])
    BY <1>1, ReachedIs
  <1>5. \A f \in Files : \A y, z \in DOMAIN Reached(f) : y[1] = z[1] /\ Reached(f)[y] = Reached(f)[z] => y = z
    BY <1>1, ReachedIs
  <1> HIDE DEF H
  <1>6. ASSUME NEW f \in Files
        PROVE  IsInjective(Reached(f)) /\ Range(Reached(f)) \subseteq dev.used \ {0}
    <2>1. \A y, z \in DOMAIN Reached(f) : Reached(f)[y] = Reached(f)[z] => y = z
      BY <1>3, <1>4, <1>5
    <2>2. IsInjective(Reached(f))
      BY <2>1 DEF IsInjective
    <2>3. \A z \in DOMAIN Reached(f) : Reached(f)[z] \in dev.used \ {0}
      BY <1>2, <1>4
    <2> QED
      BY <2>2, <2>3 DEF Range
  <1>7. ASSUME NEW f \in Files, NEW g \in Files, f # g
        PROVE  Range(Reached(f)) \intersect Range(Reached(g)) = {}
    <2>1. ASSUME NEW y \in DOMAIN Reached(f), NEW z \in DOMAIN Reached(g), Reached(f)[y] = Reached(g)[z]
          PROVE  FALSE
      <3>1. H(f, y[1], Reached(f)[y]) /\ H(g, z[1], Reached(f)[y])
        BY <1>4, <2>1
      <3> QED
        BY <1>3, <1>7, <3>1
    <2> QED
      BY <2>1 DEF Range
  <1> QED
    BY <1>6, <1>7 DEF BlocksOwned

\* Type correctness, of files of at most LeafMax blocks: a leaf that is full and
\* splits is taken for its own parent (splitLeafBlockAndAppend).
THEOREM TypeCorrect ==
    ASSUME NoSplit
    PROVE  Spec => []TypeOK
  <1>1. Init => Inv
    BY InitInv
  <1>2. Inv /\ [Next]_vars => Inv'
    BY NextInv
  <1>3. Inv => TypeOK
    BY InvTypeOK
  <1> QED
    BY <1>1, <1>2, <1>3, PTL DEF Spec

\* No block is reached twice, by one file or by two, and all that are reached are
\* in use: AllocateBlock and Truncate never let two files share a block.
THEOREM BlocksOwnedCorrect ==
    ASSUME NoSplit
    PROVE  Spec => []BlocksOwned
  <1>1. Init => Inv
    BY InitInv
  <1>2. Inv /\ [Next]_vars => Inv'
    BY NextInv
  <1>3. Inv => BlocksOwned
    BY InvBlocksOwned
  <1> QED
    BY <1>1, <1>2, <1>3, PTL DEF Spec

-----------------------------------------------------------------------------
(* Data is given back: without writes beyond the end of a file *)

\* A file whose header counts what is there maps all of its size.
Covered(I, B) ==
    \A f \in Files : Counted(I[f].root) =>
        \A n \in Nat : n * BlockWords < I[f].size => \E x : Holds(List(I[f].root, B), x, n)

\* If all headers do, a block in use is a node or a file's.
Reclaimed(I, B, U) ==
    (\A f \in Files : Counted(I[f].root)) =>
        \A b \in U \ {0} : B[b].node \/ \E f \in Files : \E x : Phys(List(I[f].root, B), x, b)

DataSafe(d) == Covered(d.inode, d.block) /\ Reclaimed(d.inode, d.block, d.used)

LEMMA WriteCovers ==
    ASSUME NoSplit, SafeDev(dev), DataSafe(dev), NEW f \in Files, NEW w \in Seq(Words), w # <<>>,
           NEW start \in Nat, start + Len(w) <= MaxSize[f], start <= dev.inode[f].size
    PROVE  LET r == WriteFileAt(Begin(f), start, w)
           IN  /\ r.status = "ok" => DataSafe(WithInode(r, f))
               /\ r.status = "panic" => r.dev = dev
  <1> DEFINE r == WriteFileAt(Begin(f), start, w)
             first == start \div BlockWords
             last == (start + Len(w) - 1) \div BlockWords
             end == start + Len(w)
             size == dev.inode[f].size
             list == List(dev.inode[f].root, dev.block)
  <1>1. /\ Begin(f).dev = dev /\ Begin(f).mem = dev.inode[f] /\ dev.inode[f] \in Inodes
        /\ dev.inode \in [Files -> Inodes] /\ Entries(Begin(f)) = list /\ list \in Seq(Extents)
        /\ Begin(f) \in Results
    <2>1. Orderly(Entries(Begin(f)), f) /\ Entries(Begin(f)) = list
      BY Begins
    <2> QED
      BY <2>1, Begins DEF Orderly
  <1>2. Len(w) \in Nat \ {0} /\ size \in Nat /\ end \in Nat /\ end - 1 \in Nat /\ first \in Nat
    <2>1. Len(w) \in Nat \ {0}
      OBVIOUS
    <2>2. first \in Nat
      BY BlockOfWord
    <2> HIDE DEF first
    <2> QED
      BY <1>1, <2>1, <2>2 DEF Inodes
  <1>3. r.status # "error" =>
            /\ Counted(dev.inode[f].root)
            /\ \/ /\ r.status = "panic" /\ start > first * BlockWords
                  /\ Panicked(Begin(f), r, f, Entries(Begin(f)), first)
               \/ r.status = "ok" /\ Written(Begin(f), r, f, first, last, end)
    BY WriteLeaves
  <1>4. Counted(dev.inode[f].root) => \A n \in Nat : n * BlockWords < size => \E x : Holds(list, x, n)
    BY DEF DataSafe, Covered
  <1>5. ASSUME NEW n \in Nat, n * BlockWords < end, ~(n * BlockWords < size)
        PROVE  n \in first .. last
    <2> DEFINE y == n * BlockWords
               e == end - 1
    <2>1. y \in Nat /\ e \in Nat /\ y <= e /\ start <= y
      <3>1. y \in Nat
        BY SizesAssumption
      <3> HIDE DEF y
      <3>2. y < end /\ ~(y < size)
        BY <1>5 DEF y
      <3> HIDE DEF size, end
      <3> QED
        BY <1>2, <3>1, <3>2 DEF size
    <2>2. n <= e \div BlockWords /\ e \div BlockWords \in Nat
      <3> HIDE DEF e
      <3> QED
        BY <2>1, BlockOfWord DEF y
    <2>3. first <= n
      <3>1. CASE n < first
        <4> HIDE DEF first
        <4>1. n + 1 <= first /\ n + 1 \in Nat
          BY <1>2, <3>1
        <4>2. (n + 1) * BlockWords <= start
          BY <4>1, BlockOfWord DEF first
        <4>3. (n + 1) * BlockWords = y + BlockWords
          BY SizesAssumption
        <4> HIDE DEF y
        <4> QED
          BY <2>1, <4>2, <4>3, SizesAssumption
      <3> HIDE DEF first
      <3> QED
        BY <1>2, <3>1
    <2>4. e \div BlockWords = last
      OBVIOUS
    <2> HIDE DEF first, last, e
    <2> QED
      BY <1>2, <2>2, <2>3, <2>4
  <1> HIDE DEF r, first, last, end, list, size
  <1>6. ASSUME r.status = "panic"
        PROVE  r.dev = dev
    <2>1. /\ Counted(dev.inode[f].root) /\ start > first * BlockWords
          /\ Panicked(Begin(f), r, f, list, first)
      BY <1>1, <1>3, <1>6
    <2>2. first * BlockWords < size
      <3> DEFINE y == first * BlockWords
      <3>1. y \in Nat /\ y < start /\ start <= size
        BY <1>2, <2>1, SizesAssumption DEF size
      <3> HIDE DEF y
      <3> QED
        BY <1>2, <3>1 DEF y
    <2>3. \E x : Holds(list, x, first)
      BY <1>2, <1>4, <2>1, <2>2
    <2>4. Mapping(list, first) # {}
      BY <1>1, <1>2, <2>3, MappingHolds
    <2> QED
      BY <1>1, <2>1, <2>4 DEF Panicked
  <1>7. ASSUME r.status = "ok"
        PROVE  DataSafe(WithInode(r, f))
    <2>1. Counted(dev.inode[f].root) /\ Written(Begin(f), r, f, first, last, end)
      BY <1>3, <1>7
    <2>2. /\ r \in Results /\ r.dev.inode = dev.inode
          /\ r.mem.size = IF end > size THEN end ELSE size
          /\ Extends(list, Entries(r)) /\ dev.used \subseteq r.dev.used
          /\ \A m \in first .. last : \E x : Holds(Entries(r), x, m)
          /\ OthersKept(Begin(f), r, f) /\ UseExplained(Begin(f), r)
      BY <1>1, <2>1 DEF Written, size
    <2>3. r.dev \in Devices /\ r.mem \in Inodes
      BY <2>2, ResultFields
    <2> DEFINE d == WithInode(r, f)
               J == d.inode
               B == d.block
               new == List(J[f].root, B)
    <2>4. J = [dev.inode EXCEPT ![f] = r.mem] /\ B = r.dev.block /\ d.used = r.dev.used
      BY <2>2, <2>3, WithInodeIs
    <2>5. J[f] = r.mem /\ \A g \in Files : g # f => J[g] = dev.inode[g]
      BY <1>1, <2>4
    <2>6. new = Entries(r)
      BY <2>4, <2>5 DEF Entries
    <2> HIDE DEF d
    <2>7. \A g \in Files : g # f => List(J[g].root, B) = List(dev.inode[g].root, dev.block)
      <3> TAKE g \in Files
      <3> HAVE g # f
      <3>1. J[g] = dev.inode[g] /\ g \in Files \ {f}
        BY <2>5
      <3>2. Tree(dev.inode[g].root, dev.block)
        BY Begins
      <3>3. dev.inode[g].root.depth = 1 => r.dev.block[LeafOf(dev.inode[g].root)] = dev.block[LeafOf(dev.inode[g].root)]
        BY <1>1, <2>2, <3>1 DEF OthersKept
      <3> HIDE DEF J, B
      <3>4. B = r.dev.block
        BY <2>4
      <3> QED
        BY <3>1, <3>2, <3>3, <3>4 DEF List, Tree
    <2> HIDE DEF J, B, new
    <2>8. new \in Seq(Extents) /\ Extends(list, new)
      <3>1. Stands(Begin(f), f)
        BY <2>1, Begins
      <3>2. Sound(Inodes1(r, f), r.dev.block, r.dev.used)
        BY <2>1 DEF Written
      <3>3. Inodes1(r, f)[f] = r.mem
        BY <2>2, InodesWith
      <3>4. Orderly(Entries(r), f)
        BY <3>2, <3>3 DEF Sound, TreesOK, Entries
      <3> QED
        BY <2>2, <2>6, <3>4 DEF Orderly
    <2>9. (\A x, b : Phys(list, x, b) => Phys(new, x, b)) /\ (\A x, n : Holds(list, x, n) => Holds(new, x, n))
      BY <1>1, <2>8, ExtendsPhys
    <2>10. Covered(J, B)
      <3> SUFFICES ASSUME NEW g \in Files, Counted(J[g].root), NEW n \in Nat, n * BlockWords < J[g].size
                   PROVE  \E x : Holds(List(J[g].root, B), x, n)
        BY DEF Covered
      <3>1. CASE g # f
        BY <2>5, <2>7, <3>1 DEF DataSafe, Covered
      <3>2. CASE g = f
        <4>1. n * BlockWords < J[f].size /\ J[f].size = IF end > size THEN end ELSE size
          BY <2>2, <2>5, <3>2
        <4> DEFINE y == n * BlockWords
        <4>2. y < end \/ y < size
          <5> HIDE DEF y
          <5>1. y < J[f].size
            BY <4>1 DEF y
          <5> QED
            BY <4>1, <5>1
        <4>3. CASE n * BlockWords < size
          BY <1>4, <2>1, <2>9, <3>2, <4>3 DEF new
        <4>4. CASE n * BlockWords < end /\ ~(n * BlockWords < size)
          <5>1. n \in first .. last
            BY <1>5, <4>4
          <5> QED
            BY <2>2, <2>6, <3>2, <5>1 DEF new
        <4> QED
          BY <4>2, <4>3, <4>4
      <3> QED
        BY <3>1, <3>2
    <2>11. Reclaimed(J, B, d.used)
      <3> SUFFICES ASSUME \A g \in Files : Counted(J[g].root), NEW b \in d.used \ {0}
                   PROVE  B[b].node \/ \E g \in Files : \E x : Phys(List(J[g].root, B), x, b)
        BY DEF Reclaimed
      <3>1. \A g \in Files : Counted(dev.inode[g].root)
        BY <2>1, <2>5
      <3>2. \/ b \in dev.used /\ (dev.block[b].node => B[b].node)
            \/ B[b].node
            \/ \E x : Phys(new, x, b)
        BY <1>1, <2>2, <2>4, <2>6 DEF UseExplained
      <3>3. b \in dev.used => dev.block[b].node
                              \/ \E g \in Files : \E x : Phys(List(dev.inode[g].root, dev.block), x, b)
        BY <3>1 DEF DataSafe, Reclaimed
      <3>4. ASSUME NEW g \in Files, NEW x, Phys(List(dev.inode[g].root, dev.block), x, b)
            PROVE  Phys(List(J[g].root, B), x, b)
        <4>1. CASE g # f
          BY <2>7, <3>4, <4>1
        <4>2. CASE g = f
          BY <2>9, <3>4, <4>2 DEF list, new
        <4> QED
          BY <4>1, <4>2
      <3>5. CASE \E x : Phys(new, x, b)
        BY <3>5 DEF new
      <3> QED
        BY <3>2, <3>3, <3>4, <3>5
    <2> QED
      BY <2>10, <2>11 DEF DataSafe, J, B, d
  <1> QED
    BY <1>6, <1>7 DEF r

LEMMA ShrinkCovers ==
    ASSUME SafeDev(dev), DataSafe(dev), NEW f \in Files, NEW size \in Nat, size < dev.inode[f].size,
           TruncateInode(Begin(f), size).status = "ok"
    PROVE  DataSafe(WithInode(TruncateInode(Begin(f), size), f))
  <1> DEFINE d == WithInode(TruncateInode(Begin(f), size), f)
             list == List(dev.inode[f].root, dev.block)
             last == ((size + BlockWords - 1) \div BlockWords) - 1
             r == d.inode[f].root
  <1>1. /\ SafeDev(d) /\ last \in Int /\ Counted(dev.inode[f].root)
        /\ \A g \in Files : g # f => d.inode[g] = dev.inode[g]
        /\ Trimmed(r, list, last) /\ d.inode[f].size = size
        /\ d.block = dev.block /\ d.used = dev.used \ Behind(list, last)
    BY ShrinkLeaves
  <1>2. Orderly(list, f) /\ list \in Seq(Extents) /\ dev.inode[f].size \in Nat
    <2>1. Orderly(list, f) /\ dev.inode[f] \in Inodes
      BY Begins
    <2> QED
      BY <2>1 DEF Orderly, Inodes
  <1>3. \A n \in Nat : n * BlockWords < size => n <= last /\ n * BlockWords < dev.inode[f].size
    <2> TAKE n \in Nat
    <2> HAVE n * BlockWords < size
    <2> DEFINE y == n * BlockWords
               e == size + BlockWords - 1
    <2>1. y \in Nat /\ y < size /\ e \in Nat /\ y + BlockWords <= e /\ y < dev.inode[f].size
      <3>1. y \in Nat /\ y < size
        BY SizesAssumption
      <3> HIDE DEF y
      <3> QED
        BY <1>2, <3>1, SizesAssumption
    <2>2. (n + 1) * BlockWords = y + BlockWords /\ n + 1 \in Nat
      BY SizesAssumption
    <2>3. n + 1 <= e \div BlockWords /\ e \div BlockWords \in Nat
      <3> HIDE DEF y, e
      <3>1. (n + 1) * BlockWords <= e
        BY <2>1, <2>2
      <3> QED
        BY <2>1, <2>2, <3>1, BlockOfWord
    <2>4. last = (e \div BlockWords) - 1
      OBVIOUS
    <2> HIDE DEF last, e
    <2>5. n <= last
      BY <2>3, <2>4
    <2> QED
      BY <2>1, <2>5
  <1> HIDE DEF d, list, last
  <1>4. r.depth = 0 /\ List(r, d.block) = r.entries
    BY <1>1 DEF Trimmed, List
  <1>5. /\ Counted(r) => \A j, n : Holds(list, j, n) /\ n <= last => \E x : Holds(r.entries, x, n)
        /\ Counted(r) => \A j, b : Phys(list, j, b) /\ Before(list, j, b, last) => \E x : Phys(r.entries, x, b)
    <2> HIDE DEF r
    <2> QED
      BY <1>1, <1>2, TrimmedHas
  <1>6. \A b : b \in Behind(list, last) <=> \E j : Phys(list, j, b) /\ ~Before(list, j, b, last)
    BY <1>1, <1>2, BehindIs
  <1>7. \A g \in Files : g # f => List(d.inode[g].root, d.block) = List(dev.inode[g].root, dev.block)
    BY <1>1
  <1>8. Covered(d.inode, d.block)
    <2> SUFFICES ASSUME NEW g \in Files, Counted(d.inode[g].root), NEW n \in Nat, n * BlockWords < d.inode[g].size
                 PROVE  \E x : Holds(List(d.inode[g].root, d.block), x, n)
      BY DEF Covered
    <2>1. CASE g # f
      BY <1>1, <1>7, <2>1 DEF DataSafe, Covered
    <2>2. CASE g = f
      <3>1. n * BlockWords < size /\ Counted(r)
        BY <1>1, <2>2
      <3>2. n <= last /\ n * BlockWords < dev.inode[f].size
        BY <1>3, <3>1
      <3>3. \E j : Holds(list, j, n)
        BY <1>1, <3>2 DEF DataSafe, Covered, list
      <3>4. \E x : Holds(r.entries, x, n)
        BY <1>5, <3>1, <3>2, <3>3
      <3> QED
        BY <1>4, <2>2, <3>4
    <2> QED
      BY <2>1, <2>2
  <1>9. Reclaimed(d.inode, d.block, d.used)
    <2> SUFFICES ASSUME \A g \in Files : Counted(d.inode[g].root), NEW b \in d.used \ {0}
                 PROVE  d.block[b].node \/ \E g \in Files : \E x : Phys(List(d.inode[g].root, d.block), x, b)
      BY DEF Reclaimed
    <2>1. \A g \in Files : Counted(dev.inode[g].root)
      BY <1>1
    <2>2. b \in dev.used \ {0} /\ b \notin Behind(list, last)
      BY <1>1
    <2>3. dev.block[b].node \/ \E g \in Files : \E x : Phys(List(dev.inode[g].root, dev.block), x, b)
      BY <2>1, <2>2 DEF DataSafe, Reclaimed
    <2>4. CASE dev.block[b].node
      BY <1>1, <2>4
    <2>5. ASSUME NEW g \in Files, NEW x, Phys(List(dev.inode[g].root, dev.block), x, b)
          PROVE  \E k \in Files : \E y : Phys(List(d.inode[k].root, d.block), y, b)
      <3>1. CASE g # f
        BY <1>7, <2>5, <3>1
      <3>2. CASE g = f
        <4>1. Phys(list, x, b)
          BY <2>5, <3>2 DEF list
        <4>2. Before(list, x, b, last)
          BY <1>6, <2>2, <4>1
        <4>3. Counted(r)
          OBVIOUS
        <4>4. \E y : Phys(r.entries, y, b)
          BY <1>5, <4>1, <4>2, <4>3
        <4> QED
          BY <1>4, <4>4
      <3> QED
        BY <3>1, <3>2
    <2> QED
      BY <2>3, <2>4, <2>5
  <1> QED
    BY <1>8, <1>9 DEF DataSafe, d

\* With what the files map, and what is in use.
DataInv == Inv /\ DataSafe(dev)

LEMMA InitData ==
    Init => DataInv
  <1> SUFFICES ASSUME Init PROVE DataInv
    OBVIOUS
  <1>1. Inv /\ SafeDev(dev)
    BY InitInv DEF Inv
  <1>2. dev.used = {0} /\ dev.inode = [f \in Files |-> [size |-> 0, root |-> EmptyRoot]]
    BY DEF Init
  <1>3. \A f \in Files : dev.inode[f].size = 0
    BY <1>2
  <1>4. \A n \in Nat : ~(n * BlockWords < 0)
    <2> TAKE n \in Nat
    <2>1. n * BlockWords \in Nat
      BY SizesAssumption
    <2> QED
      BY <2>1
  <1>5. Covered(dev.inode, dev.block)
    BY <1>3, <1>4 DEF Covered
  <1>6. Reclaimed(dev.inode, dev.block, dev.used)
    BY <1>2 DEF Reclaimed
  <1> QED
    BY <1>1, <1>5, <1>6 DEF DataInv, DataSafe

LEMMA WriteData ==
    ASSUME NoSplit, DataInv, NEW p \in Paths, NEW n \in Nat \ {0}, NEW start \in Nat,
           start + n <= MaxSize[InodeOf[p]], start <= dev.inode[InodeOf[p]].size, Write(p, start, n)
    PROVE  DataSafe(dev)'
  <1> DEFINE f == InodeOf[p]
             w == [i \in 1 .. n |-> Word(f, start + i - 1)]
             s == WriteFileAt(Begin(f), start, w)
  <1>1. f \in Files
    BY PathsAssumption
  <1>2. SafeDev(dev) /\ DataSafe(dev)
    BY DEF DataInv, Inv
  <1>3. \/ s.status = "ok" /\ dev' = WithInode(s, f)
        \/ dev' = dev
        \/ s.status = "panic" /\ dev' = s.dev
    BY Zenon DEF Write
  <1>4. start + n <= MaxSize[f] /\ start <= dev.inode[f].size
    OBVIOUS
  <1> HIDE DEF f
  <1>5. w \in Seq(Words) /\ w # <<>> /\ Len(w) = n
    BY <1>1, <1>4, BufferTyped
  <1> HIDE DEF w
  <1>6. (s.status = "ok" => DataSafe(WithInode(s, f))) /\ (s.status = "panic" => s.dev = dev)
    BY <1>1, <1>2, <1>4, <1>5, WriteCovers
  <1> HIDE DEF s
  <1> QED
    BY <1>2, <1>3, <1>6

LEMMA GrowData ==
    ASSUME NoSplit, DataInv, NEW p \in Paths, NEW size \in 0 .. MaxSize[InodeOf[p]], Grow(p, size)
    PROVE  DataSafe(dev)'
  <1> DEFINE f == InodeOf[p]
             old == dev.inode[f].size
             w == [i \in 1 .. size - old |-> Zero]
             s == WriteFileAt(Begin(f), old, w)
  <1>1. f \in Files
    BY PathsAssumption
  <1>2. SafeDev(dev) /\ DataSafe(dev)
    BY DEF DataInv, Inv
  <1>3. \/ s.status = "ok" /\ dev' = WithInode(s, f)
        \/ s.status = "panic" /\ dev' = s.dev
    BY Zenon DEF Grow
  <1>4. size > old /\ size \in 0 .. MaxSize[f]
    BY DEF Grow
  <1> HIDE DEF f
  <1>5. old \in Nat /\ MaxSize[f] \in Nat /\ old <= dev.inode[f].size
    <2>1. dev.inode[f] \in Inodes
      BY <1>1, <1>2, Begins
    <2> QED
      BY <1>1, <2>1, BoundsAssumption DEF Inodes
  <1> HIDE DEF old
  <1>6. size - old \in Nat \ {0} /\ old + (size - old) = size
    BY <1>4, <1>5
  <1>7. w \in Seq(Words) /\ w # <<>> /\ Len(w) = size - old
    BY <1>6, ZerosTyped
  <1> HIDE DEF w
  <1>8. old + Len(w) <= MaxSize[f]
    BY <1>4, <1>5, <1>6, <1>7
  <1>9. (s.status = "ok" => DataSafe(WithInode(s, f))) /\ (s.status = "panic" => s.dev = dev)
    BY <1>1, <1>2, <1>5, <1>7, <1>8, WriteCovers
  <1> HIDE DEF s
  <1> QED
    BY <1>2, <1>3, <1>9

LEMMA ShrinkData ==
    ASSUME DataInv, NEW p \in Paths, NEW size \in 0 .. MaxSize[InodeOf[p]], Shrink(p, size)
    PROVE  DataSafe(dev)'
  <1> DEFINE f == InodeOf[p]
             t == TruncateInode(Begin(f), size)
  <1>1. f \in Files
    BY PathsAssumption
  <1>2. SafeDev(dev) /\ DataSafe(dev)
    BY DEF DataInv, Inv
  <1>3. t.status = "ok" /\ dev' = WithInode(t, f) /\ size < dev.inode[f].size
    BY DEF Shrink
  <1>4. size \in Nat
    BY <1>1, BoundsAssumption
  <1> HIDE DEF f
  <1>5. DataSafe(WithInode(t, f))
    BY <1>1, <1>2, <1>3, <1>4, ShrinkCovers
  <1> QED
    BY <1>3, <1>5

LEMMA NextData ==
    NoSplit /\ ~Sparse /\ DataInv /\ [Next]_vars => DataInv'
  <1> SUFFICES ASSUME NoSplit, ~Sparse, DataInv, [Next]_vars PROVE DataSafe(dev)'
    BY NextInv DEF DataInv
  <1>1. DataSafe(dev)
    BY DEF DataInv
  <1>2. ASSUME NEW p \in Paths, NEW n \in 1 .. MaxBuf, NEW start \in 0 .. MaxSize[InodeOf[p]] - n,
               Sparse \/ start <= dev.inode[InodeOf[p]].size, Write(p, start, n)
        PROVE  DataSafe(dev)'
    <2> DEFINE m == MaxSize[InodeOf[p]]
    <2>1. m \in Nat /\ MaxBuf \in Nat
      BY PathsAssumption, BoundsAssumption
    <2>2. start \in 0 .. m - n
      OBVIOUS
    <2>3. start <= dev.inode[InodeOf[p]].size
      BY <1>2, Zenon
    <2> HIDE DEF m
    <2>4. n \in Nat \ {0} /\ start \in Nat /\ start + n <= m
      BY <2>1, <2>2
    <2> QED
      BY <1>2, <2>3, <2>4, WriteData DEF m
  <1>3. ASSUME NEW p \in Paths, NEW size \in 0 .. MaxSize[InodeOf[p]], Grow(p, size)
        PROVE  DataSafe(dev)'
    BY <1>3, GrowData
  <1>4. ASSUME NEW p \in Paths, NEW size \in 0 .. MaxSize[InodeOf[p]], Shrink(p, size)
        PROVE  DataSafe(dev)'
    BY <1>4, ShrinkData
  <1>5. CASE UNCHANGED dev
    BY <1>1, <1>5
  <1>6. \A p \in Paths : Open(p) \/ Release(p) => UNCHANGED dev
    BY DEF Open, Release
  <1>7. Remount \/ UNCHANGED vars => UNCHANGED dev
    BY DEF Remount, vars
  <1> QED
    BY <1>2, <1>3, <1>4, <1>5, <1>6, <1>7, Zenon DEF Next

LEMMA InvDataReclaimed ==
    DataInv => DataReclaimed
  <1> SUFFICES ASSUME DataInv, \A f \in Files : ReadExtents(dev, dev.inode[f]).ok, NEW b \in dev.used \ {0}
               PROVE  dev.block[b].node \/ \E f \in Files : b \in Range(Reached(f))
    BY DEF DataReclaimed
  <1>1. SafeDev(dev) /\ DataSafe(dev)
    BY DEF DataInv, Inv
  <1>2. ASSUME NEW f \in Files
        PROVE  Counted(dev.inode[f].root)
    <2>1. /\ dev.inode[f] \in Inodes /\ Tree(dev.inode[f].root, dev.block)
          /\ dev.block \in [Blocks -> DeviceBlocks]
      BY <1>1, Begins
    <2> DEFINE x == ReadExtents(dev, dev.inode[f])
    <2>2. x.ok
      OBVIOUS
    <2> HIDE DEF x
    <2>3. x.ok <=> Counted(dev.inode[f].root)
      BY <2>1, ReadExtentsIs DEF x, Inodes
    <2> QED
      BY <2>2, <2>3, Zenon
  <1>3. dev.block[b].node \/ \E f \in Files : \E x : Phys(List(dev.inode[f].root, dev.block), x, b)
    BY <1>1, <1>2 DEF DataSafe, Reclaimed
  <1>4. ASSUME NEW f \in Files, NEW x, Phys(List(dev.inode[f].root, dev.block), x, b)
        PROVE  b \in Range(Reached(f))
    <2>1. Has(dev.inode[f].root, dev.block, x, b)
      BY <1>4 DEF Has
    <2>2. \E z \in DOMAIN Reached(f) : Reached(f)[z] = b
      BY <1>1, <2>1, ReachedIs
    <2> QED
      BY <2>2 DEF Range
  <1> QED
    BY <1>3, <1>4, Zenon

\* As long as nobody writes beyond the end of a file, every block in use is a
\* file's or a node: Truncate gives back what it cuts off, and the panic of a write
\* that starts inside a block leaves no block behind that no file has.
THEOREM DataReclaimedCorrect ==
    ASSUME NoSplit, ~Sparse
    PROVE  Spec => []DataReclaimed
  <1>1. Init => DataInv
    BY InitData
  <1>2. DataInv /\ [Next]_vars => DataInv'
    BY NextData
  <1>3. DataInv => DataReclaimed
    BY InvDataReclaimed
  <1> QED
    BY <1>1, <1>2, <1>3, PTL DEF Spec

-----------------------------------------------------------------------------
(* Reading *)

\* No logical block is in two entries.
Single(l) == \A x, y, n : Holds(l, x, n) /\ Holds(l, y, n) => x = y

\* Entry by entry, from the start of the file on.
Consecutive(l) ==
    /\ 1 \in DOMAIN l => l[1].block = 0
    /\ \A x \in DOMAIN l : x # 1 => l[x].block = l[x - 1].block + l[x - 1].len

LEMMA EntryTyped ==
    ASSUME NEW l \in Seq(Extents), NEW x \in DOMAIN l
    PROVE  /\ x \in Nat /\ x >= 1 /\ l[x].block \in Nat /\ l[x].len \in Nat \ {0} /\ l[x].start \in Nat
           /\ Holds(l, x, l[x].block)
  <1>1. l[x] \in Extents /\ DOMAIN l = 1 .. Len(l) /\ Len(l) \in Nat
    OBVIOUS
  <1>2. l[x].block \in Nat /\ l[x].len \in Nat \ {0} /\ l[x].start \in Nat
    BY <1>1, ExtentsTyped
  <1> QED
    BY <1>1, <1>2 DEF Holds

\* If all blocks before one that is held are held too, the entries follow each other.
LEMMA ReadyConsecutive ==
    ASSUME NEW l \in Seq(Extents), Ascending(l), Dense(l), Single(l)
    PROVE  Consecutive(l)
  <1>1. 1 \in DOMAIN l => l[1].block = 0
    <2> SUFFICES ASSUME 1 \in DOMAIN l PROVE l[1].block = 0
      OBVIOUS
    <2>1. l[1].block \in Nat /\ Holds(l, 1, l[1].block)
      BY EntryTyped
    <2>2. 0 \in 0 .. l[1].block
      BY <2>1
    <2>3. PICK y : Holds(l, y, 0)
      BY <2>1, <2>2 DEF Dense
    <2>4. y \in DOMAIN l /\ l[y].block \in Nat /\ l[y].block <= 0 /\ y \in Nat /\ y >= 1
      BY <2>3, HeldTyped, EntryTyped DEF Holds
    <2>5. y > 1 => l[1].block < l[y].block
      BY <2>4 DEF Ascending
    <2> QED
      BY <2>1, <2>4, <2>5
  <1>2. ASSUME NEW z \in DOMAIN l, z # 1
        PROVE  l[z].block = l[z - 1].block + l[z - 1].len
    <2> DEFINE x == z - 1
    <2>1. z \in Nat /\ x \in DOMAIN l /\ x \in Nat /\ x < z /\ \A y \in Nat : y > x => y = z \/ y > z
      BY <1>2
    <2> HIDE DEF x
    <2> DEFINE b == l[x].block
               n == l[x].len
               c == l[z].block
    <2>2. b \in Nat /\ n \in Nat \ {0} /\ Holds(l, x, b)
      BY <2>1, EntryTyped
    <2>3. c \in Nat /\ Holds(l, z, c)
      BY <1>2, EntryTyped
    <2>4. b < c
      BY <1>2, <2>1 DEF Ascending
    <2> HIDE DEF b, n, c
    <2>5. c >= b + n
      <3>1. c < b + n => Holds(l, x, c)
        <4>1. c < b + n => c \in b .. b + n - 1
          BY <2>2, <2>3, <2>4
        <4> QED
          BY <2>1, <4>1 DEF Holds, b, n
      <3>2. ~Holds(l, x, c)
        BY <2>1, <2>3 DEF Single
      <3> QED
        BY <2>2, <2>3, <3>1, <3>2
    <2>6. ~(c > b + n)
      <3> SUFFICES ASSUME c > b + n PROVE FALSE
        OBVIOUS
      <3> DEFINE e == b + n
      <3>1. e \in 0 .. c /\ e \in Nat /\ ~(e \in b .. b + n - 1)
        BY <2>2, <2>3
      <3> HIDE DEF e
      <3>2. PICK y : Holds(l, y, e)
        BY <2>3, <3>1 DEF Dense
      <3>3. y \in DOMAIN l /\ y \in Nat /\ l[y].block \in Nat /\ l[y].len \in Nat /\ l[y].block <= e
            /\ e <= l[y].block + l[y].len - 1
        BY <3>2, HeldTyped, EntryTyped DEF Holds
      <3>4. y # x
        BY <3>1, <3>2 DEF Holds, b, n
      <3>5. CASE y > x
        <4>1. l[y].block >= c
          <5>1. y = z \/ y > z
            BY <2>1, <3>3, <3>5
          <5>2. y > z => l[z].block < l[y].block
            BY <2>1, <3>3 DEF Ascending
          <5> QED
            BY <2>3, <3>3, <5>1, <5>2 DEF c
        <4> QED
          BY <2>3, <3>1, <3>3, <4>1 DEF e
      <3>6. CASE y < x
        <4>1. l[y].block < b
          BY <2>1, <3>3, <3>6 DEF Ascending, b
        <4>2. b \in l[y].block .. l[y].block + l[y].len - 1
          <5>1. b <= e
            BY <2>2 DEF e
          <5> QED
            BY <2>2, <3>1, <3>3, <4>1, <5>1
        <4>3. Holds(l, y, b)
          BY <3>3, <4>2 DEF Holds
        <4> QED
          BY <2>2, <3>4, <4>3 DEF Single
      <3> QED
        BY <2>1, <3>3, <3>4, <3>5, <3>6
    <2>7. c = b + n
      BY <2>2, <2>3, <2>5, <2>6
    <2> QED
      BY <2>7 DEF b, n, c, x
  <1> QED
    BY <1>1, <1>2 DEF Consecutive

\* F is the recursive function of FlattenSeq.
Flattening(F, seqs) == F = [i \in 1 .. Len(seqs) |-> IF i = 1 THEN seqs[i] ELSE F[i - 1] \o seqs[i]]

LEMMA FlatteningExists ==
    ASSUME NEW S, NEW seqs \in Seq(Seq(S)), Len(seqs) # 0
    PROVE  \E F : Flattening(F, seqs) /\ F \in [1 .. Len(seqs) -> Seq(S)]
  <1> DEFINE n == Len(seqs)
             Q == Seq(S)
             V(i, a) == IF i = 1 THEN seqs[i] ELSE a \o seqs[i]
             h == [x \in (1 .. n) \X Q |-> V(x[1], x[2])]
  <1>1. n \in Nat /\ n >= 1 /\ <<>> \in Q
    OBVIOUS
  <1>2. IsStep(h, n, Q)
    <2>1. \A x \in (1 .. n) \X Q : V(x[1], x[2]) \in Q
      <3> SUFFICES ASSUME NEW i \in 1 .. n, NEW a \in Q PROVE V(i, a) \in Q
        OBVIOUS
      <3>1. seqs[i] \in Seq(S)
        OBVIOUS
      <3>2. a \o seqs[i] \in Seq(S)
        BY <3>1
      <3> QED
        BY <3>1, <3>2
    <2> HIDE DEF V, Q, n
    <2> QED
      BY <2>1 DEF IsStep
  <1> HIDE DEF h
  <1>3. PICK T : Recursion(T, n, Q, <<>>, h)
    <2> HIDE DEF n, Q
    <2> QED
      BY <1>1, <1>2, RecursionExists
  <1>4. T \in [0 .. n -> Q] /\ \A i \in 1 .. n : T[i] = h[<<i, T[i - 1]>>]
    BY <1>3 DEF Recursion
  <1>5. \A i \in 1 .. n : T[i] = V(i, T[i - 1])
    <2> TAKE i \in 1 .. n
    <2> DEFINE x == <<i, T[i - 1]>>
    <2>1. i - 1 \in 0 .. n
      BY <1>1
    <2> HIDE DEF n, Q
    <2>2. x \in (1 .. n) \X Q /\ x[1] = i /\ x[2] = T[i - 1]
      BY <1>4, <2>1
    <2> HIDE DEF x, V
    <2>3. h[x] = V(i, T[i - 1])
      BY <2>2 DEF h
    <2> QED
      BY <1>4, <2>3 DEF x
  <1> DEFINE F == [i \in 1 .. n |-> T[i]]
  <1>6. F \in [1 .. n -> Q]
    <2>1. \A i \in 1 .. n : i \in 0 .. n
      BY <1>1
    <2> HIDE DEF n, Q
    <2> QED
      BY <1>4, <2>1
  <1>7. \A i \in 1 .. n : F[i] = IF i = 1 THEN seqs[i] ELSE F[i - 1] \o seqs[i]
    <2> TAKE i \in 1 .. n
    <2>1. i # 1 => i - 1 \in 1 .. n
      BY <1>1
    <2> HIDE DEF n
    <2> QED
      BY <1>5, <2>1
  <1>8. F = [i \in 1 .. n |-> F[i]]
    OBVIOUS
  <1> HIDE DEF F, n
  <1>9. F = [i \in 1 .. n |-> IF i = 1 THEN seqs[i] ELSE F[i - 1] \o seqs[i]]
    BY <1>7, <1>8
  <1> QED
    BY <1>6, <1>9 DEF Flattening, n

LEMMA FlattenIs ==
    ASSUME NEW S, NEW seqs \in Seq(Seq(S)), Len(seqs) # 0
    PROVE  \E F : Flattening(F, seqs) /\ FlattenSeq(seqs) = F[Len(seqs)]
  <1> DEFINE F == CHOOSE F : Flattening(F, seqs)
  <1>1. FlattenSeq(seqs) = F[Len(seqs)]
    BY Zenon DEF FlattenSeq, Flattening
  <1>2. \E G : Flattening(G, seqs)
    BY FlatteningExists
  <1>3. Flattening(F, seqs)
    BY <1>2, Zenon
  <1> HIDE DEF F
  <1> QED
    BY <1>1, <1>3

\* The blocks of one extent.
Run(e) == [k \in 1 .. e.len |-> e.start + k - 1]

\* Up to entry i, q has the blocks of list l, each at its place in the file.
InPlace(q, l, i) ==
    /\ q \in Seq(Nat) /\ Len(q) = l[i].block + l[i].len
    /\ \A x \in 1 .. i : \A m : Holds(l, x, m) => m + 1 \in 1 .. Len(q) /\ q[m + 1] = At(l, x, m)

LEMMA RunIs ==
    ASSUME NEW e, e.len \in Nat, e.start \in Nat
    PROVE  Run(e) \in Seq(Nat) /\ Len(Run(e)) = e.len /\ \A k \in 1 .. e.len : Run(e)[k] = e.start + k - 1
  <1>1. \A k \in 1 .. e.len : e.start + k - 1 \in Nat
    OBVIOUS
  <1> QED
    BY <1>1 DEF Run

\* The block of entry i with logical number m, behind the first a blocks.
LEMMA PlaceInRun ==
    ASSUME NEW a \in Nat, NEW n \in Nat, NEW c \in Nat, NEW m \in a .. a + n - 1
    PROVE  /\ m + 1 \in 1 .. a + n /\ ~(m + 1 <= a) /\ (m + 1) - a \in 1 .. n
           /\ c + ((m + 1) - a) - 1 = c + (m - a)
  <1>1. m \in Int /\ a <= m /\ m <= a + n - 1
    OBVIOUS
  <1> QED
    BY <1>1

\* q is p with r behind it.
Joined(q, p, r) ==
    /\ q \in Seq(Nat) /\ Len(q) = Len(p) + Len(r)
    /\ \A k \in 1 .. Len(p) : q[k] = p[k]
    /\ \A k \in 1 .. Len(p) + Len(r) : ~(k <= Len(p)) => q[k] = r[k - Len(p)]

LEMMA ConcatIs ==
    ASSUME NEW p \in Seq(Nat), NEW r \in Seq(Nat)
    PROVE  Joined(p \o r, p, r)
  BY DEF Joined

LEMMA InPlaceFirst ==
    ASSUME NEW l \in Seq(Extents), Consecutive(l), 1 \in DOMAIN l
    PROVE  InPlace(Run(l[1]), l, 1)
  <1> DEFINE e == l[1]
             q == Run(e)
  <1>1. e.block = 0 /\ e.len \in Nat /\ e.start \in Nat
    BY EntryTyped DEF Consecutive
  <1>2. q \in Seq(Nat) /\ Len(q) = e.len /\ \A k \in 1 .. e.len : q[k] = e.start + k - 1
    BY <1>1, RunIs
  <1> HIDE DEF q
  <1>3. Len(q) = l[1].block + l[1].len
    BY <1>1, <1>2
  <1>4. ASSUME NEW m, Holds(l, 1, m)
        PROVE  m + 1 \in 1 .. Len(q) /\ q[m + 1] = At(l, 1, m)
    <2>1. m \in 0 .. 0 + e.len - 1
      BY <1>1, <1>4 DEF Holds
    <2>2. m + 1 \in 1 .. 0 + e.len /\ (m + 1) - 0 \in 1 .. e.len /\ e.start + ((m + 1) - 0) - 1 = e.start + (m - 0)
          /\ m \in Nat
      BY <1>1, <2>1, PlaceInRun
    <2>3. m + 1 \in 1 .. e.len /\ e.start + (m + 1) - 1 = e.start + (m - e.block)
      BY <1>1, <2>2
    <2> QED
      BY <1>2, <2>3 DEF At
  <1>5. \A x \in 1 .. 1 : x = 1
    OBVIOUS
  <1> QED
    BY <1>2, <1>3, <1>4, <1>5 DEF InPlace, q

LEMMA InPlaceNext ==
    ASSUME NEW l \in Seq(Extents), Consecutive(l), NEW i \in DOMAIN l, i # 1, NEW p, InPlace(p, l, i - 1)
    PROVE  InPlace(p \o Run(l[i]), l, i)
  <1> DEFINE e == l[i]
             r == Run(e)
             q == p \o r
  <1>1. /\ e.block \in Nat /\ e.len \in Nat /\ e.start \in Nat /\ i \in Nat /\ i >= 1
        /\ e.block = l[i - 1].block + l[i - 1].len
    BY EntryTyped DEF Consecutive
  <1>2. r \in Seq(Nat) /\ Len(r) = e.len /\ \A k \in 1 .. e.len : r[k] = e.start + k - 1
    BY <1>1, RunIs
  <1>3. p \in Seq(Nat) /\ Len(p) = e.block
    BY <1>1 DEF InPlace
  <1> HIDE DEF r
  <1>4. /\ q \in Seq(Nat) /\ Len(q) = e.block + e.len
        /\ \A k \in 1 .. e.block : q[k] = p[k]
        /\ \A k \in 1 .. e.block + e.len : ~(k <= e.block) => q[k] = r[k - e.block]
    <2>1. Joined(q, p, r)
      BY <1>2, <1>3, ConcatIs
    <2> HIDE DEF q
    <2> QED
      BY <1>2, <1>3, <2>1 DEF Joined
  <1> HIDE DEF q
  <1>5. ASSUME NEW x \in 1 .. i, NEW m, Holds(l, x, m)
        PROVE  m + 1 \in 1 .. Len(q) /\ q[m + 1] = At(l, x, m)
    <2>1. CASE x = i
      <3>1. m \in e.block .. e.block + e.len - 1
        BY <1>5, <2>1 DEF Holds
      <3>2. /\ m + 1 \in 1 .. e.block + e.len /\ ~(m + 1 <= e.block) /\ (m + 1) - e.block \in 1 .. e.len
            /\ e.start + ((m + 1) - e.block) - 1 = e.start + (m - e.block)
        BY <1>1, <3>1, PlaceInRun
      <3>3. q[m + 1] = r[(m + 1) - e.block]
        BY <1>4, <3>2
      <3>4. r[(m + 1) - e.block] = e.start + ((m + 1) - e.block) - 1
        BY <1>2, <3>2
      <3> QED
        BY <1>4, <2>1, <3>2, <3>3, <3>4 DEF At
    <2>2. CASE x # i
      <3>1. x \in 1 .. i - 1
        BY <1>1, <2>2
      <3>2. m + 1 \in 1 .. Len(p) /\ p[m + 1] = At(l, x, m)
        BY <1>5, <3>1 DEF InPlace
      <3>3. m + 1 \in 1 .. Len(q)
        BY <1>1, <1>3, <1>4, <3>2
      <3> QED
        BY <1>3, <1>4, <3>2, <3>3
    <2> QED
      BY <2>1, <2>2
  <1> QED
    BY <1>4, <1>5 DEF InPlace, q, r

\* Physical has each block of a file where ReadFileAt looks for it.
LEMMA PhysicalIs ==
    ASSUME NEW l \in Seq(Extents), Consecutive(l), NEW x, NEW m, Holds(l, x, m)
    PROVE  m + 1 \in 1 .. Len(Physical(l)) /\ Physical(l)[m + 1] = At(l, x, m)
  <1> DEFINE n == Len(l)
             seqs == [i \in DOMAIN l |-> [k \in 1 .. l[i].len |-> l[i].start + k - 1]]
  <1>1. n \in Nat /\ DOMAIN l = 1 .. n /\ x \in 1 .. n /\ n >= 1
    BY HeldTyped
  <1>2. \A i \in DOMAIN l : seqs[i] = Run(l[i]) /\ Run(l[i]) \in Seq(Nat)
    <2> TAKE i \in DOMAIN l
    <2>1. l[i].len \in Nat /\ l[i].start \in Nat
      BY EntryTyped
    <2>2. Run(l[i]) \in Seq(Nat)
      BY <2>1, RunIs
    <2> QED
      BY <2>2 DEF Run
  <1>3. Physical(l) = FlattenSeq(seqs)
    BY Zenon DEF Physical
  <1> HIDE DEF n
  <1>4. seqs \in Seq(Seq(Nat)) /\ Len(seqs) = n
    <2>1. seqs = [i \in 1 .. n |-> seqs[i]]
      BY <1>1
    <2> HIDE DEF seqs
    <2> DEFINE Q == Seq(Nat)
    <2>2. \A i \in 1 .. n : seqs[i] \in Q
      BY <1>1, <1>2
    <2> HIDE DEF Q
    <2>3. seqs \in [1 .. n -> Q]
      BY <2>1, <2>2
    <2>4. seqs \in Seq(Q) /\ Len(seqs) = n
      BY <1>1, <2>3
    <2> QED
      BY <2>4 DEF Q
  <1> HIDE DEF seqs
  <1>5. PICK F : Flattening(F, seqs) /\ FlattenSeq(seqs) = F[n]
    <2>1. n # 0
      BY <1>1
    <2> QED
      BY <1>4, <2>1, FlattenIs
  <1>6. \A i \in 1 .. n : F[i] = IF i = 1 THEN seqs[i] ELSE F[i - 1] \o seqs[i]
    <2>1. F = [i \in 1 .. n |-> IF i = 1 THEN seqs[i] ELSE F[i - 1] \o seqs[i]]
      BY <1>4, <1>5, Zenon DEF Flattening
    <2> DEFINE V(i) == IF i = 1 THEN seqs[i] ELSE F[i - 1] \o seqs[i]
    <2>2. F = [i \in 1 .. n |-> V(i)]
      BY <2>1
    <2> HIDE DEF V
    <2>3. \A i \in 1 .. n : F[i] = V(i)
      BY <2>2
    <2> QED
      BY <2>3 DEF V
  <1> DEFINE Bad == {i \in 1 .. n : ~InPlace(F[i], l, i)}
  <1>7. Bad = {}
    <2>1. SUFFICES ASSUME Bad # {} PROVE FALSE
      OBVIOUS
    <2>2. Bad \in SUBSET Nat
      OBVIOUS
    <2> HIDE DEF Bad
    <2>3. PICK i \in Bad : \A j \in Bad : i <= j
      BY <2>1, <2>2, SmallestExists
    <2>4. i \in 1 .. n /\ ~InPlace(F[i], l, i) /\ seqs[i] = Run(l[i])
      BY <1>1, <1>2, <2>3 DEF Bad
    <2>5. CASE i = 1
      <3>1. F[1] = Run(l[1])
        BY <1>6, <2>4, <2>5
      <3> QED
        BY <1>1, <2>4, <2>5, <3>1, InPlaceFirst
    <2>6. CASE i # 1
      <3>1. i - 1 \in 1 .. n /\ i - 1 < i /\ i \in Nat
        BY <1>1, <2>4, <2>6
      <3>2. i - 1 \notin Bad
        BY <2>3, <3>1
      <3>3. InPlace(F[i - 1], l, i - 1)
        BY <3>1, <3>2 DEF Bad
      <3>4. F[i] = F[i - 1] \o Run(l[i])
        BY <1>6, <2>4, <2>6
      <3> QED
        BY <1>1, <2>4, <2>6, <3>3, <3>4, InPlaceNext
    <2> QED
      BY <2>5, <2>6
  <1>8. InPlace(F[n], l, n)
    BY <1>1, <1>7
  <1> QED
    BY <1>1, <1>3, <1>5, <1>8 DEF InPlace

\* List l has exactly the blocks of a file of that many words, in their order.
Shape(l, size) ==
    Ascending(l) /\ \A m \in Nat : (\E x : Holds(l, x, m)) <=> m * BlockWords < size

\* On the blocks B, the blocks of l hold the words c.
Carries(l, B, c) ==
    \A x, m : \A j \in 1 .. BlockWords :
        Holds(l, x, m) /\ m * BlockWords + j \in DOMAIN c => B[At(l, x, m)].words[j] = c[m * BlockWords + j]

LEMMA ShapeDense ==
    ASSUME NEW l \in Seq(Extents), NEW size \in Nat, Shape(l, size)
    PROVE  Dense(l)
  <1> SUFFICES ASSUME NEW x, NEW m, Holds(l, x, m), NEW k \in 0 .. m PROVE \E y : Holds(l, y, k)
    BY DEF Dense
  <1>1. m \in Nat
    BY HeldTyped
  <1>2. k \in Nat /\ k <= m
    BY <1>1
  <1>3. m * BlockWords < size
    BY <1>1 DEF Shape
  <1>4. k * BlockWords <= m * BlockWords /\ k * BlockWords \in Nat /\ m * BlockWords \in Nat
    BY <1>1, <1>2, SizesAssumption, TimesMonotone
  <1> DEFINE a == k * BlockWords
             b == m * BlockWords
  <1> HIDE DEF a, b
  <1>5. a < size
    <2>1. a <= b /\ b < size /\ a \in Nat /\ b \in Nat
      BY <1>3, <1>4 DEF a, b
    <2> QED
      BY <2>1
  <1> QED
    BY <1>2, <1>5 DEF Shape, a

LEMMA DivMod ==
    ASSUME NEW y \in Nat, NEW k \in Nat \ {0}
    PROVE  /\ y \div k \in Nat /\ y % k \in 0 .. k - 1
           /\ y = (y \div k) * k + (y % k)
  <1>1. y \div k \in Nat /\ y % k \in 0 .. k - 1
    OBVIOUS
  <1>2. y = k * (y \div k) + (y % k)
    OBVIOUS
  <1> QED
    BY <1>1, <1>2

\* The block and the place in it that ReadFileAt takes word i from.
LEMMA WordPlace ==
    ASSUME NEW i \in Nat \ {0}
    PROVE  LET m == (i - 1) \div BlockWords
               j == ((i - 1) % BlockWords) + 1
           IN  m \in Nat /\ j \in 1 .. BlockWords /\ m * BlockWords + j = i /\ m * BlockWords \in Nat /\ m * BlockWords < i
  <1> DEFINE y == i - 1
             k == BlockWords
             q == y \div k
             r == y % k
  <1>1. y \in Nat /\ k \in Nat \ {0} /\ i = y + 1
    BY SizesAssumption
  <1> HIDE DEF y, k
  <1>2. q \in Nat /\ r \in 0 .. k - 1 /\ y = q * k + r
    BY <1>1, DivMod
  <1> HIDE DEF q, r
  <1> DEFINE p == q * k
  <1>3. p \in Nat
    BY <1>1, <1>2
  <1>4. y = p + r
    BY <1>2
  <1> HIDE DEF p
  <1>5. r + 1 \in 1 .. k /\ p + (r + 1) = i /\ p < i
    BY <1>1, <1>2, <1>3, <1>4
  <1> QED
    BY <1>2, <1>3, <1>5 DEF p, q, r, y, k

LEMMA ReadsContent ==
    ASSUME NEW d, NEW l \in Seq(Extents), Single(l), NEW size \in Nat, Shape(l, size),
           NEW c \in Seq(Words), size <= Len(c), Carries(l, d.block, c)
    PROVE  ReadFileAt(d, l, size) = [i \in 1 .. size |-> c[i]]
  <1> DEFINE blocks == Physical(l)
             At1(i) == ((i - 1) \div BlockWords) + 1
             V(i) == IF At1(i) > Len(blocks) THEN Zero
                     ELSE d.block[blocks[At1(i)]].words[((i - 1) % BlockWords) + 1]
  <1>1. ReadFileAt(d, l, size) = [i \in 1 .. size |-> V(i)]
    BY Zenon DEF ReadFileAt
  <1>2. Consecutive(l)
    BY ShapeDense, ReadyConsecutive DEF Shape
  <1>3. ASSUME NEW i \in 1 .. size
        PROVE  V(i) = c[i]
    <2> DEFINE m == (i - 1) \div BlockWords
               j == ((i - 1) % BlockWords) + 1
    <2>0. i \in Nat \ {0}
      OBVIOUS
    <2>1. m \in Nat /\ j \in 1 .. BlockWords /\ m * BlockWords + j = i /\ m * BlockWords \in Nat /\ m * BlockWords < i
      BY <2>0, WordPlace
    <2>2. At1(i) = m + 1
      OBVIOUS
    <2>3. V(i) = IF m + 1 > Len(blocks) THEN Zero ELSE d.block[blocks[m + 1]].words[j]
      OBVIOUS
    <2> HIDE DEF m, j, V, blocks, At1
    <2>4. m * BlockWords < size
      <3> DEFINE a == m * BlockWords
      <3>1. a \in Nat /\ a < i
        BY <2>1
      <3> HIDE DEF a
      <3>2. a < size
        BY <3>1
      <3> QED
        BY <3>2 DEF a
    <2>5. PICK x : Holds(l, x, m)
      BY <2>1, <2>4 DEF Shape
    <2>6. m + 1 \in 1 .. Len(blocks) /\ blocks[m + 1] = At(l, x, m)
      BY <1>2, <2>5, PhysicalIs DEF blocks
    <2>7. ~(m + 1 > Len(blocks))
      BY <2>1, <2>6
    <2>8. i \in DOMAIN c
      OBVIOUS
    <2>9. d.block[At(l, x, m)].words[j] = c[i]
      <3>1. m * BlockWords + j \in DOMAIN c
        BY <2>1, <2>8
      <3>2. d.block[At(l, x, m)].words[j] = c[m * BlockWords + j]
        BY <2>1, <2>5, <3>1 DEF Carries
      <3> QED
        BY <2>1, <3>2
    <2> QED
      BY <2>3, <2>6, <2>7, <2>9
  <1> HIDE DEF V
  <1> QED
    BY <1>1, <1>3

LEMMA ReadsAll ==
    ASSUME NEW d, NEW l \in Seq(Extents), Single(l), NEW c \in Seq(Words), Shape(l, Len(c)), Carries(l, d.block, c)
    PROVE  ReadFileAt(d, l, Len(c)) = c
  <1>1. Len(c) \in Nat /\ Len(c) <= Len(c) /\ c = [i \in 1 .. Len(c) |-> c[i]]
    OBVIOUS
  <1>2. ReadFileAt(d, l, Len(c)) = [i \in 1 .. Len(c) |-> c[i]]
    BY <1>1, ReadsContent
  <1> QED
    BY <1>1, <1>2

LEMMA ReadsPrefix ==
    ASSUME NEW d, NEW l \in Seq(Extents), Single(l), NEW size \in Nat, Shape(l, size),
           NEW c \in Seq(Words), size <= Len(c), Carries(l, d.block, c)
    PROVE  IsPrefix(ReadFileAt(d, l, size), c)
  <1> DEFINE q == [i \in 1 .. size |-> c[i]]
  <1>1. ReadFileAt(d, l, size) = q
    BY ReadsContent
  <1>2. \A i \in 1 .. size : c[i] \in Words
    OBVIOUS
  <1>3. q \in Seq(Words) /\ Len(q) = size
    BY <1>2
  <1>4. \A i \in 1 .. size : q[i] = c[i]
    OBVIOUS
  <1> HIDE DEF q
  <1>5. SubSeq(q, 1, size) = SubSeq(c, 1, size)
    <2>1. SubSeq(q, 1, size) = [i \in 1 .. size |-> q[i]] /\ SubSeq(c, 1, size) = [i \in 1 .. size |-> c[i]]
      BY <1>3
    <2> QED
      BY <1>4, <2>1
  <1> QED
    BY <1>1, <1>3, <1>5 DEF IsPrefix

-----------------------------------------------------------------------------
(* The words of the files *)

\* On device d, file f holds the words c, if its header counts what is there.
FileHolds(d, f, c) ==
    LET l == List(d.inode[f].root, d.block)
    IN  Counted(d.inode[f].root) =>
            Len(c) = d.inode[f].size /\ Shape(l, Len(c)) /\ Carries(l, d.block, c)

\* o is c with the words w at start, where w goes on from c or replaces words of it.
Replaced(o, c, start, w) ==
    /\ o \in Seq(Words)
    /\ Len(o) = IF start + Len(w) > Len(c) THEN start + Len(w) ELSE Len(c)
    /\ \A i \in DOMAIN o :
          /\ i - start \in DOMAIN w => o[i] = w[i - start]
          /\ i - start \notin DOMAIN w => i \in DOMAIN c /\ o[i] = c[i]

LEMMA OverwriteIs ==
    ASSUME NEW c \in Seq(Words), NEW start \in Nat, start <= Len(c), NEW w \in Seq(Words)
    PROVE  Replaced(Overwrite(c, start, w), c, start, w)
  <1> DEFINE n == IF start + Len(w) > Len(c) THEN start + Len(w) ELSE Len(c)
             V(i) == IF i - start \in DOMAIN w THEN w[i - start] ELSE IF i \in DOMAIN c THEN c[i] ELSE Zero
             o == Overwrite(c, start, w)
  <1>1. o = [i \in 1 .. n |-> V(i)]
    BY Zenon DEF Overwrite
  <1>2. n \in Nat /\ DOMAIN c = 1 .. Len(c) /\ DOMAIN w = 1 .. Len(w) /\ Len(c) \in Nat /\ Len(w) \in Nat
    OBVIOUS
  <1>3. \A i \in 1 .. n : i - start \notin DOMAIN w => i \in DOMAIN c
    BY <1>2
  <1>4. \A i \in 1 .. n : V(i) \in Words
    <2> TAKE i \in 1 .. n
    <2>1. CASE i - start \in DOMAIN w
      BY <2>1
    <2>2. CASE i - start \notin DOMAIN w
      BY <1>3, <2>2
    <2> QED
      BY <2>1, <2>2
  <1>5. \A i \in 1 .. n : /\ i - start \in DOMAIN w => V(i) = w[i - start]
                          /\ i - start \notin DOMAIN w => i \in DOMAIN c /\ V(i) = c[i]
    BY <1>3
  <1> HIDE DEF V, n, o
  <1>6. o \in Seq(Words) /\ Len(o) = n /\ DOMAIN o = 1 .. n /\ \A i \in 1 .. n : o[i] = V(i)
    BY <1>1, <1>2, <1>4
  <1>7. Replaced(o, c, start, w)
    BY <1>5, <1>6 DEF Replaced, n
  <1> QED
    BY <1>7 DEF o

\* Truncate to more words says the same with the end of the file for a start.
LEMMA OverwriteZeros ==
    ASSUME NEW c \in Seq(Words), NEW size \in Nat, size > Len(c)
    PROVE  Replaced(Overwrite(c, size, <<>>), c, Len(c), [i \in 1 .. size - Len(c) |-> Zero])
  <1> DEFINE old == Len(c)
             V(i) == IF i \in DOMAIN c THEN c[i] ELSE Zero
             o == Overwrite(c, size, <<>>)
             w == [i \in 1 .. size - old |-> Zero]
  <1>1. old \in Nat /\ size - old \in Nat /\ DOMAIN c = 1 .. old
    OBVIOUS
  <1>2. o = [i \in 1 .. size |-> V(i)]
    <2> DEFINE n == IF size + Len(<<>>) > Len(c) THEN size + Len(<<>>) ELSE Len(c)
               U(i) == IF i - size \in DOMAIN <<>> THEN <<>>[i - size] ELSE IF i \in DOMAIN c THEN c[i] ELSE Zero
    <2>1. o = [i \in 1 .. n |-> U(i)]
      BY Zenon DEF Overwrite
    <2>2. n = size
      BY <1>1
    <2>3. \A i : U(i) = V(i)
      <3>1. DOMAIN <<>> = {}
        OBVIOUS
      <3> QED
        BY <3>1
    <2> HIDE DEF n, U, V, o
    <2> QED
      BY <2>1, <2>2, <2>3
  <1>3. w \in Seq(Words) /\ Len(w) = size - old /\ DOMAIN w = 1 .. size - old /\ \A i \in DOMAIN w : w[i] = Zero
    BY <1>1 DEF Words
  <1>4. \A i \in 1 .. size : V(i) \in Words
    BY DEF Words
  <1> HIDE DEF w, V, o
  <1>5. o \in Seq(Words) /\ Len(o) = size /\ DOMAIN o = 1 .. size /\ \A i \in 1 .. size : o[i] = V(i)
    BY <1>2, <1>4
  <1> HIDE DEF old
  <1>6. \A i \in 1 .. size : /\ i - old \in 1 .. size - old => i \notin DOMAIN c
                             /\ i - old \notin 1 .. size - old => i \in DOMAIN c
    BY <1>1
  <1>7. \A i \in DOMAIN o : /\ i - old \in DOMAIN w => o[i] = w[i - old]
                            /\ i - old \notin DOMAIN w => i \in DOMAIN c /\ o[i] = c[i]
    BY <1>3, <1>5, <1>6 DEF V
  <1>8. Len(o) = IF old + Len(w) > Len(c) THEN old + Len(w) ELSE Len(c)
    BY <1>1, <1>3, <1>5 DEF old
  <1>9. Replaced(o, c, old, w)
    BY <1>5, <1>7, <1>8 DEF Replaced
  <1> QED
    BY <1>9 DEF o, w, old

\* The blocks of the words start + 1 .. end.
LEMMA BlockBetween ==
    ASSUME NEW start \in Nat, NEW end \in Nat, start < end, NEW m \in Nat,
           start < m * BlockWords + BlockWords, m * BlockWords < end
    PROVE  m \in start \div BlockWords .. (end - 1) \div BlockWords
  <1> DEFINE y == m * BlockWords
             e == end - 1
             first == start \div BlockWords
             last == e \div BlockWords
  <1>1. y \in Nat /\ e \in Nat /\ (m + 1) * BlockWords = y + BlockWords
    BY SizesAssumption
  <1>2. y <= e
    <2>1. y < end /\ y \in Nat
      BY <1>1
    <2> HIDE DEF y
    <2> QED
      BY <2>1
  <1> HIDE DEF e
  <1>3. m <= last /\ last \in Nat /\ first \in Nat
    BY <1>1, <1>2, BlockOfWord
  <1>4. ~(m + 1 <= first)
    <2>1. m + 1 <= first => (m + 1) * BlockWords <= start
      BY BlockOfWord
    <2>2. start < y + BlockWords
      OBVIOUS
    <2> HIDE DEF y, first
    <2>3. m + 1 <= first => y + BlockWords <= start
      BY <1>1, <2>1
    <2> QED
      BY <1>1, <2>2, <2>3, SizesAssumption
  <1> HIDE DEF first, last
  <1>5. m \in first .. last
    BY <1>3, <1>4
  <1> QED
    BY <1>5 DEF first, last, e

LEMMA ReadyToWrite ==
    ASSUME NEW l \in Seq(Extents), NEW size \in Nat, Shape(l, size), NEW start \in Nat, start <= size
    PROVE  Ready(l, start \div BlockWords)
  <1> DEFINE first == start \div BlockWords
  <1>1. first \in Nat
    BY BlockOfWord
  <1>2. Dense(l) /\ Ascending(l)
    BY ShapeDense DEF Shape
  <1>3. ASSUME NEW m \in 0 .. first - 1
        PROVE  \E y : Holds(l, y, m)
    <2> DEFINE a == m * BlockWords
    <2>1. m \in Nat /\ m + 1 \in Nat /\ m + 1 <= first
      BY <1>1
    <2>2. (m + 1) * BlockWords <= start
      BY <2>1, BlockOfWord
    <2>3. a \in Nat /\ (m + 1) * BlockWords = a + BlockWords
      BY <2>1, SizesAssumption
    <2> HIDE DEF a, first
    <2>4. a < size
      BY <2>2, <2>3, SizesAssumption
    <2> QED
      BY <2>1, <2>4 DEF Shape, a
  <1> QED
    BY <1>2, <1>3 DEF Ready

LEMMA WrittenShape ==
    ASSUME NEW l \in Seq(Extents), NEW new \in Seq(Extents), Extends(l, new), NEW size \in Nat, Shape(l, size),
           NEW start \in Nat, NEW end \in Nat, start < end, start <= size,
           \A m \in start \div BlockWords .. (end - 1) \div BlockWords : \E x : Holds(new, x, m),
           \A x, m : Holds(new, x, m) => Holds(l, x, m) \/ m \in start \div BlockWords .. (end - 1) \div BlockWords,
           Ascending(new)
    PROVE  Shape(new, IF end > size THEN end ELSE size)
  <1> DEFINE first == start \div BlockWords
             last == (end - 1) \div BlockWords
             len == IF end > size THEN end ELSE size
  <1>1. first \in Nat /\ len \in Nat /\ size <= len /\ end <= len /\ end - 1 \in Nat /\ (len = end \/ len = size)
    BY BlockOfWord
  <1>2. last \in Nat
    BY <1>1, BlockOfWord
  <1>3. \A x, m : Holds(l, x, m) => Holds(new, x, m)
    BY ExtendsPhys
  <1>4. ASSUME NEW m \in Nat, NEW x, Holds(new, x, m)
        PROVE  m * BlockWords < len
    <2> DEFINE a == m * BlockWords
    <2>1. a \in Nat
      BY SizesAssumption
    <2>2. CASE Holds(l, x, m)
      <3>1. a < size
        BY <2>2 DEF Shape
      <3> HIDE DEF a, len
      <3> QED
        BY <1>1, <2>1, <3>1 DEF a
    <2>3. CASE m \in first .. last
      <3>1. m <= last
        BY <1>1, <1>2, <2>3
      <3>2. a <= end - 1
        BY <1>1, <3>1, BlockOfWord
      <3> HIDE DEF a, len
      <3>3. a < len
        BY <1>1, <2>1, <3>2
      <3> QED
        BY <3>3 DEF a
    <2> QED
      BY <1>4, <2>2, <2>3
  <1>5. ASSUME NEW m \in Nat, m * BlockWords < len
        PROVE  \E x : Holds(new, x, m)
    <2> DEFINE a == m * BlockWords
    <2>1. a \in Nat /\ a < len
      BY <1>5, SizesAssumption
    <2>2. CASE a < size
      BY <1>3, <2>2 DEF Shape
    <2>3. CASE ~(a < size)
      <3>1. a < end /\ start < a + BlockWords
        <4> HIDE DEF a, len
        <4> QED
          BY <1>1, <2>1, <2>3, SizesAssumption
      <3>2. m \in first .. last
        BY <3>1, BlockBetween
      <3> QED
        BY <3>2
    <2> QED
      BY <2>2, <2>3
  <1> HIDE DEF len
  <1>6. Shape(new, len)
    BY <1>4, <1>5 DEF Shape
  <1> QED
    BY <1>6 DEF len

\* A write that gets through leaves the file with the words it brought and the others as they were.
LEMMA WriteHolds ==
    ASSUME NoSplit, SafeDev(dev), NEW f \in Files, NEW c \in Seq(Words), FileHolds(dev, f, c),
           NEW w \in Seq(Words), w # <<>>, NEW start \in Nat, start + Len(w) <= MaxSize[f],
           start <= dev.inode[f].size, NEW o, Replaced(o, c, start, w),
           WriteFileAt(Begin(f), start, w).status = "ok"
    PROVE  LET d == WithInode(WriteFileAt(Begin(f), start, w), f)
           IN  /\ FileHolds(d, f, o) /\ Counted(d.inode[f].root) /\ Counted(dev.inode[f].root)
               /\ Extends(List(dev.inode[f].root, dev.block), List(d.inode[f].root, d.block))
  <1> DEFINE r == WriteFileAt(Begin(f), start, w)
             first == start \div BlockWords
             last == (start + Len(w) - 1) \div BlockWords
             end == start + Len(w)
             l == List(dev.inode[f].root, dev.block)
             d == WithInode(r, f)
  <1>1. r.status # "error"
    OBVIOUS
  <1>2. /\ Counted(dev.inode[f].root)
        /\ r.status = "ok" => /\ Written(Begin(f), r, f, first, last, end)
                              /\ Laid(Begin(f), r, f, start, w, first, last)
    <2>1. /\ Counted(dev.inode[f].root)
          /\ \/ /\ r.status = "panic" /\ start > first * BlockWords
                /\ Panicked(Begin(f), r, f, Entries(Begin(f)), first)
             \/ /\ r.status = "ok" /\ Written(Begin(f), r, f, first, last, end)
                /\ Laid(Begin(f), r, f, start, w, first, last)
      BY <1>1, WriteLeaves
    <2> HIDE DEF r
    <2> QED
      BY <2>1
  <1>3. r.status = "ok"
    OBVIOUS
  <1>4. /\ Begin(f).dev = dev /\ Begin(f).mem = dev.inode[f] /\ Entries(Begin(f)) = l /\ l \in Seq(Extents)
        /\ dev.inode \in [Files -> Inodes] /\ dev.inode[f].size \in Nat
    <2>1. Orderly(Entries(Begin(f)), f) /\ Entries(Begin(f)) = l
      BY Begins
    <2> QED
      BY <2>1, Begins DEF Orderly, Inodes
  <1>5. Len(w) \in Nat \ {0} /\ end \in Nat /\ start < end /\ start + Len(w) - 1 = end - 1
        /\ \A k : k \in DOMAIN w <=> k \in 1 .. Len(w)
    OBVIOUS
  <1>6. Len(c) = dev.inode[f].size /\ Shape(l, Len(c)) /\ Carries(l, dev.block, c) /\ start <= Len(c) /\ Len(c) \in Nat
        /\ DOMAIN c = 1 .. Len(c)
    BY <1>2 DEF FileHolds
  <1> HIDE DEF r, first, last, end, l
  <1>7. /\ r \in Results /\ r.dev.inode = dev.inode
        /\ Sound(Inodes1(r, f), r.dev.block, r.dev.used) /\ Counted(r.mem.root)
        /\ r.mem.size = (IF end > dev.inode[f].size THEN end ELSE dev.inode[f].size)
        /\ Extends(l, Entries(r))
        /\ \A m \in first .. last : \E x : Holds(Entries(r), x, m)
        /\ \A x, m : Holds(Entries(r), x, m) => Holds(l, x, m) \/ m \in first .. last
    BY <1>2, <1>3, <1>4 DEF Written
  <1>8. r.dev \in Devices /\ r.mem \in Inodes /\ Inodes1(r, f)[f] = r.mem
    BY <1>7, ResultFields, InodesWith
  <1>9. d.inode[f] = r.mem /\ d.block = r.dev.block
    <2>1. d.inode = [r.dev.inode EXCEPT ![f] = r.mem] /\ d.block = r.dev.block
      BY <1>8, WithInodeIs
    <2> QED
      BY <1>4, <1>7, <2>1
  <1> DEFINE new == Entries(r)
  <1>10. List(d.inode[f].root, d.block) = new
    BY <1>9 DEF Entries
  <1>11. Orderly(new, f) /\ new \in Seq(Extents) /\ Single(new)
    <2>1. Orderly(new, f)
      BY <1>7, <1>8 DEF Sound, TreesOK, Entries
    <2> QED
      BY <2>1 DEF Orderly, Single
  <1> HIDE DEF d, new
  <1>12. Ready(l, first)
    BY <1>4, <1>6, ReadyToWrite DEF first
  <1>13. Ascending(new)
    <2>1. Ready(new, last + 1)
      BY <1>2, <1>3, <1>4, <1>12 DEF Laid, new
    <2> QED
      BY <2>1 DEF Ready
  <1> DEFINE len == IF end > Len(c) THEN end ELSE Len(c)
  <1>14. Shape(new, len)
    <2>1. first = start \div BlockWords /\ last = (end - 1) \div BlockWords
      BY <1>5 DEF first, last
    <2>2. /\ \A m \in start \div BlockWords .. (end - 1) \div BlockWords : \E x : Holds(new, x, m)
          /\ \A x, m : Holds(new, x, m) => Holds(l, x, m) \/ m \in start \div BlockWords .. (end - 1) \div BlockWords
          /\ Extends(l, new)
      BY <1>7, <2>1 DEF new
    <2> QED
      BY <1>4, <1>5, <1>6, <1>11, <1>13, <2>2, WrittenShape
  <1>15. o \in Seq(Words) /\ Len(o) = len /\ DOMAIN o = 1 .. len
         /\ \A i \in DOMAIN o : /\ i - start \in DOMAIN w => o[i] = w[i - start]
                                /\ i - start \notin DOMAIN w => i \in DOMAIN c /\ o[i] = c[i]
    BY DEF Replaced, end
  <1>16. \A x, m : Holds(l, x, m) => Holds(new, x, m)
    BY <1>4, <1>7, <1>11, ExtendsPhys DEF new
  <1>17. Carries(new, r.dev.block, o)
    <2> SUFFICES ASSUME NEW x, NEW m, NEW j \in 1 .. BlockWords, Holds(new, x, m), m * BlockWords + j \in DOMAIN o
                 PROVE  r.dev.block[At(new, x, m)].words[j] = o[m * BlockWords + j]
      BY DEF Carries
    <2> DEFINE a == m * BlockWords
               i == a + j
    <2>1. m \in Nat
      BY <1>11, HeldTyped
    <2>2. a \in Nat /\ i \in DOMAIN o /\ BlockWords \in Nat /\ j \in Nat /\ j >= 1 /\ j <= BlockWords
      BY <2>1, SizesAssumption
    <2>3. /\ WordOf(r, x, m, j) = r.dev.block[At(new, x, m)].words[j]
          /\ m * BlockWords + (j - start) = i - start
      <3>1. a + (j - start) = i - start
        <4>1. i = a + j
          OBVIOUS
        <4> HIDE DEF a, i
        <4> QED
          BY <2>2, <4>1
      <3> QED
        BY <3>1 DEF WordOf, new
    <2>4. CASE Among(w, start, m, j)
      <3>1. i - start \in DOMAIN w
        BY <2>3, <2>4 DEF Among
      <3>2. i - start \in 1 .. Len(w)
        BY <1>5, <3>1
      <3>3. start < a + BlockWords /\ a < end
        <4> HIDE DEF a
        <4> QED
          BY <1>5, <2>2, <3>2 DEF end
      <3>4. m \in first .. last
        <4>1. m \in start \div BlockWords .. (end - 1) \div BlockWords
          BY <1>5, <2>1, <3>3, BlockBetween
        <4> QED
          BY <1>5, <4>1 DEF first, last
      <3>5. WordOf(r, x, m, j) = w[i - start]
        <4>1. NewWords(r, start, w, first, last)
          BY <1>2, <1>3 DEF Laid
        <4>2. Holds(Entries(r), x, m)
          BY DEF new
        <4> HIDE DEF a, i
        <4>3. WordOf(r, x, m, j) = w[m * BlockWords + j - start]
          BY <2>4, <3>4, <4>1, <4>2 DEF NewWords
        <4> QED
          BY <2>3, <4>3
      <3> QED
        BY <1>15, <2>2, <2>3, <3>1, <3>5
    <2>5. CASE ~Among(w, start, m, j)
      <3>1. i - start \notin DOMAIN w
        BY <2>3, <2>5 DEF Among
      <3>2. i \in DOMAIN c /\ o[i] = c[i]
        BY <1>15, <2>2, <3>1
      <3>3. a < Len(c)
        <4> HIDE DEF a
        <4> QED
          BY <1>6, <2>2, <3>2
      <3>4. PICK y : Holds(l, y, m)
        BY <1>6, <2>1, <3>3 DEF Shape
      <3>5. y = x
        BY <1>11, <1>16, <3>4 DEF Single
      <3>6. WordOf(r, x, m, j) = WordOf(Begin(f), x, m, j)
        BY <1>2, <1>3, <1>4, <2>5, <3>4, <3>5 DEF Laid, OldWords
      <3>7. WordOf(Begin(f), x, m, j) = dev.block[At(l, x, m)].words[j]
        BY <1>4 DEF WordOf
      <3>8. dev.block[At(l, x, m)].words[j] = c[i]
        BY <1>6, <3>2, <3>4, <3>5 DEF Carries
      <3> QED
        BY <2>3, <3>2, <3>6, <3>7, <3>8
    <2> QED
      BY <2>4, <2>5
  <1>18. FileHolds(d, f, o)
    <2>1. Len(o) = d.inode[f].size
      BY <1>6, <1>7, <1>9, <1>15
    <2> QED
      BY <1>9, <1>10, <1>14, <1>15, <1>17, <2>1 DEF FileHolds
  <1> QED
    BY <1>2, <1>7, <1>9, <1>10, <1>18 DEF d, r, l, new

\* File g is on d2 as it is on d, word by word.
SameFile(d, d2, g) ==
    LET l == List(d.inode[g].root, d.block)
    IN  /\ d2.inode[g] = d.inode[g] /\ List(d2.inode[g].root, d2.block) = l
        /\ \A x, m : Holds(l, x, m) => d2.block[At(l, x, m)].words = d.block[At(l, x, m)].words
OthersSame(d, d2, f) == \A g \in Files : g # f => SameFile(d, d2, g)

LEMMA SameHolds ==
    ASSUME NEW d, NEW d2, NEW g, NEW c, FileHolds(d, g, c), SameFile(d, d2, g)
    PROVE  FileHolds(d2, g, c)
  <1> DEFINE l == List(d.inode[g].root, d.block)
  <1>1. /\ d2.inode[g] = d.inode[g] /\ List(d2.inode[g].root, d2.block) = l
        /\ \A x, m : Holds(l, x, m) => d2.block[At(l, x, m)].words = d.block[At(l, x, m)].words
    BY DEF SameFile
  <1>2. Counted(d.inode[g].root) => Len(c) = d.inode[g].size /\ Shape(l, Len(c)) /\ Carries(l, d.block, c)
    BY DEF FileHolds
  <1> HIDE DEF l
  <1>3. Carries(l, d.block, c) => Carries(l, d2.block, c)
    BY <1>1 DEF Carries
  <1> QED
    BY <1>1, <1>2, <1>3 DEF FileHolds

\* A write leaves the other files as they are.
LEMMA WriteSpares ==
    ASSUME NoSplit, SafeDev(dev), NEW f \in Files,
           NEW w \in Seq(Words), w # <<>>, NEW start \in Nat, start + Len(w) <= MaxSize[f],
           WriteFileAt(Begin(f), start, w).status = "ok"
    PROVE  OthersSame(dev, WithInode(WriteFileAt(Begin(f), start, w), f), f)
  <1> DEFINE r == WriteFileAt(Begin(f), start, w)
             first == start \div BlockWords
             last == (start + Len(w) - 1) \div BlockWords
             d == WithInode(r, f)
  <1>1. r.status = "ok" /\ r.status # "error"
    OBVIOUS
  <1>2. Written(Begin(f), r, f, first, last, start + Len(w)) /\ Laid(Begin(f), r, f, start, w, first, last)
    <2>1. \/ r.status = "panic"
          \/ Written(Begin(f), r, f, first, last, start + Len(w)) /\ Laid(Begin(f), r, f, start, w, first, last)
      <3>1. \/ /\ r.status = "panic" /\ start > first * BlockWords
               /\ Panicked(Begin(f), r, f, Entries(Begin(f)), first)
            \/ /\ r.status = "ok" /\ Written(Begin(f), r, f, first, last, start + Len(w))
               /\ Laid(Begin(f), r, f, start, w, first, last)
        BY <1>1, WriteLeaves
      <3> HIDE DEF r, first, last
      <3> QED
        BY <3>1
    <2> HIDE DEF r, first, last
    <2> QED
      BY <1>1, <2>1
  <1> HIDE DEF r, first, last
  <1>3. Begin(f).dev = dev /\ dev.inode \in [Files -> Inodes]
    BY Begins
  <1>4. r \in Results /\ r.dev.inode = dev.inode /\ OthersKept(Begin(f), r, f) /\ OthersWords(Begin(f), r, f)
    BY <1>2, <1>3 DEF Written, Laid
  <1>5. r.dev \in Devices /\ r.mem \in Inodes
    BY <1>4, ResultFields
  <1>6. d.inode = [dev.inode EXCEPT ![f] = r.mem] /\ d.block = r.dev.block
    BY <1>4, <1>5, WithInodeIs
  <1>7. \A g \in Files : g # f => d.inode[g] = dev.inode[g]
    BY <1>3, <1>6
  <1> HIDE DEF d
  <1>8. ASSUME NEW g \in Files, g # f
        PROVE  SameFile(dev, d, g)
    <2> DEFINE l == List(dev.inode[g].root, dev.block)
    <2>1. d.inode[g] = dev.inode[g] /\ g \in Files \ {f}
      BY <1>7, <1>8
    <2>2. Tree(dev.inode[g].root, dev.block) /\ Orderly(l, g)
      <3>1. Orderly(Entries(Begin(g)), g) /\ Entries(Begin(g)) = l /\ Tree(dev.inode[g].root, dev.block)
        BY Begins
      <3> QED
        BY <3>1
    <2>3. l \in Seq(Extents)
      BY <2>2 DEF Orderly
    <2>4. List(r.dev.inode[g].root, r.dev.block) = l
      <3>1. dev.inode[g].root.depth \in {0, 1}
        BY <2>2 DEF Tree
      <3> QED
        BY <1>3, <1>4, <2>1, <3>1, OthersList
    <2>5. \A x, b : Phys(l, x, b) => r.dev.block[b].words = dev.block[b].words
      BY <1>3, <1>4, <2>1 DEF OthersWords
    <2>6. List(d.inode[g].root, d.block) = l
      BY <1>4, <1>6, <2>1, <2>4
    <2> HIDE DEF l
    <2>7. \A x, m : Holds(l, x, m) => d.block[At(l, x, m)].words = dev.block[At(l, x, m)].words
      <3> SUFFICES ASSUME NEW x, NEW m, Holds(l, x, m)
                   PROVE  d.block[At(l, x, m)].words = dev.block[At(l, x, m)].words
        OBVIOUS
      <3>1. Phys(l, x, At(l, x, m))
        BY <2>3, HeldTyped
      <3> QED
        BY <1>6, <2>5, <3>1
    <2> QED
      BY <2>1, <2>6, <2>7 DEF SameFile, l
  <1> QED
    BY <1>8 DEF OthersSame, d, r

\* What is left of the extents is where it was.
LEMMA TrimmedAt ==
    ASSUME NEW f, NEW l, Orderly(l, f), NEW last \in Int, NEW r, Trimmed(r, l, last),
           NEW x, NEW m, Holds(r.entries, x, m)
    PROVE  m <= last /\ \E j : Holds(l, j, m) /\ At(r.entries, x, m) = At(l, j, m)
  <1> DEFINE p == r.entries
  <1>1. PICK j \in DOMAIN l : l[j].block <= last /\ p[x] = Cut(l[j], last)
    BY DEF Trimmed, Holds
  <1>2. l[j] \in Extents
    BY OrderlyBlocks
  <1>3. x \in DOMAIN p /\ m \in p[x].block .. p[x].block + p[x].len - 1
    BY DEF Holds
  <1> HIDE DEF p
  <1>4. p[x].block = l[j].block /\ p[x].start = l[j].start
    BY <1>1, <1>2, CutIs
  <1>5. m \in l[j].block .. l[j].block + l[j].len - 1 /\ m <= last
    <2> DEFINE c == Cut(l[j], last)
    <2>1. \A n : n \in c.block .. c.block + c.len - 1 <=> n \in l[j].block .. l[j].block + l[j].len - 1 /\ n <= last
      BY <1>1, <1>2, CutHolds
    <2>2. p[x] = c
      BY <1>1
    <2> HIDE DEF c
    <2> QED
      BY <1>3, <2>1, <2>2
  <1> QED
    BY <1>4, <1>5 DEF Holds, At, p

\* The blocks of the first size words are those up to the last one kept.
LEMMA LastKept ==
    ASSUME NEW size \in Nat, NEW n \in Nat
    PROVE  n * BlockWords < size <=> n <= ((size + BlockWords - 1) \div BlockWords) - 1
  <1> DEFINE y == n * BlockWords
             e == size + BlockWords - 1
             q == e \div BlockWords
  <1>1. y \in Nat /\ e \in Nat /\ BlockWords \in Nat /\ (n + 1) * BlockWords = y + BlockWords /\ n + 1 \in Nat
    BY SizesAssumption
  <1>2. e = size + BlockWords - 1
    OBVIOUS
  <1> HIDE DEF e
  <1>3. q \in Nat /\ (n + 1 <= q <=> (n + 1) * BlockWords <= e)
    BY <1>1, BlockOfWord
  <1> HIDE DEF y, q
  <1>4. y < size <=> n <= q - 1
    BY <1>1, <1>2, <1>3
  <1> QED
    BY <1>4 DEF y, q, e

LEMMA ShrinkHolds ==
    ASSUME SafeDev(dev), NEW f \in Files, NEW c \in Seq(Words), FileHolds(dev, f, c),
           NEW size \in Nat, size < dev.inode[f].size, TruncateInode(Begin(f), size).status = "ok"
    PROVE  LET d == WithInode(TruncateInode(Begin(f), size), f)
           IN  FileHolds(d, f, SubSeq(c, 1, size)) /\ OthersSame(dev, d, f)
  <1> DEFINE d == WithInode(TruncateInode(Begin(f), size), f)
             l == List(dev.inode[f].root, dev.block)
             last == ((size + BlockWords - 1) \div BlockWords) - 1
             r == d.inode[f].root
             o == SubSeq(c, 1, size)
  <1>1. /\ last \in Int /\ Counted(dev.inode[f].root)
        /\ \A g \in Files : g # f => d.inode[g] = dev.inode[g]
        /\ Trimmed(r, l, last) /\ d.inode[f].size = size /\ d.block = dev.block
    BY ShrinkLeaves
  <1>2. Orderly(l, f) /\ l \in Seq(Extents) /\ dev.inode[f].size \in Nat
    <2>1. Orderly(l, f) /\ dev.inode[f] \in Inodes
      BY Begins
    <2> QED
      BY <2>1 DEF Orderly, Inodes
  <1>3. Len(c) = dev.inode[f].size /\ Shape(l, Len(c)) /\ Carries(l, dev.block, c)
    BY <1>1 DEF FileHolds
  <1>4. \A n \in Nat : n * BlockWords < size <=> n <= last
    BY LastKept
  <1>5. Len(o) = size /\ DOMAIN o = 1 .. size /\ DOMAIN c = 1 .. Len(c) /\ \A i \in 1 .. size : o[i] = c[i]
    BY <1>2, <1>3
  <1>6. OthersSame(dev, d, f)
    <2> HIDE DEF d
    <2> QED
      BY <1>1 DEF OthersSame, SameFile
  <1> HIDE DEF d, l, last, o
  <1>7. r.depth = 0 /\ List(r, d.block) = r.entries /\ r.entries \in Seq(Extents)
    BY <1>1 DEF Trimmed, List
  <1> DEFINE p == r.entries
  <1>8. Ascending(p)
    BY <1>1, <1>3 DEF Trimmed, Shape
  <1>9. Counted(r) => \A j, n : Holds(l, j, n) /\ n <= last => \E x : Holds(p, x, n)
    <2> HIDE DEF r
    <2> QED
      BY <1>1, <1>2, TrimmedHas
  <1>10. \A x, m : Holds(p, x, m) => m <= last /\ \E j : Holds(l, j, m) /\ At(p, x, m) = At(l, j, m)
    <2> HIDE DEF r
    <2> QED
      BY <1>1, <1>2, TrimmedAt
  <1> HIDE DEF p, r
  <1>11. ASSUME Counted(r)
         PROVE  Shape(p, size)
    <2>1. ASSUME NEW m \in Nat, m * BlockWords < size
          PROVE  \E x : Holds(p, x, m)
      <3> DEFINE a == m * BlockWords
      <3>1. a < Len(c)
        <4>1. a \in Nat /\ a < size
          BY <2>1, SizesAssumption
        <4> HIDE DEF a
        <4> QED
          BY <1>2, <1>3, <4>1
      <3>2. \E j : Holds(l, j, m)
        BY <1>3, <3>1 DEF Shape
      <3> QED
        BY <1>4, <1>9, <1>11, <2>1, <3>2
    <2>2. ASSUME NEW m \in Nat, NEW x, Holds(p, x, m)
          PROVE  m * BlockWords < size
      BY <1>4, <1>10, <2>2
    <2> QED
      BY <1>8, <2>1, <2>2 DEF Shape
  <1>12. Carries(p, d.block, o)
    <2> SUFFICES ASSUME NEW x, NEW m, NEW j \in 1 .. BlockWords, Holds(p, x, m), m * BlockWords + j \in DOMAIN o
                 PROVE  d.block[At(p, x, m)].words[j] = o[m * BlockWords + j]
      BY DEF Carries
    <2> DEFINE i == m * BlockWords + j
    <2>1. i \in 1 .. size /\ i \in DOMAIN c /\ o[i] = c[i]
      <3>1. i \in 1 .. size
        BY <1>5
      <3> HIDE DEF i
      <3> QED
        BY <1>2, <1>3, <1>5, <3>1
    <2>2. PICK y : Holds(l, y, m) /\ At(p, x, m) = At(l, y, m)
      BY <1>10
    <2>3. dev.block[At(l, y, m)].words[j] = c[i]
      BY <1>3, <2>1, <2>2 DEF Carries
    <2> HIDE DEF i
    <2>4. d.block[At(p, x, m)].words[j] = o[i]
      BY <1>1, <2>1, <2>2, <2>3
    <2> QED
      BY <2>4 DEF i
  <1>13. FileHolds(d, f, o)
    <2>1. r = d.inode[f].root /\ List(d.inode[f].root, d.block) = p
      BY <1>7 DEF r, p
    <2>2. Counted(r) => Len(o) = d.inode[f].size /\ Shape(p, Len(o)) /\ Carries(p, d.block, o)
      BY <1>1, <1>5, <1>11, <1>12
    <2> QED
      BY <2>1, <2>2 DEF FileHolds
  <1> QED
    BY <1>6, <1>13 DEF d, o

-----------------------------------------------------------------------------
(* Open files *)

\* The extents h of an open path are the file's, or the start of them, and hold
\* the first h.size of its words c.
Knows(h, d, f, c) ==
    LET l == List(d.inode[f].root, d.block)
    IN  /\ Counted(d.inode[f].root) /\ Extends(h.extents, l)
        /\ Shape(h.extents, h.size) /\ h.size <= Len(c)

\* The entry h of a path that was seen so.
Follows(h, s, d, f, c) == s # "lost" => Knows(h, d, f, c) /\ (s = "all" => h.size = Len(c))

Handles(t, sn, d, c) == \A p \in DOMAIN t : Follows(t[p], sn[p], d, InodeOf[p], c[InodeOf[p]])

Contents(d, c) == c \in [Files -> Seq(Words)] /\ \A f \in Files : FileHolds(d, f, c[f])

LEMMA KnowsReads ==
    ASSUME NEW d, NEW f, NEW c \in Seq(Words), FileHolds(d, f, c), Orderly(List(d.inode[f].root, d.block), f),
           NEW h, h.extents \in Seq(Extents), h.size \in Nat, Knows(h, d, f, c)
    PROVE  /\ IsPrefix(ReadFileAt(d, h.extents, h.size), c)
           /\ h.size = Len(c) => ReadFileAt(d, h.extents, h.size) = c
  <1> DEFINE l == List(d.inode[f].root, d.block)
             k == h.extents
             n == h.size
  <1>1. /\ Counted(d.inode[f].root) /\ Extends(k, l) /\ Shape(k, n) /\ n <= Len(c)
        /\ k \in Seq(Extents) /\ n \in Nat
    BY DEF Knows
  <1>2. Carries(l, d.block, c)
    BY <1>1 DEF FileHolds
  <1>3. l \in Seq(Extents) /\ Single(l)
    BY DEF Orderly, Single
  <1> HIDE DEF l, k, n
  <1>4. \A x, m : Holds(k, x, m) => Holds(l, x, m) /\ At(l, x, m) = At(k, x, m)
    <2>1. \A x, m : Holds(k, x, m) => Holds(l, x, m)
      BY <1>1, <1>3, ExtendsPhys
    <2> QED
      BY <1>1, <2>1, ExtendsAt
  <1>5. Single(k)
    BY <1>3, <1>4 DEF Single
  <1>6. Carries(k, d.block, c)
    BY <1>2, <1>4 DEF Carries
  <1>7. IsPrefix(ReadFileAt(d, k, n), c)
    BY <1>1, <1>5, <1>6, ReadsPrefix
  <1>8. n = Len(c) => ReadFileAt(d, k, n) = c
    BY <1>1, <1>5, <1>6, ReadsAll
  <1> QED
    BY <1>7, <1>8 DEF k, n

\* It stays so if the file does, and if it gets longer.
LEMMA FollowsSame ==
    ASSUME NEW d, NEW d2, NEW f, NEW c, NEW h, NEW s, Follows(h, s, d, f, c), SameFile(d, d2, f)
    PROVE  Follows(h, s, d2, f, c)
  <1>1. d2.inode[f] = d.inode[f] /\ List(d2.inode[f].root, d2.block) = List(d.inode[f].root, d.block)
    BY DEF SameFile
  <1>2. Knows(h, d, f, c) => Knows(h, d2, f, c)
    BY <1>1 DEF Knows
  <1> QED
    BY <1>2 DEF Follows

LEMMA ExtendsOn ==
    ASSUME NEW k \in Seq(Extents), NEW l \in Seq(Extents), NEW l2 \in Seq(Extents), Extends(k, l), Extends(l, l2)
    PROVE  Extends(k, l2)
  <1> SUFFICES ASSUME NEW x \in DOMAIN k
               PROVE  /\ x \in DOMAIN l2 /\ l2[x].block = k[x].block
                      /\ l2[x].start = k[x].start /\ l2[x].len >= k[x].len
    BY DEF Extends
  <1>1. x \in DOMAIN l /\ l[x].block = k[x].block /\ l[x].start = k[x].start /\ l[x].len >= k[x].len
    BY DEF Extends
  <1>2. x \in DOMAIN l2 /\ l2[x].block = l[x].block /\ l2[x].start = l[x].start /\ l2[x].len >= l[x].len
    BY <1>1 DEF Extends
  <1>3. k[x].len \in Nat /\ l[x].len \in Nat /\ l2[x].len \in Nat
    BY <1>1, <1>2, EntryTyped
  <1> QED
    BY <1>1, <1>2, <1>3

LEMMA KnowsGrown ==
    ASSUME NEW d, NEW d2, NEW f, NEW c \in Seq(Words), NEW o \in Seq(Words), Len(c) <= Len(o),
           NEW h, h.extents \in Seq(Extents), h.size \in Nat, Knows(h, d, f, c),
           List(d.inode[f].root, d.block) \in Seq(Extents), List(d2.inode[f].root, d2.block) \in Seq(Extents),
           Extends(List(d.inode[f].root, d.block), List(d2.inode[f].root, d2.block)), Counted(d2.inode[f].root)
    PROVE  Knows(h, d2, f, o)
  <1> DEFINE l == List(d.inode[f].root, d.block)
             l2 == List(d2.inode[f].root, d2.block)
             k == h.extents
             n == h.size
  <1>1. Extends(k, l) /\ Shape(k, n) /\ n <= Len(c) /\ k \in Seq(Extents) /\ n \in Nat
    BY DEF Knows
  <1>2. l \in Seq(Extents) /\ l2 \in Seq(Extents) /\ Extends(l, l2)
    OBVIOUS
  <1> HIDE DEF l, l2, k, n
  <1>3. Extends(k, l2)
    BY <1>1, <1>2, ExtendsOn
  <1>4. n <= Len(o)
    BY <1>1
  <1> QED
    BY <1>1, <1>3, <1>4 DEF Knows, l2, k, n

\* What a write leaves behind: the words o in file f, whose paths know its start at least.
AfterWrite(d, c, o, f) ==
    /\ Contents(d, [c EXCEPT ![f] = o])
    /\ Handles(files, Grown(f), d, [c EXCEPT ![f] = o])
    /\ Knows([extents |-> List(d.inode[f].root, d.block), size |-> d.inode[f].size], d, f, o)
    /\ d.inode[f].size = Len(o)

LEMMA WriteWords ==
    ASSUME NoSplit, SafeDev(dev), Opened(files), seen \in [Paths -> {"all", "start", "lost"}],
           Contents(dev, content), Handles(files, seen, dev, content), NEW f \in Files,
           NEW w \in Seq(Words), w # <<>>, NEW start \in Nat, start + Len(w) <= MaxSize[f],
           start <= dev.inode[f].size, NEW o, Replaced(o, content[f], start, w),
           WriteFileAt(Begin(f), start, w).status = "ok"
    PROVE  AfterWrite(WithInode(WriteFileAt(Begin(f), start, w), f), content, o, f)
  <1> DEFINE d == WithInode(WriteFileAt(Begin(f), start, w), f)
             c == content[f]
             l == List(dev.inode[f].root, dev.block)
             l2 == List(d.inode[f].root, d.block)
             C == [content EXCEPT ![f] = o]
  <1>1. /\ content \in [Files -> Seq(Words)] /\ c \in Seq(Words) /\ FileHolds(dev, f, c)
        /\ \A g \in Files : FileHolds(dev, g, content[g])
    BY DEF Contents
  <1>2. o \in Seq(Words) /\ Len(c) <= Len(o)
    <2> DEFINE n == start + Len(w)
    <2>1. o \in Seq(Words) /\ Len(o) = (IF n > Len(c) THEN n ELSE Len(c)) /\ n \in Nat
      BY DEF Replaced
    <2>2. Len(c) \in Nat
      BY <1>1
    <2> HIDE DEF n, c
    <2> QED
      BY <2>1, <2>2
  <1>3. FileHolds(d, f, o) /\ Counted(d.inode[f].root) /\ Counted(dev.inode[f].root) /\ Extends(l, l2)
    BY <1>1, WriteHolds
  <1>4. OthersSame(dev, d, f)
    BY WriteSpares
  <1>5. SafeDev(d)
    BY WriteSafe
  <1> HIDE DEF d, c
  <1>6. l \in Seq(Extents) /\ l2 \in Seq(Extents)
    <2>1. Orderly(l, f)
      BY DEF SafeDev, Sound, TreesOK
    <2>2. Orderly(l2, f)
      BY <1>5 DEF SafeDev, Sound, TreesOK
    <2> QED
      BY <2>1, <2>2 DEF Orderly
  <1>7. C \in [Files -> Seq(Words)] /\ C[f] = o /\ \A g \in Files : g # f => C[g] = content[g]
    BY <1>1, <1>2
  <1> HIDE DEF C
  <1>8. Contents(d, C)
    <2>1. ASSUME NEW g \in Files
          PROVE  FileHolds(d, g, C[g])
      <3>1. CASE g = f
        BY <1>3, <1>7, <3>1
      <3>2. CASE g # f
        <4>1. SameFile(dev, d, g) /\ FileHolds(dev, g, content[g])
          BY <1>1, <1>4, <3>2 DEF OthersSame
        <4>2. FileHolds(d, g, content[g])
          BY <4>1, SameHolds
        <4> QED
          BY <1>7, <3>2, <4>2
      <3> QED
        BY <3>1, <3>2
    <2> QED
      BY <1>7, <2>1 DEF Contents
  <1>9. Handles(files, Grown(f), d, C)
    <2> SUFFICES ASSUME NEW p \in DOMAIN files
                 PROVE  Follows(files[p], Grown(f)[p], d, InodeOf[p], C[InodeOf[p]])
      BY DEF Handles
    <2> DEFINE g == InodeOf[p]
               h == files[p]
    <2>1. p \in Paths /\ h.extents \in Seq(Extents) /\ h.size \in 0 .. MaxSize[g]
      BY DEF Opened
    <2>2. g \in Files /\ h.size \in Nat
      <3>1. g \in Files
        BY <2>1, PathsAssumption
      <3>2. MaxSize[g] \in Nat
        BY <3>1, BoundsAssumption
      <3> HIDE DEF g, h
      <3> QED
        BY <2>1, <3>1, <3>2
    <2>3. Follows(h, seen[p], dev, g, content[g])
      BY DEF Handles
    <2>4. Grown(f)[p] = IF g = f /\ seen[p] = "all" THEN "start" ELSE seen[p]
      BY <2>1 DEF Grown
    <2> HIDE DEF g, h
    <2>5. CASE g # f
      <3>1. SameFile(dev, d, g)
        BY <1>4, <2>2, <2>5 DEF OthersSame
      <3>2. Follows(h, seen[p], d, g, content[g])
        BY <2>3, <3>1, FollowsSame
      <3>3. Grown(f)[p] = seen[p] /\ C[g] = content[g]
        BY <1>7, <2>2, <2>4, <2>5
      <3> QED
        BY <3>2, <3>3 DEF g, h
    <2>6. CASE g = f
      <3>1. seen[p] = "lost" => Grown(f)[p] = "lost"
        BY <2>4
      <3>2. Grown(f)[p] # "all"
        BY <2>4, <2>6
      <3>3. seen[p] # "lost" => Knows(h, dev, f, c)
        BY <2>3, <2>6 DEF Follows, c
      <3>4. Knows(h, dev, f, c) => Knows(h, d, f, o)
        BY <1>1, <1>2, <1>3, <1>6, <2>1, <2>2, KnowsGrown
      <3>5. Follows(h, Grown(f)[p], d, f, o)
        BY <3>1, <3>2, <3>3, <3>4 DEF Follows
      <3> QED
        BY <1>7, <2>6, <3>5 DEF g, h
    <2> QED
      BY <2>5, <2>6
  <1>10. d.inode[f].size = Len(o) /\ Shape(l2, Len(o))
    BY <1>3 DEF FileHolds
  <1>11. Extends(l2, l2)
    <2>1. \A x \in DOMAIN l2 : l2[x].len >= l2[x].len
      <3> TAKE x \in DOMAIN l2
      <3>1. l2[x].len \in Nat
        BY <1>6, EntryTyped
      <3> QED
        BY <3>1
    <2> QED
      BY <2>1 DEF Extends
  <1>12. Knows([extents |-> l2, size |-> d.inode[f].size], d, f, o)
    <2>1. Len(o) <= Len(o)
      BY <1>2
    <2> DEFINE h == [extents |-> l2, size |-> d.inode[f].size]
    <2>2. h.extents = l2 /\ h.size = Len(o)
      BY <1>10
    <2> HIDE DEF h
    <2>3. Knows(h, d, f, o)
      BY <1>3, <1>10, <1>11, <2>1, <2>2 DEF Knows
    <2> QED
      BY <2>3 DEF h
  <1>13. AfterWrite(d, content, o, f)
    BY <1>8, <1>9, <1>10, <1>12 DEF AfterWrite, C
  <1> QED
    BY <1>13 DEF d

\* A path that wrote knows the file as it is now.
LEMMA RefreshedIs ==
    ASSUME NoSplit, SafeDev(dev), NEW f \in Files, NEW w \in Seq(Words), w # <<>>,
           NEW start \in Nat, start + Len(w) <= MaxSize[f],
           WriteFileAt(Begin(f), start, w).status = "ok", NEW old
    PROVE  LET r == WriteFileAt(Begin(f), start, w)
               d == WithInode(r, f)
           IN  Refreshed(old, r) = [extents |-> List(d.inode[f].root, d.block), size |-> d.inode[f].size]
  <1> DEFINE r == WriteFileAt(Begin(f), start, w)
             first == start \div BlockWords
             last == (start + Len(w) - 1) \div BlockWords
             d == WithInode(r, f)
             x == ReadExtents(r.dev, r.mem)
  <1>1. r.status = "ok" /\ r.status # "error"
    OBVIOUS
  <1>2. Written(Begin(f), r, f, first, last, start + Len(w))
    <2>1. \/ /\ r.status = "panic" /\ start > first * BlockWords
             /\ Panicked(Begin(f), r, f, Entries(Begin(f)), first)
          \/ /\ r.status = "ok" /\ Written(Begin(f), r, f, first, last, start + Len(w))
             /\ Laid(Begin(f), r, f, start, w, first, last)
      BY <1>1, WriteLeaves
    <2> HIDE DEF r, first, last
    <2> QED
      BY <1>1, <2>1
  <1>3. SafeDev(d)
    BY WriteSafe
  <1> HIDE DEF r, first, last
  <1>4. r \in Results /\ Counted(r.mem.root)
    BY <1>2 DEF Written
  <1>5. r.dev \in Devices /\ r.mem \in Inodes /\ r.mem.root \in Roots
        /\ r.dev.block \in [Blocks -> DeviceBlocks] /\ r.dev.inode \in [Files -> Inodes]
    <2>1. r.dev \in Devices /\ r.mem \in Inodes
      BY <1>4, ResultFields
    <2> QED
      BY <2>1 DEF Devices, Inodes
  <1>6. d.inode[f] = r.mem /\ d.block = r.dev.block
    <2>1. d.inode = [r.dev.inode EXCEPT ![f] = r.mem] /\ d.block = r.dev.block
      BY <1>5, WithInodeIs
    <2> QED
      BY <1>5, <2>1
  <1> HIDE DEF d
  <1>7. Tree(r.mem.root, r.dev.block)
    BY <1>3, <1>6 DEF SafeDev, Sound, TreesOK
  <1>8. x.list = List(r.mem.root, r.dev.block) /\ (x.ok <=> Counted(r.mem.root))
    BY <1>5, <1>7, ReadExtentsIs
  <1>9. Refreshed(old, r) = [extents |-> IF x.ok THEN x.list ELSE old.extents, size |-> r.mem.size]
    BY Zenon DEF Refreshed
  <1> HIDE DEF x
  <1>10. x.ok
    BY <1>4, <1>8, Zenon
  <1>11. Refreshed(old, r) = [extents |-> x.list, size |-> r.mem.size]
    BY <1>9, <1>10
  <1>12. Refreshed(old, r) = [extents |-> List(d.inode[f].root, d.block), size |-> d.inode[f].size]
    BY <1>6, <1>8, <1>11
  <1> QED
    BY <1>12 DEF d, r

\* What the history variables say of the device and the table of open files.
Faithful(d, c, t, sn) ==
    sn \in [Paths -> {"all", "start", "lost"}] /\ Contents(d, c) /\ Handles(t, sn, d, c)

\* With that, the invariant for the words of the files.
WordsInv == DataInv /\ Faithful(dev, content, files, seen)

\* A table with another entry for p.
ChangedAt(t, sn, t2, sn2, p) ==
    /\ DOMAIN t2 \subseteq DOMAIN t \union {p}
    /\ \A q \in DOMAIN t2 : q # p => t2[q] = t[q] /\ sn2[q] = sn[q]

LEMMA HandlesWith ==
    ASSUME NEW t, NEW sn, NEW d, NEW c, Handles(t, sn, d, c), NEW p, NEW t2, NEW sn2, ChangedAt(t, sn, t2, sn2, p),
           p \in DOMAIN t2 => Follows(t2[p], sn2[p], d, InodeOf[p], c[InodeOf[p]])
    PROVE  Handles(t2, sn2, d, c)
  <1> SUFFICES ASSUME NEW q \in DOMAIN t2
               PROVE  Follows(t2[q], sn2[q], d, InodeOf[q], c[InodeOf[q]])
    BY DEF Handles
  <1>1. CASE q = p
    BY <1>1
  <1>2. CASE q # p
    BY <1>2 DEF Handles, ChangedAt
  <1> QED
    BY <1>1, <1>2

LEMMA OpenWords ==
    ASSUME WordsInv, NEW p \in Paths, Open(p)
    PROVE  Faithful(dev', content', files', seen')
  <1> DEFINE f == InodeOf[p]
             x == ReadExtents(dev, dev.inode[f])
             l == List(dev.inode[f].root, dev.block)
             c == content[f]
             h == [extents |-> l, size |-> dev.inode[f].size]
  <1>1. f \in Files
    BY PathsAssumption
  <1>2. SafeDev(dev) /\ seen \in [Paths -> {"all", "start", "lost"}]
        /\ Contents(dev, content) /\ Handles(files, seen, dev, content)
    BY DEF WordsInv, DataInv, Inv, Faithful
  <1>3. /\ x.ok /\ dev' = dev /\ content' = content /\ seen' = [seen EXCEPT ![p] = "all"]
        /\ files' = [q \in DOMAIN files \union {p} |->
                        IF q = p THEN [extents |-> x.list, size |-> dev.inode[f].size] ELSE files[q]]
    BY Zenon DEF Open
  <1> HIDE DEF f
  <1>4. /\ dev.inode[f] \in Inodes /\ Tree(dev.inode[f].root, dev.block)
        /\ dev.block \in [Blocks -> DeviceBlocks] /\ Orderly(l, f)
    <2>1. Orderly(Entries(Begin(f)), f) /\ Entries(Begin(f)) = l
      BY <1>1, <1>2, Begins
    <2> QED
      BY <1>1, <1>2, <2>1, Begins
  <1>5. x.list = l /\ (x.ok <=> Counted(dev.inode[f].root))
    BY <1>4, ReadExtentsIs DEF Inodes
  <1> HIDE DEF x
  <1>6. Counted(dev.inode[f].root)
    BY <1>3, <1>5, Zenon
  <1>7. files' = [q \in DOMAIN files \union {p} |-> IF q = p THEN h ELSE files[q]]
    BY <1>3, <1>5
  <1>8. Len(c) = dev.inode[f].size /\ Shape(l, Len(c)) /\ c \in Seq(Words)
    BY <1>1, <1>2, <1>6 DEF Contents, FileHolds
  <1> HIDE DEF c
  <1>9. Follows(h, "all", dev, f, c)
    <2>1. l \in Seq(Extents)
      BY <1>4 DEF Orderly
    <2> HIDE DEF l
    <2>2. Extends(l, l)
      <3>1. \A y \in DOMAIN l : l[y].len >= l[y].len
        <4> TAKE y \in DOMAIN l
        <4>1. l[y].len \in Nat
          BY <2>1, EntryTyped
        <4> QED
          BY <4>1
      <3> QED
        BY <3>1 DEF Extends
    <2>3. h.extents = l /\ h.size = Len(c) /\ Len(c) <= Len(c)
      BY <1>8
    <2> HIDE DEF h
    <2>4. Knows(h, dev, f, c)
      BY <1>6, <1>8, <2>2, <2>3 DEF Knows, l
    <2> QED
      BY <2>3, <2>4 DEF Follows
  <1> HIDE DEF h, l
  <1>10. Handles(files', seen', dev, content)
    <2>1. seen'[p] = "all" /\ \A q \in Paths : q # p => seen'[q] = seen[q]
      BY <1>2, <1>3
    <2>2. DOMAIN files \subseteq Paths
      BY DEF WordsInv, DataInv, Inv, Opened
    <2>3. DOMAIN files' = DOMAIN files \union {p} /\ files'[p] = h /\ \A q \in DOMAIN files : q # p => files'[q] = files[q]
      BY <1>7
    <2>4. Follows(files'[p], seen'[p], dev, InodeOf[p], content[InodeOf[p]])
      BY <1>9, <2>1, <2>3 DEF c, f
    <2>5. \A q \in DOMAIN files' : q # p => files'[q] = files[q] /\ seen'[q] = seen[q]
      BY <2>1, <2>2, <2>3
    <2>6. ChangedAt(files, seen, files', seen', p)
      BY <2>3, <2>5 DEF ChangedAt
    <2> QED
      BY <1>2, <2>4, <2>6, HandlesWith
  <1>11. seen' \in [Paths -> {"all", "start", "lost"}]
    BY <1>2, <1>3
  <1> QED
    BY <1>2, <1>3, <1>10, <1>11 DEF Faithful

LEMMA ReleaseWords ==
    ASSUME WordsInv, NEW p \in Paths, Release(p)
    PROVE  Faithful(dev', content', files', seen')
  <1>1. seen \in [Paths -> {"all", "start", "lost"}] /\ Contents(dev, content) /\ Handles(files, seen, dev, content)
        /\ DOMAIN files \subseteq Paths
    BY DEF WordsInv, DataInv, Inv, Faithful, Opened
  <1>2. /\ files' = [q \in DOMAIN files \ {p} |-> files[q]] /\ seen' = [seen EXCEPT ![p] = "lost"]
        /\ dev' = dev /\ content' = content
    BY DEF Release
  <1>3. DOMAIN files' = DOMAIN files \ {p} /\ \A q \in DOMAIN files : q # p => files'[q] = files[q]
    BY <1>2
  <1>4. seen' \in [Paths -> {"all", "start", "lost"}] /\ \A q \in Paths : q # p => seen'[q] = seen[q]
    BY <1>1, <1>2
  <1>5. ChangedAt(files, seen, files', seen', p)
    BY <1>1, <1>3, <1>4 DEF ChangedAt
  <1>6. p \notin DOMAIN files'
    BY <1>3
  <1>7. Handles(files', seen', dev, content)
    BY <1>1, <1>5, <1>6, HandlesWith
  <1> QED
    BY <1>1, <1>2, <1>4, <1>7 DEF Faithful

LEMMA WriteFaithful ==
    ASSUME NoSplit, WordsInv, NEW p \in Paths, NEW n \in Nat \ {0}, NEW start \in Nat,
           start + n <= MaxSize[InodeOf[p]], start <= dev.inode[InodeOf[p]].size, Write(p, start, n)
    PROVE  Faithful(dev', content', files', seen')
  <1> DEFINE f == InodeOf[p]
             w == [i \in 1 .. n |-> Word(f, start + i - 1)]
             s == WriteFileAt(Begin(f), start, w)
             d == WithInode(s, f)
             c == content[f]
             o == Overwrite(c, start, w)
             C == [content EXCEPT ![f] = o]
             h == [extents |-> List(d.inode[f].root, d.block), size |-> d.inode[f].size]
  <1>1. f \in Files
    BY PathsAssumption
  <1>2. SafeDev(dev) /\ DataSafe(dev) /\ Opened(files) /\ seen \in [Paths -> {"all", "start", "lost"}]
        /\ Contents(dev, content) /\ Handles(files, seen, dev, content)
    BY DEF WordsInv, DataInv, Inv, Faithful
  <1>3. \/ /\ s.status = "ok" /\ dev' = d /\ files' = [files EXCEPT ![p] = Refreshed(@, s)]
           /\ content' = [content EXCEPT ![f] = Overwrite(@, start, w)] /\ seen' = [Grown(f) EXCEPT ![p] = "all"]
        \/ /\ s.status = "ok" /\ files' = [files EXCEPT ![p] = Refreshed(@, s)]
           /\ seen' = [seen EXCEPT ![p] = "lost"] /\ dev' = dev /\ content' = content
        \/ s.status = "panic" /\ dev' = s.dev /\ files' = files /\ content' = content /\ seen' = seen
    BY Zenon DEF Write
  <1>4. start + n <= MaxSize[f] /\ start <= dev.inode[f].size
    OBVIOUS
  <1>5. p \in DOMAIN files
    BY DEF Write
  <1> HIDE DEF f
  <1>6. w \in Seq(Words) /\ w # <<>> /\ Len(w) = n
    BY <1>1, <1>4, BufferTyped
  <1> HIDE DEF w
  <1>7. s.status = "panic" => s.dev = dev
    BY <1>1, <1>2, <1>4, <1>6, WriteCovers
  <1>8. content \in [Files -> Seq(Words)] /\ c \in Seq(Words) /\ FileHolds(dev, f, c) /\ DOMAIN files \subseteq Paths
    BY <1>1, <1>2 DEF Contents, Opened
  <1>9. s.status = "ok" => s.status # "error"
    OBVIOUS
  <1>10. s.status = "ok" => Counted(dev.inode[f].root)
    BY <1>1, <1>2, <1>6, <1>9, WriteFails
  <1>11. s.status = "ok" => AfterWrite(d, content, o, f)
    <2> HAVE s.status = "ok"
    <2>1. Len(c) = dev.inode[f].size
      BY <1>8, <1>10 DEF FileHolds
    <2>2. start <= Len(c)
      BY <1>4, <2>1
    <2>3. Replaced(o, c, start, w)
      BY <1>6, <1>8, <2>2, OverwriteIs
    <2> HIDE DEF o
    <2> QED
      BY <1>1, <1>2, <1>4, <1>6, <2>3, WriteWords
  <1>12. s.status = "ok" => Refreshed(files[p], s) = h
    BY <1>1, <1>2, <1>4, <1>6, RefreshedIs
  <1> HIDE DEF s, d, h, o, c, C
  <1>13. CASE /\ s.status = "ok" /\ dev' = d /\ files' = [files EXCEPT ![p] = Refreshed(@, s)]
              /\ content' = [content EXCEPT ![f] = Overwrite(@, start, w)] /\ seen' = [Grown(f) EXCEPT ![p] = "all"]
    <2>1. content' = C
      BY <1>13 DEF C, o, c
    <2>2. Contents(d, C) /\ Handles(files, Grown(f), d, C) /\ Knows(h, d, f, o) /\ h.size = Len(o)
      BY <1>11, <1>13 DEF AfterWrite, C, h
    <2>3. C[f] = o
      BY <1>1, <1>8 DEF C
    <2>4. Grown(f) \in [Paths -> {"all", "start", "lost"}]
      BY <1>2 DEF Grown
    <2>5. /\ seen' \in [Paths -> {"all", "start", "lost"}] /\ seen'[p] = "all"
          /\ \A q \in Paths : q # p => seen'[q] = Grown(f)[q]
      BY <1>13, <2>4
    <2>6. DOMAIN files' = DOMAIN files /\ files'[p] = h /\ \A q \in DOMAIN files : q # p => files'[q] = files[q]
      BY <1>5, <1>12, <1>13
    <2>7. Follows(files'[p], seen'[p], d, InodeOf[p], C[InodeOf[p]])
      BY <2>2, <2>3, <2>5, <2>6 DEF Follows, f
    <2>8. ChangedAt(files, Grown(f), files', seen', p)
      BY <1>8, <2>5, <2>6 DEF ChangedAt
    <2>9. Handles(files', seen', d, C)
      BY <2>2, <2>7, <2>8, HandlesWith
    <2> QED
      BY <1>13, <2>1, <2>2, <2>5, <2>9 DEF Faithful
  <1>14. CASE /\ s.status = "ok" /\ files' = [files EXCEPT ![p] = Refreshed(@, s)]
              /\ seen' = [seen EXCEPT ![p] = "lost"] /\ dev' = dev /\ content' = content
    <2>1. /\ seen' \in [Paths -> {"all", "start", "lost"}] /\ seen'[p] = "lost"
          /\ \A q \in Paths : q # p => seen'[q] = seen[q]
      BY <1>2, <1>14
    <2>2. DOMAIN files' = DOMAIN files /\ \A q \in DOMAIN files : q # p => files'[q] = files[q]
      BY <1>14
    <2>3. Follows(files'[p], seen'[p], dev, InodeOf[p], content[InodeOf[p]])
      BY <2>1 DEF Follows
    <2>4. ChangedAt(files, seen, files', seen', p)
      BY <1>8, <2>1, <2>2 DEF ChangedAt
    <2>5. Handles(files', seen', dev, content)
      BY <1>2, <2>3, <2>4, HandlesWith
    <2> QED
      BY <1>2, <1>14, <2>1, <2>5 DEF Faithful
  <1>15. CASE s.status = "panic" /\ dev' = s.dev /\ files' = files /\ content' = content /\ seen' = seen
    BY <1>2, <1>7, <1>15 DEF Faithful
  <1> QED
    BY <1>3, <1>13, <1>14, <1>15

LEMMA GrowFaithful ==
    ASSUME NoSplit, WordsInv, NEW p \in Paths, NEW size \in 0 .. MaxSize[InodeOf[p]], Grow(p, size)
    PROVE  Faithful(dev', content', files', seen')
  <1> DEFINE f == InodeOf[p]
             old == dev.inode[f].size
             w == [i \in 1 .. size - old |-> Zero]
             s == WriteFileAt(Begin(f), old, w)
             d == WithInode(s, f)
             c == content[f]
             o == Overwrite(c, size, <<>>)
             C == [content EXCEPT ![f] = o]
  <1>1. f \in Files
    BY PathsAssumption
  <1>2. SafeDev(dev) /\ DataSafe(dev) /\ Opened(files) /\ seen \in [Paths -> {"all", "start", "lost"}]
        /\ Contents(dev, content) /\ Handles(files, seen, dev, content)
    BY DEF WordsInv, DataInv, Inv, Faithful
  <1>3. \/ /\ s.status = "ok" /\ dev' = d /\ seen' = Grown(f)
           /\ content' = [content EXCEPT ![f] = Overwrite(@, size, <<>>)]
        \/ s.status = "panic" /\ dev' = s.dev /\ content' = content /\ seen' = seen
    BY Zenon DEF Grow
  <1>4. size > old /\ size \in 0 .. MaxSize[f] /\ files' = files
    BY DEF Grow
  <1> HIDE DEF f
  <1>5. old \in Nat /\ MaxSize[f] \in Nat /\ old <= dev.inode[f].size
    <2>1. dev.inode[f] \in Inodes
      BY <1>1, <1>2, Begins
    <2> QED
      BY <1>1, <2>1, BoundsAssumption DEF Inodes
  <1>6. c \in Seq(Words) /\ FileHolds(dev, f, c)
    BY <1>1, <1>2 DEF Contents
  <1>7. Counted(dev.inode[f].root) => Len(c) = old
    BY <1>6 DEF FileHolds
  <1> HIDE DEF old, c
  <1>8. size - old \in Nat \ {0} /\ old + (size - old) = size /\ size \in Nat
    BY <1>4, <1>5
  <1>9. w \in Seq(Words) /\ w # <<>> /\ Len(w) = size - old
    BY <1>8, ZerosTyped
  <1>10. Len(c) = old => Replaced(o, c, old, w)
    <2> HAVE Len(c) = old
    <2>1. Replaced(Overwrite(c, size, <<>>), c, Len(c), [i \in 1 .. size - Len(c) |-> Zero])
      <3>1. size > Len(c)
        BY <1>4
      <3> QED
        BY <1>6, <1>8, <3>1, OverwriteZeros
    <2> QED
      BY <2>1
  <1> HIDE DEF w, o
  <1>11. old + Len(w) <= MaxSize[f]
    BY <1>4, <1>5, <1>8, <1>9
  <1>12. s.status = "panic" => s.dev = dev
    BY <1>1, <1>2, <1>5, <1>9, <1>11, WriteCovers
  <1>13. s.status = "ok" => Counted(dev.inode[f].root)
    <2>1. s.status = "ok" => s.status # "error"
      OBVIOUS
    <2> QED
      BY <1>1, <1>2, <1>9, <2>1, WriteFails
  <1>14. s.status = "ok" => AfterWrite(d, content, o, f)
    <2> HAVE s.status = "ok"
    <2>1. Replaced(o, content[f], old, w)
      BY <1>7, <1>10, <1>13 DEF c
    <2> QED
      BY <1>1, <1>2, <1>5, <1>9, <1>11, <2>1, WriteWords
  <1> HIDE DEF s, d
  <1>15. CASE /\ s.status = "ok" /\ dev' = d /\ seen' = Grown(f)
              /\ content' = [content EXCEPT ![f] = Overwrite(@, size, <<>>)]
    <2>1. content' = C
      BY <1>15 DEF o, c
    <2>2. Contents(d, C) /\ Handles(files, Grown(f), d, C)
      BY <1>14, <1>15 DEF AfterWrite
    <2>3. Grown(f) \in [Paths -> {"all", "start", "lost"}]
      BY <1>2 DEF Grown
    <2> HIDE DEF C
    <2> QED
      BY <1>4, <1>15, <2>1, <2>2, <2>3 DEF Faithful
  <1>16. CASE s.status = "panic" /\ dev' = s.dev /\ content' = content /\ seen' = seen
    BY <1>2, <1>4, <1>12, <1>16 DEF Faithful
  <1> QED
    BY <1>3, <1>15, <1>16

LEMMA ShrinkFaithful ==
    ASSUME WordsInv, NEW p \in Paths, NEW size \in 0 .. MaxSize[InodeOf[p]], Shrink(p, size)
    PROVE  Faithful(dev', content', files', seen')
  <1> DEFINE f == InodeOf[p]
             t == TruncateInode(Begin(f), size)
             d == WithInode(t, f)
             o == SubSeq(content[f], 1, size)
             C == [content EXCEPT ![f] = o]
  <1>1. f \in Files
    BY PathsAssumption
  <1>2. SafeDev(dev) /\ Opened(files) /\ seen \in [Paths -> {"all", "start", "lost"}]
        /\ Contents(dev, content) /\ Handles(files, seen, dev, content)
    BY DEF WordsInv, DataInv, Inv, Faithful
  <1>3. /\ t.status = "ok" /\ dev' = d /\ size < dev.inode[f].size /\ files' = files /\ content' = C
        /\ seen' = [q \in Paths |-> IF InodeOf[q] = f THEN "lost" ELSE seen[q]]
    BY DEF Shrink
  <1>4. size \in Nat
    BY <1>1, BoundsAssumption
  <1> HIDE DEF f
  <1>5. content \in [Files -> Seq(Words)] /\ content[f] \in Seq(Words) /\ \A g \in Files : FileHolds(dev, g, content[g])
    BY <1>1, <1>2 DEF Contents
  <1>6. FileHolds(d, f, o) /\ OthersSame(dev, d, f)
    BY <1>1, <1>2, <1>3, <1>4, <1>5, ShrinkHolds
  <1>7. o \in Seq(Words)
    <2>1. size <= Len(content[f])
      <3>1. Counted(dev.inode[f].root) /\ dev.inode[f].size \in Nat
        <4>1. Counted(dev.inode[f].root)
          BY <1>1, <1>2, <1>3, <1>4, ShrinkLeaves
        <4>2. dev.inode[f] \in Inodes
          BY <1>1, <1>2, Begins
        <4> QED
          BY <4>1, <4>2 DEF Inodes
      <3>2. Len(content[f]) = dev.inode[f].size
        BY <1>1, <1>5, <3>1 DEF FileHolds
      <3> QED
        BY <1>3, <1>4, <3>1, <3>2
    <2> QED
      BY <1>4, <1>5, <2>1
  <1> HIDE DEF t, d, o
  <1>8. C \in [Files -> Seq(Words)] /\ C[f] = o /\ \A g \in Files : g # f => C[g] = content[g]
    BY <1>1, <1>5, <1>7
  <1> HIDE DEF C
  <1>9. ASSUME NEW g \in Files
        PROVE  FileHolds(d, g, C[g])
    <2>1. CASE g = f
      BY <1>6, <1>8, <2>1
    <2>2. CASE g # f
      <3>1. SameFile(dev, d, g) /\ FileHolds(dev, g, content[g])
        BY <1>5, <1>6, <2>2 DEF OthersSame
      <3>2. FileHolds(d, g, content[g])
        BY <3>1, SameHolds
      <3> QED
        BY <1>8, <2>2, <3>2
    <2> QED
      BY <2>1, <2>2
  <1>10. Contents(d, C)
    BY <1>8, <1>9 DEF Contents
  <1>11. seen' \in [Paths -> {"all", "start", "lost"}]
    BY <1>2, <1>3
  <1>12. Handles(files, seen', d, C)
    <2> SUFFICES ASSUME NEW q \in DOMAIN files
                 PROVE  Follows(files[q], seen'[q], d, InodeOf[q], C[InodeOf[q]])
      BY DEF Handles
    <2> DEFINE g == InodeOf[q]
    <2>1. q \in Paths /\ g \in Files
      BY <1>2, PathsAssumption DEF Opened
    <2>2. seen'[q] = IF g = f THEN "lost" ELSE seen[q]
      BY <1>3, <2>1
    <2>3. Follows(files[q], seen[q], dev, g, content[g])
      BY <1>2 DEF Handles
    <2> HIDE DEF g
    <2>4. CASE g = f
      BY <2>2, <2>4 DEF Follows
    <2>5. CASE g # f
      <3>1. SameFile(dev, d, g)
        BY <1>6, <2>1, <2>5 DEF OthersSame
      <3>2. Follows(files[q], seen[q], d, g, content[g])
        BY <2>3, <3>1, FollowsSame
      <3> QED
        BY <1>8, <2>1, <2>2, <2>5, <3>2 DEF g
    <2> QED
      BY <2>4, <2>5
  <1> QED
    BY <1>3, <1>10, <1>11, <1>12 DEF Faithful

LEMMA InitWords ==
    Init => WordsInv
  <1> SUFFICES ASSUME Init PROVE WordsInv
    OBVIOUS
  <1>1. DataInv
    BY InitData
  <1>2. files = <<>> /\ content = [f \in Files |-> <<>>] /\ seen = [p \in Paths |-> "lost"]
        /\ dev.inode = [f \in Files |-> [size |-> 0, root |-> EmptyRoot]]
    BY DEF Init
  <1>3. <<>> \in Seq(Words) /\ Len(<<>>) = 0 /\ DOMAIN <<>> = {}
    OBVIOUS
  <1>4. Shape(<<>>, 0)
    <2>1. \A m \in Nat : ~(m * BlockWords < 0)
      <3> TAKE m \in Nat
      <3>1. m * BlockWords \in Nat
        BY SizesAssumption
      <3> QED
        BY <3>1
    <2> QED
      BY <1>3, <2>1 DEF Shape, Ascending, Holds
  <1>5. \A B : Carries(<<>>, B, <<>>)
    BY <1>3 DEF Carries, Holds
  <1>6. ASSUME NEW f \in Files
        PROVE  FileHolds(dev, f, content[f])
    <2>1. dev.inode[f].root = EmptyRoot /\ dev.inode[f].size = 0 /\ content[f] = <<>>
      BY <1>2
    <2>2. List(EmptyRoot, dev.block) = <<>>
      BY DEF List, EmptyRoot
    <2> QED
      BY <1>3, <1>4, <1>5, <2>1, <2>2 DEF FileHolds
  <1>7. content \in [Files -> Seq(Words)]
    BY <1>2, <1>3
  <1>8. Handles(files, seen, dev, content)
    BY <1>2, <1>3 DEF Handles
  <1>9. seen \in [Paths -> {"all", "start", "lost"}]
    BY <1>2
  <1> QED
    BY <1>1, <1>6, <1>7, <1>8, <1>9 DEF WordsInv, Faithful, Contents

LEMMA NextWords ==
    NoSplit /\ ~Sparse /\ WordsInv /\ [Next]_vars => WordsInv'
  <1> SUFFICES ASSUME NoSplit, ~Sparse, WordsInv, [Next]_vars PROVE Faithful(dev', content', files', seen')
    BY NextData DEF WordsInv
  <1>1. ASSUME NEW p \in Paths, Open(p) \/ Release(p)
        PROVE  Faithful(dev', content', files', seen')
    BY <1>1, OpenWords, ReleaseWords
  <1>2. ASSUME NEW p \in Paths, NEW n \in 1 .. MaxBuf, NEW start \in 0 .. MaxSize[InodeOf[p]] - n,
               Sparse \/ start <= dev.inode[InodeOf[p]].size, Write(p, start, n)
        PROVE  Faithful(dev', content', files', seen')
    <2> DEFINE m == MaxSize[InodeOf[p]]
    <2>1. m \in Nat /\ MaxBuf \in Nat
      BY PathsAssumption, BoundsAssumption
    <2>2. start \in 0 .. m - n
      OBVIOUS
    <2>3. start <= dev.inode[InodeOf[p]].size
      BY <1>2, Zenon
    <2> HIDE DEF m
    <2>4. n \in Nat \ {0} /\ start \in Nat /\ start + n <= m
      BY <2>1, <2>2
    <2> QED
      BY <1>2, <2>3, <2>4, WriteFaithful DEF m
  <1>3. ASSUME NEW p \in Paths, NEW size \in 0 .. MaxSize[InodeOf[p]], Grow(p, size)
        PROVE  Faithful(dev', content', files', seen')
    BY <1>3, GrowFaithful
  <1>4. ASSUME NEW p \in Paths, NEW size \in 0 .. MaxSize[InodeOf[p]], Shrink(p, size)
        PROVE  Faithful(dev', content', files', seen')
    BY <1>4, ShrinkFaithful
  <1>5. CASE Remount
    <2>1. files' = <<>> /\ seen' = [p \in Paths |-> "lost"] /\ dev' = dev /\ content' = content
      BY <1>5 DEF Remount
    <2>2. seen' \in [Paths -> {"all", "start", "lost"}]
      BY <2>1
    <2>3. DOMAIN files' = {}
      BY <2>1
    <2>4. Handles(files', seen', dev, content)
      BY <2>3 DEF Handles
    <2>5. Contents(dev, content)
      BY DEF WordsInv, Faithful
    <2> QED
      BY <2>1, <2>2, <2>4, <2>5 DEF Faithful
  <1>6. CASE UNCHANGED vars
    BY <1>6 DEF vars, WordsInv
  <1> QED
    BY <1>1, <1>2, <1>3, <1>4, <1>5, <1>6, Zenon DEF Next

LEMMA InvDataIntact ==
    WordsInv => DataIntact
  <1> SUFFICES ASSUME WordsInv, NEW f \in Files, ReadExtents(dev, dev.inode[f]).ok
               PROVE  ReadFileAt(dev, ReadExtents(dev, dev.inode[f]).list, dev.inode[f].size) = content[f]
    BY DEF DataIntact
  <1> DEFINE x == ReadExtents(dev, dev.inode[f])
             l == List(dev.inode[f].root, dev.block)
             c == content[f]
  <1>1. SafeDev(dev) /\ c \in Seq(Words) /\ FileHolds(dev, f, c)
    BY DEF WordsInv, DataInv, Inv, Faithful, Contents
  <1>2. /\ dev.inode[f] \in Inodes /\ Tree(dev.inode[f].root, dev.block)
        /\ dev.block \in [Blocks -> DeviceBlocks] /\ Orderly(l, f)
    <2>1. Orderly(Entries(Begin(f)), f) /\ Entries(Begin(f)) = l
      BY <1>1, Begins
    <2> QED
      BY <1>1, <2>1, Begins
  <1>3. x.list = l /\ (x.ok <=> Counted(dev.inode[f].root))
    BY <1>2, ReadExtentsIs DEF Inodes
  <1>4. x.ok
    OBVIOUS
  <1> HIDE DEF x
  <1>5. Counted(dev.inode[f].root)
    BY <1>3, <1>4, Zenon
  <1>6. Len(c) = dev.inode[f].size /\ Shape(l, Len(c)) /\ Carries(l, dev.block, c)
    BY <1>1, <1>5 DEF FileHolds
  <1>7. l \in Seq(Extents) /\ Single(l)
    BY <1>2 DEF Orderly, Single
  <1> HIDE DEF l, c
  <1>8. ReadFileAt(dev, l, Len(c)) = c
    BY <1>1, <1>6, <1>7, ReadsAll
  <1> QED
    BY <1>3, <1>6, <1>8 DEF x, c

LEMMA InvHandlesFollow ==
    WordsInv => HandlesFollow
  <1> SUFFICES ASSUME WordsInv, NEW p \in DOMAIN files
               PROVE  /\ seen[p] = "all" => Read(p) = content[InodeOf[p]]
                      /\ seen[p] = "start" => IsPrefix(Read(p), content[InodeOf[p]])
    BY DEF HandlesFollow
  <1> DEFINE f == InodeOf[p]
             h == files[p]
             c == content[f]
  <1>1. SafeDev(dev) /\ Opened(files) /\ Contents(dev, content) /\ Follows(h, seen[p], dev, f, c)
    BY DEF WordsInv, DataInv, Inv, Faithful, Handles
  <1>2. f \in Files /\ h.extents \in Seq(Extents) /\ h.size \in 0 .. MaxSize[f]
    BY <1>1, PathsAssumption DEF Opened
  <1>3. h.size \in Nat
    <2> HIDE DEF f, h
    <2>1. MaxSize[f] \in Nat
      BY <1>2, BoundsAssumption
    <2> QED
      BY <1>2, <2>1
  <1>4. Read(p) = ReadFileAt(dev, h.extents, h.size)
    BY DEF Read
  <1> HIDE DEF f, h
  <1>5. c \in Seq(Words) /\ FileHolds(dev, f, c) /\ Orderly(List(dev.inode[f].root, dev.block), f)
    BY <1>1, <1>2 DEF Contents, SafeDev, Sound, TreesOK
  <1> HIDE DEF c
  <1>6. Knows(h, dev, f, c) => /\ IsPrefix(ReadFileAt(dev, h.extents, h.size), c)
                               /\ h.size = Len(c) => ReadFileAt(dev, h.extents, h.size) = c
    BY <1>2, <1>3, <1>5, KnowsReads
  <1>7. /\ seen[p] = "all" => Knows(h, dev, f, c) /\ h.size = Len(c)
        /\ seen[p] = "start" => Knows(h, dev, f, c)
    BY <1>1 DEF Follows
  <1>8. /\ seen[p] = "all" => Read(p) = c
        /\ seen[p] = "start" => IsPrefix(Read(p), c)
    BY <1>4, <1>6, <1>7, Zenon
  <1> QED
    BY <1>8 DEF c, f

\* As long as no leaf of an extent tree fills up and nobody writes beyond the end
\* of a file, what WriteFileAt, AppendExtent and TruncateInode did to a file is
\* read back by ReadFileAt: every word written, and zeros where Truncate made
\* the file longer, each in its place.
THEOREM DataIntactCorrect ==
    ASSUME NoSplit, ~Sparse
    PROVE  Spec => []DataIntact
  <1>1. Init => WordsInv
    BY InitWords
  <1>2. WordsInv /\ [Next]_vars => WordsInv'
    BY NextWords
  <1>3. WordsInv => DataIntact
    BY InvDataIntact
  <1> QED
    BY <1>1, <1>2, <1>3, PTL DEF Spec

\* Under the same conditions the table of open files is good to read from: the
\* path that opened the file or wrote to it last reads all of it, one whose file
\* was written to by another name reads a start of it, until the file is cut or
\* a commit fails.
THEOREM HandlesFollowCorrect ==
    ASSUME NoSplit, ~Sparse
    PROVE  Spec => []HandlesFollow
  <1>1. Init => WordsInv
    BY InitWords
  <1>2. WordsInv /\ [Next]_vars => WordsInv'
    BY NextWords
  <1>3. WordsInv => HandlesFollow
    BY InvHandlesFollow
  <1> QED
    BY <1>1, <1>2, <1>3, PTL DEF Spec
=============================================================================

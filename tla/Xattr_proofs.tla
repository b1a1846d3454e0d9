---------------------------- MODULE Xattr_proofs ----------------------------
(***************************************************************************)
(* Theorems about the extended attributes of vfs/xattr.go, for any number  *)
(* of inodes, blocks, names and values.                                    *)
(***************************************************************************)
EXTENDS Xattr, Minimum

-----------------------------------------------------------------------------
(* Tables *)

\* A word list of n words.
IsWords(w, n) == w = [p \in 1 .. n |-> w[p]]

LEMMA WordsLength ==
    ASSUME NEW n \in Nat, NEW w, IsWords(w, n)
    PROVE  Len(w) = n /\ w \in Seq({w[p] : p \in 1 .. n})
  BY DEF IsWords

\* serializeXAttrs fills the room it is given.
LEMMA SerializeFills ==
    ASSUME NEW m, NEW avail \in Nat
    PROVE  IsWords(serializeXAttrs(m, avail), avail)
  BY DEF serializeXAttrs, IsWords

\* An attribute block: the header, and the table in the rest.
LEMMA BlockFilled ==
    ASSUME NEW m
    PROVE  Len([p \in 1 .. HeaderWords |-> Other] \o serializeXAttrs(m, BlockWords - HeaderWords))
             = BlockWords
  <1> DEFINE h == [p \in 1 .. HeaderWords |-> Other]
             s == serializeXAttrs(m, BlockWords - HeaderWords)
             n == BlockWords - HeaderWords
  <1>1. HeaderWords \in Nat /\ n \in Nat /\ HeaderWords + n = BlockWords
    BY SizesAssumption DEF HeaderWords
  <1>2. IsWords(h, HeaderWords)
    BY DEF IsWords
  <1>3. IsWords(s, n)
    BY <1>1, SerializeFills
  <1> HIDE DEF h, s, n
  <1>4. Len(h) = HeaderWords /\ Len(s) = n
        /\ h \in Seq({h[p] : p \in 1 .. HeaderWords}) /\ s \in Seq({s[p] : p \in 1 .. n})
    BY <1>1, <1>2, <1>3, WordsLength
  <1> DEFINE S == {h[p] : p \in 1 .. HeaderWords} \union {s[p] : p \in 1 .. n}
  <1>5. h \in Seq(S) /\ s \in Seq(S)
    BY <1>4
  <1> HIDE DEF S
  <1>6. Len(h \o s) = Len(h) + Len(s)
    BY <1>5
  <1> QED
    BY <1>1, <1>4, <1>6 DEF h, s

-----------------------------------------------------------------------------
(* Shape, and who has which block *)

\* The type invariant with the functions' domains.
ShapeOK ==
    /\ used \subseteq Inodes /\ extra \subseteq Inodes
    /\ acl \in [Inodes -> Blocks \union {0}]
    /\ tail = [i \in Inodes |-> tail[i]] /\ \A i \in Inodes : Len(tail[i]) \in {0, TailWords}
    /\ block = [b \in Blocks |-> block[b]] /\ \A b \in Blocks : Len(block[b]) \in {0, BlockWords}

\* Inode i has the attribute block b.
Owns(i, b) == i \in used /\ acl[i] = b /\ b # 0

\* AclBlocksOwned, block by block.  What the inode of a removed file still names is
\* among the lost blocks, so ownership is of inodes in use.
OwnersOK ==
    /\ taken \subseteq Blocks /\ lost \subseteq Blocks
    /\ \A b \in Blocks : b \in taken <=> b \in lost \/ \E i \in Inodes : Owns(i, b)
    /\ \A b \in lost : ~ \E i \in Inodes : Owns(i, b)
    /\ \A i, j \in Inodes, b \in Blocks : Owns(i, b) /\ Owns(j, b) => i = j

XattrInv == ShapeOK /\ OwnersOK

\* A free block is found where one is left.
LEMMA AllocateFindsFree ==
    ASSUME taken \subseteq Blocks, taken # Blocks
    PROVE  AllocateBlock \in Blocks \ taken /\ AllocateBlock # 0
  <1>1. Blocks \ taken \in SUBSET Nat /\ Blocks \ taken # {}
    BY SizesAssumption
  <1> QED
    BY <1>1, MinIsSmallest, SizesAssumption DEF AllocateBlock

\* An inode in use that gives its block back, if it has one.
LEMMA GiveBack ==
    ASSUME XattrInv, NEW i \in used, acl' = [acl EXCEPT ![i] = 0], taken' = taken \ {acl[i]},
           UNCHANGED <<used, lost>>
    PROVE  OwnersOK'
  <1>1. i \in Inodes /\ acl'[i] = 0 /\ \A j \in Inodes : j # i => acl'[j] = acl[j]
    BY DEF XattrInv, ShapeOK
  <1>2. \A j \in Inodes, b \in Blocks : Owns(j, b)' <=> Owns(j, b) /\ j # i
    BY <1>1 DEF Owns
  <1>3. taken' \subseteq Blocks /\ lost' \subseteq Blocks
    BY DEF XattrInv, OwnersOK
  <1>4. \A b \in Blocks : b \in taken' <=> b \in lost' \/ \E j \in Inodes : Owns(j, b)'
    <2> TAKE b \in Blocks
    <2>1. CASE b = acl[i]
      <3>1. Owns(i, b) /\ b \notin taken'
        BY <2>1, SizesAssumption DEF Owns
      <3>2. b \notin lost /\ \A j \in Inodes : Owns(j, b) => j = i
        BY <1>1, <3>1 DEF XattrInv, OwnersOK
      <3> QED
        BY <1>2, <3>1, <3>2
    <2>2. CASE b # acl[i]
      <3>1. ~Owns(i, b) /\ (b \in taken' <=> b \in taken)
        BY <2>2 DEF Owns
      <3> QED
        BY <1>2, <3>1 DEF XattrInv, OwnersOK
    <2> QED
      BY <2>1, <2>2
  <1>5. \A b \in lost' : ~ \E j \in Inodes : Owns(j, b)'
    BY <1>2 DEF XattrInv, OwnersOK
  <1>6. \A j, k \in Inodes, b \in Blocks : Owns(j, b)' /\ Owns(k, b)' => j = k
    BY <1>2 DEF XattrInv, OwnersOK
  <1> QED
    BY <1>3, <1>4, <1>5, <1>6 DEF OwnersOK

\* An inode in use that keeps its block, or takes a free one.
LEMMA TakeBlock ==
    ASSUME XattrInv, NEW i \in used, NEW b \in Blocks, b = acl[i] \/ (acl[i] = 0 /\ b \notin taken),
           acl' = [acl EXCEPT ![i] = b], taken' = taken \union {b}, UNCHANGED <<used, lost>>
    PROVE  OwnersOK'
  <1>1. i \in Inodes /\ acl'[i] = b /\ b # 0 /\ \A j \in Inodes : j # i => acl'[j] = acl[j]
    BY SizesAssumption DEF XattrInv, ShapeOK
  <1>2. \A j \in Inodes, c \in Blocks : Owns(j, c)' <=> IF j = i THEN c = b ELSE Owns(j, c)
    BY <1>1, SizesAssumption DEF Owns
  <1>3. \A j \in Inodes : Owns(j, b) => j = i
    <2>1. CASE b = acl[i]
      BY <1>1, <2>1 DEF XattrInv, OwnersOK, Owns
    <2>2. CASE b \notin taken
      BY <2>2 DEF XattrInv, OwnersOK
    <2> QED
      BY <2>1, <2>2
  <1>4. b \notin lost
    <2>1. CASE b = acl[i]
      BY <1>1, <2>1 DEF XattrInv, OwnersOK, Owns
    <2>2. CASE b \notin taken
      BY <2>2 DEF XattrInv, OwnersOK
    <2> QED
      BY <2>1, <2>2
  <1>5. taken' \subseteq Blocks /\ lost' \subseteq Blocks
    BY DEF XattrInv, OwnersOK
  <1>6. \A c \in Blocks : c # b => ~Owns(i, c)
    BY <1>1 DEF Owns
  <1>7. \A c \in Blocks : c \in taken' <=> c \in lost' \/ \E j \in Inodes : Owns(j, c)'
    <2> TAKE c \in Blocks
    <2>1. CASE c = b
      BY <1>1, <1>2, <2>1
    <2>2. CASE c # b
      BY <1>1, <1>2, <1>6, <2>2 DEF XattrInv, OwnersOK
    <2> QED
      BY <2>1, <2>2
  <1>8. \A c \in lost' : ~ \E j \in Inodes : Owns(j, c)'
    BY <1>2, <1>4 DEF XattrInv, OwnersOK
  <1>9. \A j, k \in Inodes, c \in Blocks : Owns(j, c)' /\ Owns(k, c)' => j = k
    BY <1>2, <1>3 DEF XattrInv, OwnersOK
  <1> QED
    BY <1>5, <1>7, <1>8, <1>9 DEF OwnersOK

-----------------------------------------------------------------------------
(* The calls *)

\* SetXAttr keeps shape and owners, wherever the new list goes.
LEMMA SetKeeps ==
    ASSUME XattrInv, NEW i \in used, NEW m, SetXAttr(i, m), UNCHANGED <<used, extra, lost>>
    PROVE  XattrInv'
  <1>1. i \in Inodes /\ acl \in [Inodes -> Blocks \union {0}] /\ taken \subseteq Blocks
        /\ tail = [j \in Inodes |-> tail[j]] /\ block = [b \in Blocks |-> block[b]]
    BY DEF XattrInv, ShapeOK, OwnersOK
  <1>2. \A j \in Inodes : Len(tail[j]) \in {0, TailWords}
    BY DEF XattrInv, ShapeOK
  <1>3. \A b \in Blocks : Len(block[b]) \in {0, BlockWords}
    BY DEF XattrInv, ShapeOK
  <1>4. Len(<<>>) = 0 /\ Len(serializeXAttrs(m, TailWords)) = TailWords
    BY SizesAssumption, SerializeFills, WordsLength
  <1>5. ASSUME NEW w, tail' = [tail EXCEPT ![i] = w], Len(w) \in {0, TailWords}
        PROVE  tail' = [j \in Inodes |-> tail'[j]] /\ \A j \in Inodes : Len(tail'[j]) \in {0, TailWords}
    BY <1>1, <1>2, <1>5
  <1>6. ASSUME ClearTail(i)
        PROVE  tail' = [j \in Inodes |-> tail'[j]] /\ \A j \in Inodes : Len(tail'[j]) \in {0, TailWords}
    <2>1. CASE i \in extra
      BY <1>4, <1>5, <1>6, <2>1 DEF ClearTail
    <2>2. CASE i \notin extra
      BY <1>1, <1>2, <1>6, <2>2 DEF ClearTail
    <2> QED
      BY <2>1, <2>2
  <1>7. CASE ToTail(i, m)
    <2>1. tail' = [j \in Inodes |-> tail'[j]] /\ \A j \in Inodes : Len(tail'[j]) \in {0, TailWords}
      BY <1>4, <1>5, <1>7 DEF ToTail
    <2>2. acl' = [acl EXCEPT ![i] = 0] /\ taken' = taken \ {acl[i]} /\ UNCHANGED block
      BY <1>7 DEF ToTail
    <2>3. ShapeOK'
      BY <1>1, <1>3, <2>1, <2>2 DEF XattrInv, ShapeOK
    <2> QED
      BY <2>2, <2>3, GiveBack DEF XattrInv
  <1>8. CASE ToNothing(i, m)
    <2>1. tail' = [j \in Inodes |-> tail'[j]] /\ \A j \in Inodes : Len(tail'[j]) \in {0, TailWords}
      BY <1>6, <1>8 DEF ToNothing
    <2>2. acl' = [acl EXCEPT ![i] = 0] /\ taken' = taken \ {acl[i]} /\ UNCHANGED block
      BY <1>8 DEF ToNothing
    <2>3. ShapeOK'
      BY <1>1, <1>3, <2>1, <2>2 DEF XattrInv, ShapeOK
    <2> QED
      BY <2>2, <2>3, GiveBack DEF XattrInv
  <1>9. CASE ToBlock(i, m)
    <2> DEFINE b == IF acl[i] # 0 THEN acl[i] ELSE AllocateBlock
               w == [p \in 1 .. HeaderWords |-> Other] \o serializeXAttrs(m, BlockWords - HeaderWords)
    <2>1. block' = [block EXCEPT ![b] = w] /\ acl' = [acl EXCEPT ![i] = b]
          /\ taken' = taken \union {b} /\ ClearTail(i) /\ (acl[i] # 0 \/ taken # Blocks)
      BY <1>9 DEF ToBlock
    <2>2. b \in Blocks /\ (b = acl[i] \/ (acl[i] = 0 /\ b \notin taken))
      BY <1>1, <2>1, AllocateFindsFree
    <2>3. Len(w) = BlockWords
      BY BlockFilled
    <2> HIDE DEF b, w
    <2>4. block' = [c \in Blocks |-> block'[c]] /\ \A c \in Blocks : Len(block'[c]) \in {0, BlockWords}
      BY <1>1, <1>3, <2>1, <2>2, <2>3
    <2>5. tail' = [j \in Inodes |-> tail'[j]] /\ \A j \in Inodes : Len(tail'[j]) \in {0, TailWords}
      BY <1>6, <2>1
    <2>6. ShapeOK'
      BY <1>1, <2>1, <2>2, <2>4, <2>5 DEF XattrInv, ShapeOK
    <2>7. OwnersOK'
      BY <2>1, <2>2, TakeBlock
    <2> QED
      BY <2>6, <2>7 DEF XattrInv
  <1> QED
    BY <1>7, <1>8, <1>9 DEF SetXAttr

\* A removed file takes its attribute block with it.
LEMMA UnlinkKeeps ==
    ASSUME XattrInv, NEW i \in Inodes, Unlink(i)
    PROVE  XattrInv'
  <1>1. i \in used /\ used' = used \ {i} /\ lost' = lost \union ({acl[i]} \ {0})
        /\ UNCHANGED <<extra, tail, acl, block, taken>>
    BY DEF Unlink
  <1>2. ShapeOK'
    BY <1>1 DEF XattrInv, ShapeOK
  <1>3. \A j \in Inodes, b \in Blocks : Owns(j, b)' <=> Owns(j, b) /\ j # i
    BY <1>1 DEF Owns
  <1>4. \A b \in Blocks : b \in lost' <=> b \in lost \/ Owns(i, b)
    BY <1>1, SizesAssumption DEF Owns
  <1>5. taken' \subseteq Blocks /\ lost' \subseteq Blocks
    BY <1>1 DEF XattrInv, OwnersOK, ShapeOK
  <1>6. \A b \in Blocks : b \in taken' <=> b \in lost' \/ \E j \in Inodes : Owns(j, b)'
    BY <1>1, <1>3, <1>4 DEF XattrInv, OwnersOK
  <1>7. \A b \in lost' : ~ \E j \in Inodes : Owns(j, b)'
    <2> TAKE b \in lost'
    <2>1. b \in Blocks
      BY <1>5
    <2>2. CASE b \in lost
      BY <1>3, <2>1, <2>2 DEF XattrInv, OwnersOK
    <2>3. CASE Owns(i, b)
      BY <1>3, <2>1, <2>3 DEF XattrInv, OwnersOK
    <2> QED
      BY <1>4, <2>1, <2>2, <2>3
  <1>8. \A j, k \in Inodes, b \in Blocks : Owns(j, b)' /\ Owns(k, b)' => j = k
    BY <1>3 DEF XattrInv, OwnersOK
  <1> QED
    BY <1>2, <1>5, <1>6, <1>7, <1>8 DEF XattrInv, OwnersOK

\* A new inode has no attribute block, whatever it named before.
LEMMA InitInodeKeeps ==
    ASSUME XattrInv, NEW i \in Inodes, InitNewInode(i)
    PROVE  XattrInv'
  <1>1. i \notin used /\ used' = used \union {i} /\ extra' = extra \ {i}
        /\ acl' = [acl EXCEPT ![i] = 0] /\ UNCHANGED <<tail, block, taken, lost>>
    BY DEF InitNewInode
  <1>2. acl' \in [Inodes -> Blocks \union {0}] /\ acl'[i] = 0 /\ \A j \in Inodes : j # i => acl'[j] = acl[j]
    BY <1>1 DEF XattrInv, ShapeOK
  <1>3. ShapeOK'
    BY <1>1, <1>2 DEF XattrInv, ShapeOK
  <1>4. \A j \in Inodes, b \in Blocks : Owns(j, b)' <=> Owns(j, b)
    BY <1>1, <1>2 DEF Owns
  <1>5. OwnersOK'
    <2>1. taken' \subseteq Blocks /\ lost' \subseteq Blocks /\ lost \subseteq Blocks
      BY <1>1 DEF XattrInv, OwnersOK
    <2>2. \A b \in Blocks : b \in taken' <=> b \in lost' \/ \E j \in Inodes : Owns(j, b)'
      BY <1>1, <1>4 DEF XattrInv, OwnersOK
    <2>3. \A b \in lost' : ~ \E j \in Inodes : Owns(j, b)'
      BY <1>1, <1>4, <2>1 DEF XattrInv, OwnersOK
    <2>4. \A j, k \in Inodes, b \in Blocks : Owns(j, b)' /\ Owns(k, b)' => j = k
      BY <1>4 DEF XattrInv, OwnersOK
    <2> QED
      BY <2>1, <2>2, <2>3, <2>4 DEF OwnersOK
  <1> QED
    BY <1>3, <1>5 DEF XattrInv

LEMMA XattrInvariant == Spec => []XattrInv
  <1>1. Init => XattrInv
    <2> SUFFICES ASSUME Init
                 PROVE  XattrInv
      OBVIOUS
    <2>1. ShapeOK
      BY SizesAssumption DEF Init, ShapeOK
    <2>2. \A i \in Inodes, b \in Blocks : ~Owns(i, b)
      BY DEF Init, Owns
    <2>3. OwnersOK
      BY <2>2 DEF Init, OwnersOK
    <2> QED
      BY <2>1, <2>3 DEF XattrInv
  <1>2. XattrInv /\ [Next]_vars => XattrInv'
    <2> SUFFICES ASSUME XattrInv, [Next]_vars
                 PROVE  XattrInv'
      OBVIOUS
    <2>1. ASSUME NEW i \in Inodes, NEW n, Removexattr(i, n)
          PROVE  XattrInv'
      BY <2>1, SetKeeps DEF Removexattr
    <2>2. ASSUME NEW i \in Inodes, NEW n, NEW v, NEW f, Setxattr(i, n, v, f)
          PROVE  XattrInv'
      BY <2>2, SetKeeps DEF Setxattr
    <2>3. CASE UNCHANGED vars
      BY <2>3 DEF vars, XattrInv, ShapeOK, OwnersOK, Owns
    <2> QED
      BY <2>1, <2>2, <2>3, UnlinkKeeps, InitInodeKeeps DEF Next
  <1> QED
    BY <1>1, <1>2, PTL DEF Spec

\* The type invariant: tail and block always hold a whole table, of the size
\* serializeXAttrs was given.
THEOREM TypeCorrect == Spec => []TypeOK
  <1>1. XattrInv => TypeOK
    BY DEF XattrInv, ShapeOK, OwnersOK, TypeOK
  <1> QED
    BY <1>1, XattrInvariant, PTL

\* SetXAttr, the removal of a file and InitNewInode: an attribute block belongs to one
\* file, the bitmap has it as long, and the only blocks nobody has are those of
\* removed files, however often the lists move between tail and block.
THEOREM AclBlocksCorrect == Spec => []AclBlocksOwned
  <1>1. XattrInv => AclBlocksOwned
    <2> SUFFICES ASSUME XattrInv
                 PROVE  AclBlocksOwned
      OBVIOUS
    <2> DEFINE owned == {acl[i] : i \in used} \ {0}
    <2>1. used \subseteq Inodes /\ \A i \in used : acl[i] \in Blocks \union {0}
      BY DEF XattrInv, ShapeOK
    <2>2. owned \subseteq Blocks /\ \A b \in Blocks : b \in owned <=> \E i \in Inodes : Owns(i, b)
      BY <2>1, SizesAssumption DEF Owns
    <2> HIDE DEF owned
    <2>3. taken \subseteq Blocks /\ lost \subseteq Blocks
      BY DEF XattrInv, OwnersOK
    <2>4. taken = owned \union lost /\ owned \intersect lost = {}
      BY <2>2, <2>3 DEF XattrInv, OwnersOK
    <2>5. \A i, j \in used : acl[i] = acl[j] /\ acl[i] # 0 => i = j
      BY <2>1 DEF XattrInv, OwnersOK, Owns
    <2> QED
      BY <2>4, <2>5 DEF AclBlocksOwned, owned
  <1> QED
    BY <1>1, XattrInvariant, PTL

-----------------------------------------------------------------------------
(* The recursive functions of the tables *)

NameSet == ToSet(Names)

LEMMA NamesFacts ==
    /\ Names \in Seq(NameSet) /\ Len(Names) \in Nat /\ DOMAIN Names = 1 .. Len(Names)
    /\ NameSet = {Names[k] : k \in 1 .. Len(Names)} /\ Junk \notin NameSet
    /\ \A k \in 1 .. Len(Names) : Names[k] \in NameSet
    /\ \A j, k \in 1 .. Len(Names) : Names[j] = Names[k] => j = k
  BY NamesAssumption DEF NameSet, ToSet

\* es enumerates the first k names that are in D.
Enumerates(es, D, k) ==
    /\ es \in Seq(NameSet)
    /\ \A x : x \in D /\ (\E j \in 1 .. k : x = Names[j]) <=> \E j \in 1 .. Len(es) : x = es[j]
    /\ \A i, j \in 1 .. Len(es) : es[i] = es[j] => i = j

\* What one more name does to that.
LEMMA OneMoreName ==
    ASSUME NEW D, NEW k \in 1 .. Len(Names), NEW es, Enumerates(es, D, k - 1)
    PROVE  Enumerates(IF Names[k] \in D THEN Append(es, Names[k]) ELSE es, D, k)
  <1> DEFINE N == Len(Names)
             e2 == IF Names[k] \in D THEN Append(es, Names[k]) ELSE es
  <1>0. N \in Nat /\ k \in 1 .. N /\ Names[k] \in NameSet
        /\ \A j \in 1 .. N : Names[j] = Names[k] => j = k
    BY NamesFacts
  <1>1. es \in Seq(NameSet) /\ Len(es) \in Nat
    BY DEF Enumerates
  <1>2. \A j \in 1 .. Len(es) : es[j] # Names[k]
    <2> TAKE j \in 1 .. Len(es)
    <2>1. PICK i \in 1 .. k - 1 : es[j] = Names[i]
      BY DEF Enumerates
    <2> QED
      BY <1>0, <2>1
  <1>3. CASE Names[k] \in D
    <2>1. e2 = Append(es, Names[k])
      BY <1>3
    <2> HIDE DEF e2
    <2>2. e2 \in Seq(NameSet) /\ Len(e2) = Len(es) + 1 /\ e2[Len(es) + 1] = Names[k]
          /\ \A j \in 1 .. Len(es) : e2[j] = es[j]
      BY <1>0, <1>1, <2>1
    <2>3. \A x : x \in D /\ (\E j \in 1 .. k : x = Names[j]) <=> \E j \in 1 .. Len(e2) : x = e2[j]
      <3> TAKE x
      <3>1. (\E j \in 1 .. Len(e2) : x = e2[j]) <=> x = Names[k] \/ \E j \in 1 .. Len(es) : x = es[j]
        BY <1>1, <2>2
      <3>2. (\E j \in 1 .. k : x = Names[j]) <=> x = Names[k] \/ \E j \in 1 .. k - 1 : x = Names[j]
        BY <1>0
      <3>3. x \in D /\ (\E j \in 1 .. k - 1 : x = Names[j]) <=> \E j \in 1 .. Len(es) : x = es[j]
        BY DEF Enumerates
      <3> QED
        BY <1>3, <3>1, <3>2, <3>3
    <2>4. \A i, j \in 1 .. Len(e2) : e2[i] = e2[j] => i = j
      <3>1. \A i \in 1 .. Len(e2) : i \in 1 .. Len(es) \/ i = Len(es) + 1
        BY <1>1, <2>2
      <3>2. \A i, j \in 1 .. Len(es) : es[i] = es[j] => i = j
        BY DEF Enumerates
      <3> QED
        BY <1>2, <2>2, <3>1, <3>2
    <2> QED
      BY <2>2, <2>3, <2>4 DEF Enumerates, e2
  <1>4. CASE Names[k] \notin D
    <2>1. \A x : x \in D /\ (\E j \in 1 .. k : x = Names[j]) <=> x \in D /\ \E j \in 1 .. k - 1 : x = Names[j]
      BY <1>0, <1>4
    <2> QED
      BY <1>4, <2>1 DEF Enumerates
  <1> QED
    BY <1>3, <1>4

\* serializeXAttrs writes one entry for every attribute.
LEMMA EntriesEnumerate ==
    ASSUME NEW m
    PROVE  Enumerates(Entries(m), DOMAIN m, Len(Names))
  <1> DEFINE N == Len(Names)
             upto[k \in 0 .. Len(Names)] ==
                 IF k = 0 THEN <<>>
                 ELSE IF Names[k] \in DOMAIN m THEN Append(upto[k - 1], Names[k]) ELSE upto[k - 1]
  <1>0. N \in Nat /\ \A k \in 1 .. N : Names[k] \in NameSet
    BY NamesFacts
  <1>1. PICK h : h = [x \in (1 .. N) \X Seq(NameSet) |->
                        IF Names[x[1]] \in DOMAIN m THEN Append(x[2], Names[x[1]]) ELSE x[2]]
    OBVIOUS
  <1>2. h \in [(1 .. N) \X Seq(NameSet) -> Seq(NameSet)]
    <2>1. \A x \in (1 .. N) \X Seq(NameSet) :
            (IF Names[x[1]] \in DOMAIN m THEN Append(x[2], Names[x[1]]) ELSE x[2]) \in Seq(NameSet)
      BY <1>0
    <2> QED
      BY <1>1, <2>1
  <1>3. <<>> \in Seq(NameSet)
    OBVIOUS
  <1>4. PICK t \in [0 .. N -> Seq(NameSet)] : t[0] = <<>> /\ \A i \in 1 .. N : t[i] = h[<<i, t[i - 1]>>]
    <2> DEFINE S == Seq(NameSet)
    <2>1. N \in Nat /\ <<>> \in S /\ IsStep(h, N, S)
      BY <1>0, <1>2, <1>3 DEF IsStep
    <2> HIDE DEF N, upto, S
    <2>2. \E t : Recursion(t, N, S, <<>>, h)
      BY <2>1, RecursionExists
    <2> QED
      BY <2>2 DEF S, Recursion
  <1>5. \A i \in 1 .. N : t[i] = IF Names[i] \in DOMAIN m THEN Append(t[i - 1], Names[i]) ELSE t[i - 1]
    <2> TAKE i \in 1 .. N
    <2> HIDE DEF N, upto
    <2>1. i - 1 \in 0 .. N /\ t[i - 1] \in Seq(NameSet)
      BY <1>0, <1>4
    <2> DEFINE y == <<i, t[i - 1]>>
    <2>2. y \in (1 .. N) \X Seq(NameSet) /\ y[1] = i /\ y[2] = t[i - 1]
      BY <2>1
    <2>3. t[i] = h[y]
      BY <1>4
    <2> HIDE DEF y
    <2>4. h[y] = IF Names[y[1]] \in DOMAIN m THEN Append(y[2], Names[y[1]]) ELSE y[2]
      BY <1>1, <2>2
    <2> QED
      BY <2>2, <2>3, <2>4
  <1>6. t = [k \in 0 .. N |-> IF k = 0 THEN <<>>
                 ELSE IF Names[k] \in DOMAIN m THEN Append(t[k - 1], Names[k]) ELSE t[k - 1]]
    <2>1. \A k \in 0 .. N : k = 0 \/ k \in 1 .. N
      BY <1>0
    <2> QED
      BY <1>4, <1>5, <2>1
  <1>7. upto = [k \in 0 .. N |-> IF k = 0 THEN <<>>
                 ELSE IF Names[k] \in DOMAIN m THEN Append(upto[k - 1], Names[k]) ELSE upto[k - 1]]
    BY <1>6
  <1>8. Entries(m) = upto[N]
    BY DEF Entries
  <1> HIDE DEF upto, N
  <1>9. upto[0] = <<>> /\ \A k \in 1 .. N :
            upto[k] = IF Names[k] \in DOMAIN m THEN Append(upto[k - 1], Names[k]) ELSE upto[k - 1]
    <2>1. 0 \in 0 .. N /\ \A k \in 1 .. N : k \in 0 .. N /\ k # 0
      BY <1>0
    <2> QED
      BY <1>7, <2>1, Zenon
  <1>10. PICK Bad : Bad = {k \in 0 .. N : ~Enumerates(upto[k], DOMAIN m, k)}
    OBVIOUS
  <1>11. Bad = {}
    <2>1. SUFFICES ASSUME Bad # {} PROVE FALSE
      OBVIOUS
    <2>2. Bad \in SUBSET Nat
      BY <1>0, <1>10
    <2>3. PICK k \in Bad : \A j \in Bad : k <= j
      BY <2>1, <2>2, SmallestExists
    <2>4. k \in 0 .. N /\ ~Enumerates(upto[k], DOMAIN m, k)
      BY <1>10, <2>3
    <2>5. Enumerates(<<>>, DOMAIN m, 0)
      BY DEF Enumerates
    <2>6. k # 0
      BY <1>9, <2>4, <2>5
    <2>7. k \in 1 .. N /\ k - 1 \in 0 .. N /\ k - 1 \notin Bad
      BY <1>0, <2>3, <2>4, <2>6
    <2>8. Enumerates(upto[k - 1], DOMAIN m, k - 1)
      BY <1>10, <2>7
    <2> QED
      BY <1>9, <2>4, <2>7, <2>8, OneMoreName DEF N
  <1> QED
    BY <1>0, <1>8, <1>10, <1>11 DEF N

\* What serializeXAttrs is given and ListXAttrs returns: values by names.
IsValue(v) == Len(v) \in Nat /\ v = [p \in 1 .. Len(v) |-> v[p]]
IsList(m) ==
    DOMAIN m \subseteq NameSet /\ m = [x \in DOMAIN m |-> m[x]] /\ \A x \in DOMAIN m : IsValue(m[x])

\* es has every name of m once.
IsOrder(es, m) ==
    /\ es \in Seq(NameSet) /\ Len(es) \in Nat
    /\ \A k \in 1 .. Len(es) : es[k] \in DOMAIN m
    /\ \A x \in DOMAIN m : \E k \in 1 .. Len(es) : x = es[k]
    /\ \A i, j \in 1 .. Len(es) : es[i] = es[j] => i = j

LEMMA EntriesOrder ==
    ASSUME NEW m, IsList(m)
    PROVE  IsOrder(Entries(m), m)
  <1> DEFINE es == Entries(m)
  <1>1. Enumerates(es, DOMAIN m, Len(Names))
    BY EntriesEnumerate
  <1> HIDE DEF es
  <1>2. es \in Seq(NameSet) /\ Len(es) \in Nat /\ \A i, j \in 1 .. Len(es) : es[i] = es[j] => i = j
    BY <1>1 DEF Enumerates
  <1>3. \A k \in 1 .. Len(es) : es[k] \in DOMAIN m
    BY <1>1 DEF Enumerates
  <1>4. \A x \in DOMAIN m : \E k \in 1 .. Len(es) : x = es[k]
    <2> TAKE x \in DOMAIN m
    <2>1. \E j \in 1 .. Len(Names) : x = Names[j]
      BY NamesFacts DEF IsList
    <2> QED
      BY <1>1, <2>1 DEF Enumerates
  <1> QED
    BY <1>2, <1>3, <1>4 DEF IsOrder, es

\* r adds up the lengths of the values.
AddsUp(r, m, es) ==
    /\ r \in [0 .. Len(es) -> Nat] /\ r[0] = 0
    /\ \A k \in 1 .. Len(es) : r[k] = r[k - 1] + Len(m[es[k]])

LEMMA RoomAddsUp ==
    ASSUME NEW m, IsList(m)
    PROVE  AddsUp(Room(m), m, Entries(m))
  <1> DEFINE es == Entries(m)
             n == Len(es)
             len(k) == Len(m[es[k]])
             room[k \in 0 .. Len(es)] == IF k = 0 THEN 0 ELSE room[k - 1] + Len(m[es[k]])
  <1>0. n \in Nat /\ \A k \in 1 .. n : len(k) \in Nat
    BY EntriesOrder DEF IsOrder, IsList, IsValue
  <1>1. Room(m) = room
    BY DEF Room
  <1> HIDE DEF es
  <1>2. PICK h : h = [x \in (1 .. n) \X Nat |-> x[2] + len(x[1])]
    OBVIOUS
  <1>3. IsStep(h, n, Nat)
    BY <1>0, <1>2 DEF IsStep
  <1>4. PICK t : Recursion(t, n, Nat, 0, h)
    <2>1. n \in Nat /\ 0 \in Nat
      BY <1>0
    <2> HIDE DEF n
    <2> QED
      BY <1>3, <2>1, RecursionExists
  <1>5. t \in [0 .. n -> Nat] /\ t[0] = 0
    BY <1>4 DEF Recursion
  <1>6. \A k \in 1 .. n : t[k] = t[k - 1] + len(k)
    <2> TAKE k \in 1 .. n
    <2> DEFINE y == <<k, t[k - 1]>>
    <2>1. y \in (1 .. n) \X Nat /\ y[1] = k /\ y[2] = t[k - 1]
      BY <1>0, <1>5
    <2>2. t[k] = h[y]
      BY <1>4 DEF Recursion
    <2> HIDE DEF y
    <2> QED
      BY <1>2, <2>1, <2>2
  <1>7. t = [k \in 0 .. n |-> IF k = 0 THEN 0 ELSE t[k - 1] + Len(m[es[k]])]
    <2>1. \A k \in 0 .. n : k = 0 \/ k \in 1 .. n
      BY <1>0
    <2> QED
      BY <1>5, <1>6, <2>1
  <1>8. room = [k \in 0 .. n |-> IF k = 0 THEN 0 ELSE room[k - 1] + Len(m[es[k]])]
    BY <1>7
  <1> HIDE DEF room
  <1>9. DOMAIN room = 0 .. n /\ room[0] = 0 /\ \A k \in 1 .. n : room[k] = room[k - 1] + len(k)
    <2>1. 0 \in 0 .. n /\ \A k \in 1 .. n : k \in 0 .. n /\ k # 0
      BY <1>0
    <2> QED
      BY <1>8, <2>1, Zenon
  <1>10. PICK Bad : Bad = {k \in 0 .. n : room[k] \notin Nat}
    OBVIOUS
  <1>11. Bad = {}
    <2>1. SUFFICES ASSUME Bad # {} PROVE FALSE
      OBVIOUS
    <2>2. Bad \in SUBSET Nat
      BY <1>0, <1>10
    <2>3. PICK k \in Bad : \A j \in Bad : k <= j
      BY <2>1, <2>2, SmallestExists
    <2>4. k \in 0 .. n /\ room[k] \notin Nat
      BY <1>10, <2>3
    <2>5. k \in 1 .. n /\ k - 1 \in 0 .. n /\ k - 1 \notin Bad
      BY <1>0, <1>9, <2>3, <2>4
    <2>6. room[k - 1] \in Nat
      BY <1>10, <2>5
    <2> QED
      BY <1>0, <1>9, <2>4, <2>5, <2>6
  <1>12. room \in [0 .. n -> Nat]
    <2>1. \A k \in 0 .. n : room[k] \in Nat
      BY <1>10, <1>11
    <2>2. room = [k \in 0 .. n |-> room[k]]
      BY <1>8, <1>9, Zenon
    <2> QED
      BY <2>1, <2>2
  <1> QED
    BY <1>1, <1>9, <1>12 DEF AddsUp, es

\* Later values are lower.
LEMMA RoomGrows ==
    ASSUME NEW m, IsList(m), NEW es, IsOrder(es, m), NEW r, AddsUp(r, m, es),
           NEW i \in 0 .. Len(es), NEW j \in 0 .. Len(es), i <= j
    PROVE  r[i] <= r[j]
  <1> DEFINE n == Len(es)
  <1>0. n \in Nat /\ \A k \in 1 .. n : Len(m[es[k]]) \in Nat
    BY DEF IsOrder, IsList, IsValue
  <1>1. PICK Bad : Bad = {k \in i .. n : r[k] < r[i]}
    OBVIOUS
  <1>2. Bad = {}
    <2>1. SUFFICES ASSUME Bad # {} PROVE FALSE
      OBVIOUS
    <2>2. Bad \in SUBSET Nat
      BY <1>0, <1>1
    <2>3. PICK k \in Bad : \A l \in Bad : k <= l
      BY <2>1, <2>2, SmallestExists
    <2>4. k \in i .. n /\ r[k] < r[i] /\ r[k] \in Nat /\ r[i] \in Nat
      BY <1>0, <1>1, <2>3 DEF AddsUp
    <2>5. k # i
      BY <2>4
    <2>6. k - 1 \in i .. n /\ k \in 1 .. n /\ k - 1 \in 0 .. n
      BY <1>0, <2>4, <2>5
    <2>7. k - 1 \notin Bad
      BY <2>3, <2>6
    <2>8. r[k] = r[k - 1] + Len(m[es[k]]) /\ r[k - 1] \in Nat
      BY <2>6 DEF AddsUp
    <2> QED
      BY <1>0, <1>1, <2>4, <2>6, <2>7, <2>8
  <1>3. r[i] \in Nat /\ r[j] \in Nat /\ j \in i .. n
    BY <1>0 DEF AddsUp
  <1> QED
    BY <1>1, <1>2, <1>3

-----------------------------------------------------------------------------
(* What is read from a table is what was written *)

\* The table s: from position first on, an entry for each name of m, then zeros.
HasEntries(s, first, m, es, offs) ==
    /\ IsOrder(es, m) /\ offs \in [1 .. Len(es) -> Nat]
    /\ first \in Nat /\ Len(s) \in Nat /\ first + EntryWords * Len(es) + 1 <= Len(s)
    /\ \A k \in 1 .. Len(es) :
        s[first + EntryWords * (k - 1) + 1] = EntryWord(es[k], offs[k], Len(m[es[k]]))
    /\ s[first + EntryWords * Len(es) + 1] = Zero

\* The values of m are where the entries say.
HasValues(s, m, es, offs) ==
    \A k \in 1 .. Len(es) : \A p \in 1 .. Len(m[es[k]]) : s[offs[k] + p] = ValueWord(m[es[k]][p])

\* The word of an entry.
LEMMA WordOfEntry ==
    ASSUME NEW m, NEW es, NEW offs, IsOrder(es, m), NEW k \in 1 .. Len(es)
    PROVE  TableWord(m, es, offs, EntryWords * (k - 1)) = EntryWord(es[k], offs[k], Len(m[es[k]]))
  <1> DEFINE w == EntryWords * (k - 1)
  <1>1. Len(es) \in Nat
    BY DEF IsOrder
  <1>2. w < EntryWords * Len(es) /\ w % EntryWords = 0 /\ w \div EntryWords + 1 = k
    BY <1>1 DEF EntryWords
  <1> HIDE DEF w
  <1> QED
    BY <1>2 DEF TableWord, w

\* A word behind the entries that belongs to no value, and one that belongs to one.
LEMMA WordOfNone ==
    ASSUME NEW m, NEW es, NEW offs, NEW w, ~(w < EntryWords * Len(es)),
           \A k \in 1 .. Len(es) : w \notin offs[k] .. offs[k] + Len(m[es[k]]) - 1
    PROVE  TableWord(m, es, offs, w) = Zero
  BY DEF TableWord

LEMMA WordOfValue ==
    ASSUME NEW m, NEW es, NEW offs, NEW w, ~(w < EntryWords * Len(es)),
           NEW k \in 1 .. Len(es), w \in offs[k] .. offs[k] + Len(m[es[k]]) - 1,
           \A j \in 1 .. Len(es) : w \in offs[j] .. offs[j] + Len(m[es[j]]) - 1 => j = k
    PROVE  TableWord(m, es, offs, w) = ValueWord(m[es[k]][w - offs[k] + 1])
  <1> DEFINE holder == {j \in 1 .. Len(es) : w \in offs[j] .. offs[j] + Len(m[es[j]]) - 1}
  <1>1. holder # {} /\ (CHOOSE j \in holder : TRUE) = k
    OBVIOUS
  <1>2. TableWord(m, es, offs, w) = LET j == CHOOSE j \in holder : TRUE IN ValueWord(m[es[j]][w - offs[j] + 1])
    BY <1>1 DEF TableWord
  <1> HIDE DEF holder
  <1> QED
    BY <1>1, <1>2

\* Values of different entries share no word.
LEMMA Apart ==
    ASSUME NEW a \in Nat, NEW r \in Nat, NEW r0 \in Nat, NEW l \in Nat, r = r0 + l,
           NEW q \in Nat, NEW q0 \in Nat, NEW k \in Nat, q = q0 + k, r <= q0 \/ q <= r0,
           NEW w, w \in (a - r) .. (a - r) + l - 1
    PROVE  w \notin (a - q) .. (a - q) + k - 1
  OBVIOUS

\* A value lies behind the entries and inside of the table.
LEMMA Within ==
    ASSUME NEW a \in Nat, NEW r \in Nat, NEW r0 \in Nat, NEW l \in Nat, r = r0 + l,
           NEW q \in Nat, r <= q, NEW n \in Nat, 5 * n + 1 + q <= a
    PROVE  a - r > 5 * n /\ (a - r) + l <= a /\ a - r \in Nat
  OBVIOUS

\* serializeXAttrs writes such a table, if m fits.
LEMMA SerializeHas ==
    ASSUME NEW m, IsList(m), NEW avail \in Nat, Fits(m, avail)
    PROVE  \E es, offs :
             /\ HasEntries(serializeXAttrs(m, avail), 0, m, es, offs)
             /\ HasValues(serializeXAttrs(m, avail), m, es, offs)
             /\ \A k \in 1 .. Len(es) : offs[k] + Len(m[es[k]]) <= avail
  <1> DEFINE es == Entries(m)
             n == Len(es)
             r == Room(m)
             s == serializeXAttrs(m, avail)
             offs == [k \in 1 .. n |-> avail - r[k]]
  <1>1. IsOrder(es, m) /\ AddsUp(r, m, es)
    BY EntriesOrder, RoomAddsUp
  <1>2. EntryWords * n + 1 + r[n] <= avail
    BY DEF Fits, ValueLen
  <1>3. s = [p \in 1 .. avail |-> TableWord(m, es, offs, p - 1)]
    BY DEF serializeXAttrs
  <1> HIDE DEF es, r, s
  <1>4. n \in Nat /\ r \in [0 .. n -> Nat] /\ r[0] = 0 /\ \A k \in 1 .. n : Len(m[es[k]]) \in Nat
    BY <1>1 DEF IsOrder, AddsUp, IsList, IsValue
  <1>4a. \A k \in 1 .. n : k \in 0 .. n /\ k - 1 \in 0 .. n /\ n \in 0 .. n
                           /\ r[k] \in Nat /\ r[k - 1] \in Nat /\ r[n] \in Nat
    BY <1>4
  <1>5. \A k \in 1 .. n : offs[k] = avail - r[k] /\ r[k] = r[k - 1] + Len(m[es[k]])
    BY <1>1 DEF AddsUp
  <1>6. \A j, k \in 0 .. n : j <= k => r[j] <= r[k]
    BY <1>1, RoomGrows
  <1>7. EntryWords * n = 5 * n /\ EntryWords * n \in Nat /\ 5 * n + 1 + r[n] <= avail /\ \A k \in 1 .. n : EntryWords * (k - 1) = 5 * k - 5
    BY <1>2, <1>4 DEF EntryWords
  <1> HIDE DEF n
  <1>8. offs \in [1 .. n -> Nat] /\ \A k \in 1 .. n :
            offs[k] > EntryWords * n /\ offs[k] + Len(m[es[k]]) <= avail
    <2>1. \A k \in 1 .. n : r[k] <= r[n]
      BY <1>4, <1>4a, <1>6
    <2> HIDE DEF offs
    <2>2. ASSUME NEW k \in 1 .. n
          PROVE  offs[k] \in Nat /\ offs[k] > EntryWords * n /\ offs[k] + Len(m[es[k]]) <= avail
      <3>1. offs[k] = avail - r[k] /\ r[k] = r[k - 1] + Len(m[es[k]]) /\ r[k] <= r[n]
            /\ r[k] \in Nat /\ r[k - 1] \in Nat /\ r[n] \in Nat /\ Len(m[es[k]]) \in Nat
        BY <1>4, <1>4a, <1>5, <2>1
      <3>2. n \in Nat /\ EntryWords * n = 5 * n /\ 5 * n + 1 + r[n] <= avail
        BY <1>4, <1>7
      <3>3. avail - r[k] > 5 * n /\ (avail - r[k]) + Len(m[es[k]]) <= avail /\ avail - r[k] \in Nat
        BY <3>1, <3>2, Within
      <3> QED
        BY <3>1, <3>2, <3>3
    <2>3. offs = [k \in 1 .. n |-> offs[k]]
      BY DEF offs
    <2> QED
      BY <2>2, <2>3
  <1> HIDE DEF offs
  <1>9. Len(s) = avail /\ \A v \in 0 .. avail - 1 : s[v + 1] = TableWord(m, es, offs, v)
    <2>1. \A v \in 0 .. avail - 1 : v + 1 \in 1 .. avail /\ v + 1 - 1 = v
      OBVIOUS
    <2> QED
      BY <1>3, <2>1
  <1>10. \A k \in 1 .. n : s[EntryWords * (k - 1) + 1] = EntryWord(es[k], offs[k], Len(m[es[k]]))
    <2> TAKE k \in 1 .. n
    <2>0. r[n] \in Nat
      BY <1>4
    <2>1. EntryWords * (k - 1) \in 0 .. avail - 1
      BY <1>2, <1>4, <1>7, <2>0
    <2> QED
      <3>1. TableWord(m, es, offs, EntryWords * (k - 1)) = EntryWord(es[k], offs[k], Len(m[es[k]]))
        BY <1>1, WordOfEntry DEF n
      <3> DEFINE v == EntryWords * (k - 1)
      <3>2. v \in 0 .. avail - 1
        BY <2>1
      <3> HIDE DEF v
      <3>3. s[v + 1] = TableWord(m, es, offs, v)
        BY <1>9, <3>2
      <3> QED
        BY <3>1, <3>3 DEF v
  <1>11. s[EntryWords * n + 1] = Zero
    <2> DEFINE w == EntryWords * n
    <2>0. r[n] \in Nat
      BY <1>4
    <2>1. w \in 0 .. avail - 1 /\ ~(w < EntryWords * n)
      BY <1>2, <1>4, <1>7, <2>0
    <2>2. \A k \in 1 .. n : w \notin offs[k] .. offs[k] + Len(m[es[k]]) - 1
      BY <1>4, <1>7, <1>8
    <2> HIDE DEF w
    <2>3. TableWord(m, es, offs, w) = Zero
      BY <2>1, <2>2, WordOfNone DEF n
    <2>4. s[w + 1] = Zero
      BY <1>9, <2>1, <2>3
    <2> QED
      BY <2>4 DEF w
  <1>12. HasValues(s, m, es, offs)
    <2> SUFFICES ASSUME NEW k \in 1 .. n, NEW p \in 1 .. Len(m[es[k]])
                 PROVE  s[offs[k] + p] = ValueWord(m[es[k]][p])
      BY DEF HasValues, n
    <2> DEFINE w == offs[k] + p - 1
    <2>0. offs[k] \in Nat /\ Len(m[es[k]]) \in Nat /\ EntryWords * n \in Nat
          /\ offs[k] > EntryWords * n /\ offs[k] + Len(m[es[k]]) <= avail
      BY <1>4, <1>7, <1>8
    <2>1. w \in 0 .. avail - 1 /\ ~(w < EntryWords * n) /\ w - offs[k] + 1 = p
          /\ w \in offs[k] .. offs[k] + Len(m[es[k]]) - 1 /\ w + 1 = offs[k] + p
      BY <2>0
    <2>2. \A j \in 1 .. n : w \in offs[j] .. offs[j] + Len(m[es[j]]) - 1 => j = k
      <3> SUFFICES ASSUME NEW j \in 1 .. n, j # k
                   PROVE  w \notin offs[j] .. offs[j] + Len(m[es[j]]) - 1
        OBVIOUS
      <3>1. /\ r[j] \in Nat /\ r[k] \in Nat /\ r[j - 1] \in Nat /\ r[k - 1] \in Nat
            /\ offs[k] = avail - r[k] /\ r[k] = r[k - 1] + Len(m[es[k]]) /\ Len(m[es[k]]) \in Nat
            /\ offs[j] = avail - r[j] /\ r[j] = r[j - 1] + Len(m[es[j]]) /\ Len(m[es[j]]) \in Nat
        BY <1>4, <1>4a, <1>5
      <3>2. r[k] <= r[j - 1] \/ r[j] <= r[k - 1]
        <4>1. k <= j - 1 \/ j <= k - 1
          BY <1>4
        <4> QED
          BY <1>4a, <1>6, <4>1
      <3>3. w \in offs[k] .. offs[k] + Len(m[es[k]]) - 1
        BY <2>1
      <3> HIDE DEF w
      <3>4. w \in (avail - r[k]) .. (avail - r[k]) + Len(m[es[k]]) - 1
        BY <3>1, <3>3
      <3>5. w \notin (avail - r[j]) .. (avail - r[j]) + Len(m[es[j]]) - 1
        BY <3>1, <3>2, <3>4, Apart
      <3> QED
        BY <3>1, <3>5
    <2> HIDE DEF w
    <2>3. TableWord(m, es, offs, w) = ValueWord(m[es[k]][w - offs[k] + 1])
      BY <2>1, <2>2, WordOfValue DEF n
    <2> QED
      BY <1>9, <2>1, <2>3
  <1>13. 0 + EntryWords * n + 1 <= Len(s) /\ Len(s) \in Nat
    <2>0. r[n] \in Nat
      BY <1>4
    <2> QED
      BY <1>2, <1>4, <1>7, <1>9, <2>0
  <1>14. \A k \in 1 .. n : 0 + EntryWords * (k - 1) + 1 = EntryWords * (k - 1) + 1
    BY <1>4, <1>7
  <1>15. 0 + EntryWords * n + 1 = EntryWords * n + 1
    BY <1>4, <1>7
  <1>16. HasEntries(s, 0, m, es, offs)
    BY <1>1, <1>8, <1>10, <1>11, <1>13, <1>14, <1>15 DEF HasEntries, n
  <1> QED
    BY <1>8, <1>12, <1>16 DEF s, n

\* The letter that ListXAttrs takes from a word of a value.
LetterOf(w) == IF w.type = "value" THEN w.of ELSE Junk

\* The loop of ListXAttrs stops behind the entries.
LEMMA LoopStops ==
    ASSUME NEW s, NEW first, NEW m, NEW es, NEW offs, HasEntries(s, first, m, es, offs)
    PROVE  Min({k \in 1 .. Len(s) : first + EntryWords * (k - 1) >= Len(s)
                                    \/ s[first + EntryWords * (k - 1) + 1] = Zero}) - 1 = Len(es)
  <1> DEFINE n == Len(es)
             at(k) == first + EntryWords * (k - 1)
             Ends == {k \in 1 .. Len(s) : at(k) >= Len(s) \/ s[at(k) + 1] = Zero}
  <1>1. n \in Nat /\ first \in Nat /\ Len(s) \in Nat /\ first + EntryWords * n + 1 <= Len(s)
    BY DEF HasEntries, IsOrder
  <1>2. \A k \in Nat : at(k + 1) = first + EntryWords * k
    BY <1>1 DEF EntryWords
  <1>3. n + 1 \in 1 .. Len(s)
    BY <1>1 DEF EntryWords
  <1>4. n + 1 \in Ends
    <2>1. s[at(n + 1) + 1] = Zero
      BY <1>1, <1>2 DEF HasEntries
    <2> QED
      BY <1>3, <2>1
  <1>5. \A k \in 1 .. n : k \notin Ends
    <2> TAKE k \in 1 .. n
    <2>1. at(k) < Len(s) /\ at(k) \in Nat
      BY <1>1 DEF EntryWords
    <2>2. s[at(k) + 1] = EntryWord(es[k], offs[k], Len(m[es[k]]))
      BY DEF HasEntries
    <2>3. s[at(k) + 1] # Zero
      BY <2>2 DEF EntryWord, Zero, ValueWord
    <2> HIDE DEF at
    <2> QED
      BY <1>1, <2>1, <2>3
  <1>6. Ends \in SUBSET Nat
    BY <1>1
  <1> HIDE DEF Ends
  <1>7. Min(Ends) \in Ends /\ \A y \in Ends : Min(Ends) <= y
    BY <1>4, <1>6, MinIsSmallest
  <1>8. Min(Ends) = n + 1
    <2>1. Min(Ends) \in Nat /\ Min(Ends) <= n + 1 /\ Min(Ends) # 0
      BY <1>4, <1>6, <1>7 DEF Ends
    <2> QED
      BY <1>1, <1>5, <1>7, <2>1
  <1> QED
    BY <1>1, <1>8 DEF Ends

\* ListXAttrs finds every name, and for each the words that its entry points to.
LEMMA TableReads ==
    ASSUME NEW s, NEW first, NEW base, NEW m, NEW es, NEW offs, HasEntries(s, first, m, es, offs)
    PROVE  /\ Table(s, first, base) = [x \in DOMAIN m |-> Table(s, first, base)[x]]
           /\ \A k \in 1 .. Len(es) :
                Table(s, first, base)[es[k]] = [p \in 1 .. Len(m[es[k]]) |-> LetterOf(s[base + offs[k] + p])]
  <1> DEFINE at(k) == first + EntryWords * (k - 1)
             n == Min({k \in 1 .. Len(s) : at(k) >= Len(s) \/ s[at(k) + 1] = Zero}) - 1
             word(k) == s[at(k) + 1]
             letter(w) == IF w.type = "value" THEN w.of ELSE Junk
             value(e) == [p \in 1 .. e.size |-> letter(s[base + e.offs + p])]
             named(x) == CHOOSE k \in 1 .. n : word(k).type = "entry" /\ word(k).name = x
             names == {IF word(k).type = "entry" THEN word(k).name ELSE Junk : k \in 1 .. n}
  <1>1. Table(s, first, base) = [x \in names |-> IF x = Junk THEN <<>> ELSE value(word(named(x)))]
    BY DEF Table
  <1>2. n = Len(es)
    BY LoopStops
  <1>3. \A k \in 1 .. n : word(k) = EntryWord(es[k], offs[k], Len(m[es[k]]))
    BY <1>2 DEF HasEntries
  <1> HIDE DEF n, at, word
  <1>4. \A k \in 1 .. n : word(k).type = "entry" /\ word(k).name = es[k]
                           /\ word(k).offs = offs[k] /\ word(k).size = Len(m[es[k]])
    BY <1>3 DEF EntryWord
  <1>5. IsOrder(es, m) /\ n \in Nat
    BY <1>2 DEF HasEntries, IsOrder
  <1>6. names = DOMAIN m
    <2>1. \A x \in names : x \in DOMAIN m
      BY <1>2, <1>4, <1>5 DEF IsOrder
    <2>2. \A x \in DOMAIN m : x \in names
      <3> TAKE x \in DOMAIN m
      <3>1. PICK k \in 1 .. n : x = es[k]
        BY <1>2, <1>5 DEF IsOrder
      <3> QED
        BY <1>4, <3>1
    <2> QED
      BY <2>1, <2>2
  <1>7. \A k \in 1 .. n : es[k] \in names /\ es[k] # Junk /\ named(es[k]) = k
    <2> TAKE k \in 1 .. n
    <2>1. es[k] \in DOMAIN m /\ es[k] \in NameSet
      BY <1>2, <1>5 DEF IsOrder
    <2>2. \A j \in 1 .. n : word(j).type = "entry" /\ word(j).name = es[k] <=> j = k
      BY <1>2, <1>4, <1>5 DEF IsOrder
    <2>3. named(es[k]) = k
      BY <2>2
    <2> QED
      BY <1>6, <2>1, <2>3, NamesFacts
  <1>8. \A k \in 1 .. n : value(word(k)) = [p \in 1 .. Len(m[es[k]]) |-> LetterOf(s[base + offs[k] + p])]
    BY <1>4 DEF LetterOf
  <1> HIDE DEF names, named, value
  <1>9. \A k \in 1 .. n : Table(s, first, base)[es[k]] = value(word(k))
    BY <1>1, <1>7
  <1> QED
    BY <1>1, <1>2, <1>6, <1>8, <1>9

\* So what comes back has the same names, and values of the same lengths.
LEMMA TableIsList ==
    ASSUME NEW s, NEW first, NEW base, NEW m, IsList(m), NEW es, NEW offs,
           HasEntries(s, first, m, es, offs)
    PROVE  IsList(Table(s, first, base)) /\ DOMAIN Table(s, first, base) = DOMAIN m
  <1> DEFINE T == Table(s, first, base)
  <1>1. T = [x \in DOMAIN m |-> T[x]]
        /\ \A k \in 1 .. Len(es) :
             T[es[k]] = [p \in 1 .. Len(m[es[k]]) |-> LetterOf(s[base + offs[k] + p])]
    BY TableReads
  <1> HIDE DEF T
  <1>2. DOMAIN T = DOMAIN m
    BY <1>1
  <1>3. \A x \in DOMAIN m : IsValue(T[x])
    <2> TAKE x \in DOMAIN m
    <2>1. PICK k \in 1 .. Len(es) : x = es[k]
      BY DEF HasEntries, IsOrder
    <2>2. PICK l \in Nat : l = Len(m[x])
      BY DEF IsList, IsValue
    <2>3. T[x] = [p \in 1 .. l |-> LetterOf(s[base + offs[k] + p])]
      BY <1>1, <2>1, <2>2
    <2> QED
      BY <2>3 DEF IsValue
  <1> QED
    BY <1>1, <1>2, <1>3 DEF IsList, T

\* A tail: what is read is what was written.
LEMMA TailRoundTrip ==
    ASSUME NEW m, IsList(m), NEW avail \in Nat, Fits(m, avail)
    PROVE  Table(serializeXAttrs(m, avail), 0, 0) = m
  <1> DEFINE s == serializeXAttrs(m, avail)
             T == Table(s, 0, 0)
  <1>1. PICK es, offs : HasEntries(s, 0, m, es, offs) /\ HasValues(s, m, es, offs)
    BY SerializeHas
  <1> HIDE DEF s
  <1>2. T = [x \in DOMAIN m |-> T[x]]
        /\ \A k \in 1 .. Len(es) : T[es[k]] = [p \in 1 .. Len(m[es[k]]) |-> LetterOf(s[0 + offs[k] + p])]
    BY <1>1, TableReads
  <1> HIDE DEF T
  <1>3. \A x \in DOMAIN m : T[x] = m[x]
    <2> TAKE x \in DOMAIN m
    <2>1. PICK k \in 1 .. Len(es) : x = es[k]
      BY <1>1 DEF HasEntries, IsOrder
    <2>2. PICK l \in Nat : l = Len(m[x])
      BY DEF IsList, IsValue
    <2>3. m[x] = [p \in 1 .. l |-> m[x][p]]
      BY <2>2 DEF IsList, IsValue
    <2>4. T[x] = [p \in 1 .. l |-> LetterOf(s[0 + offs[k] + p])]
      BY <1>2, <2>1, <2>2
    <2>5. offs[k] \in Nat
      BY <1>1 DEF HasEntries
    <2>6. \A p \in 1 .. l : LetterOf(s[0 + offs[k] + p]) = m[x][p]
      <3> TAKE p \in 1 .. l
      <3>1. 0 + offs[k] + p = offs[k] + p
        BY <2>5
      <3>2. s[offs[k] + p] = ValueWord(m[x][p])
        BY <1>1, <2>1, <2>2 DEF HasValues
      <3> QED
        BY <3>1, <3>2 DEF LetterOf, ValueWord
    <2> QED
      BY <2>3, <2>4, <2>6
  <1> QED
    BY <1>2, <1>3 DEF IsList, T, s

\* The second part of two sequences put together.
LEMMA SecondPart ==
    ASSUME NEW S, NEW h \in Seq(S), NEW s \in Seq(S)
    PROVE  Len(h \o s) = Len(h) + Len(s) /\ \A p \in 1 .. Len(s) : (h \o s)[Len(h) + p] = s[p]
  <1>1. Len(h) \in Nat /\ Len(s) \in Nat /\ Len(h \o s) = Len(h) + Len(s)
    OBVIOUS
  <1>2. ASSUME NEW p \in 1 .. Len(s) PROVE (h \o s)[Len(h) + p] = s[p]
    <2>1. Len(h) + p \in 1 .. Len(h) + Len(s) /\ ~(Len(h) + p <= Len(h)) /\ Len(h) + p - Len(h) = p
      BY <1>1
    <2> QED
      BY <1>1, <2>1
  <1> QED
    BY <1>1, <1>2

\* An attribute block.
BlockOf(m) == [p \in 1 .. HeaderWords |-> Other] \o serializeXAttrs(m, BlockWords - HeaderWords)

\* A block: the names are those that were written; the values, looked for in the
\* wrong place, only keep their lengths.
LEMMA BlockRoundTrip ==
    ASSUME NEW m, IsList(m), Fits(m, BlockWords - HeaderWords)
    PROVE  IsList(Table(BlockOf(m), HeaderWords, 0)) /\ DOMAIN Table(BlockOf(m), HeaderWords, 0) = DOMAIN m
  <1> DEFINE avail == BlockWords - HeaderWords
             h == [p \in 1 .. HeaderWords |-> Other]
             s == serializeXAttrs(m, avail)
             b == h \o s
  <1>1. avail \in Nat /\ HeaderWords \in Nat /\ HeaderWords = 8
    BY SizesAssumption DEF HeaderWords
  <1>2. PICK es, offs : HasEntries(s, 0, m, es, offs)
    <2> HIDE DEF avail
    <2> QED
      BY <1>1, SerializeHas DEF avail
  <1>3. IsWords(h, HeaderWords) /\ IsWords(s, avail)
    <2>1. IsWords(h, HeaderWords)
      BY DEF IsWords
    <2>2. IsWords(s, avail)
      BY <1>1, SerializeFills
    <2> QED
      BY <2>1, <2>2
  <1> HIDE DEF h, s, avail
  <1>4. Len(h) = HeaderWords /\ Len(s) = avail
        /\ h \in Seq({h[p] : p \in 1 .. HeaderWords}) /\ s \in Seq({s[p] : p \in 1 .. avail})
    BY <1>1, <1>3, WordsLength
  <1> DEFINE S == {h[p] : p \in 1 .. HeaderWords} \union {s[p] : p \in 1 .. avail}
  <1>5. h \in Seq(S) /\ s \in Seq(S)
    BY <1>4
  <1> HIDE DEF S
  <1>6. Len(b) = HeaderWords + avail /\ \A p \in 1 .. avail : b[HeaderWords + p] = s[p]
    BY <1>4, <1>5, SecondPart
  <1> HIDE DEF b
  <1>7. HasEntries(b, HeaderWords, m, es, offs)
    <2> DEFINE n == Len(es)
    <2>1. n \in Nat /\ IsOrder(es, m) /\ offs \in [1 .. n -> Nat] /\ 5 * n + 1 <= avail
          /\ s[5 * n + 1] = Zero
          /\ \A k \in 1 .. n : s[5 * (k - 1) + 1] = EntryWord(es[k], offs[k], Len(m[es[k]]))
      BY <1>2, <1>4 DEF HasEntries, IsOrder, EntryWords
    <2>2. 5 * n + 1 \in 1 .. avail /\ HeaderWords + (5 * n + 1) = HeaderWords + EntryWords * n + 1
      BY <1>1, <2>1 DEF EntryWords
    <2>3. \A k \in 1 .. n : 5 * (k - 1) + 1 \in 1 .. avail
                /\ HeaderWords + (5 * (k - 1) + 1) = HeaderWords + EntryWords * (k - 1) + 1
      BY <1>1, <2>1 DEF EntryWords
    <2>4. b[HeaderWords + EntryWords * n + 1] = Zero
      BY <1>6, <2>1, <2>2
    <2>5. \A k \in 1 .. n : b[HeaderWords + EntryWords * (k - 1) + 1] = EntryWord(es[k], offs[k], Len(m[es[k]]))
      BY <1>6, <2>1, <2>3
    <2>6. Len(b) \in Nat /\ HeaderWords + EntryWords * n + 1 <= Len(b)
      BY <1>1, <1>6, <2>1, <2>2
    <2> QED
      BY <1>1, <2>1, <2>4, <2>5, <2>6 DEF HasEntries
  <1>8. BlockOf(m) = b
    BY DEF BlockOf, b, h, s, avail
  <1>9. IsList(Table(b, HeaderWords, 0)) /\ DOMAIN Table(b, HeaderWords, 0) = DOMAIN m
    BY <1>7, TableIsList
  <1> QED
    BY <1>8, <1>9

-----------------------------------------------------------------------------
(* Where the attributes of a file are *)

HeldInTail(i) == \E m :
    /\ IsList(m) /\ Fits(m, TailWords) /\ tail[i] = serializeXAttrs(m, TailWords)
    /\ DOMAIN m = DOMAIN attrs[i]
    /\ \A n \in DOMAIN attrs[i] \ moved[i] : m[n] = attrs[i][n]

HeldInBlock(i) == \E m :
    /\ IsList(m) /\ Fits(m, BlockWords - HeaderWords) /\ block[acl[i]] = BlockOf(m)
    /\ DOMAIN m = DOMAIN attrs[i]

NoTail(i) == i \in extra => tail[i] = <<>>

\* The attributes are nowhere, in the tail alone, or in the block alone.
Held(i) ==
    \/ acl[i] = 0 /\ NoTail(i) /\ DOMAIN attrs[i] = {}
    \/ acl[i] = 0 /\ i \in extra /\ HeldInTail(i)
    \/ acl[i] # 0 /\ NoTail(i) /\ HeldInBlock(i) /\ moved[i] = DOMAIN attrs[i]

AttrsInv ==
    /\ attrs = [i \in Inodes |-> attrs[i]] /\ moved = [i \in Inodes |-> moved[i]]
    /\ \A i \in Inodes \ used : DOMAIN attrs[i] = {}
    /\ \A i \in used : Held(i)

\* The list L is what callers of i expect.
Agrees(L, i) ==
    /\ IsList(L) /\ DOMAIN L = DOMAIN attrs[i]
    /\ \A n \in DOMAIN attrs[i] \ moved[i] : L[n] = attrs[i][n]

LEMMA EmptyList == DOMAIN <<>> = {} /\ IsList(<<>>)
  BY DEF IsList

LEMMA OverEmpty ==
    ASSUME NEW m, IsList(m)
    PROVE  Over(m, <<>>) = m /\ Over(<<>>, m) = m
  BY EmptyList DEF Over, IsList

\* ListXAttrs finds what is held.
LEMMA ListFinds ==
    ASSUME XattrInv, NEW i \in Inodes, Held(i)
    PROVE  Agrees(ListXAttrs(i), i)
  <1> DEFINE T == IF i \in extra /\ tail[i] # <<>> THEN Table(tail[i], 0, 0) ELSE <<>>
             B == IF acl[i] # 0 THEN Table(block[acl[i]], HeaderWords, 0) ELSE <<>>
  <1>0. ListXAttrs(i) = Over(T, B)
    BY DEF ListXAttrs
  <1>1. CASE acl[i] = 0 /\ NoTail(i) /\ DOMAIN attrs[i] = {}
    <2>1. T = <<>> /\ B = <<>>
      BY <1>1 DEF NoTail
    <2> HIDE DEF T, B
    <2>2. ListXAttrs(i) = <<>>
      BY <1>0, <2>1, EmptyList, OverEmpty
    <2> QED
      BY <1>1, <2>2, EmptyList DEF Agrees
  <1>2. CASE acl[i] = 0 /\ i \in extra /\ HeldInTail(i)
    <2>1. PICK m : /\ IsList(m) /\ Fits(m, TailWords) /\ tail[i] = serializeXAttrs(m, TailWords)
                   /\ DOMAIN m = DOMAIN attrs[i]
                   /\ \A n \in DOMAIN attrs[i] \ moved[i] : m[n] = attrs[i][n]
      BY <1>2 DEF HeldInTail
    <2>2. TailWords > 0
      <3>1. IsOrder(Entries(m), m) /\ AddsUp(Room(m), m, Entries(m))
        BY <2>1, EntriesOrder, RoomAddsUp
      <3>2. ValueLen(m) \in Nat /\ Len(Entries(m)) \in Nat
        BY <3>1 DEF ValueLen, IsOrder, AddsUp
      <3> QED
        BY <2>1, <3>2, SizesAssumption DEF Fits, EntryWords
    <2>3. tail[i] # <<>>
      <3>1. Len(tail[i]) = TailWords /\ Len(<<>>) = 0
        BY <2>1, SizesAssumption, SerializeFills, WordsLength
      <3> QED
        BY <2>2, <3>1
    <2>4. T = m /\ B = <<>>
      BY <1>2, <2>1, <2>3, TailRoundTrip, SizesAssumption
    <2> HIDE DEF T, B
    <2>5. ListXAttrs(i) = m
      BY <1>0, <2>1, <2>4, OverEmpty
    <2> QED
      BY <2>1, <2>5 DEF Agrees
  <1>3. CASE acl[i] # 0 /\ NoTail(i) /\ HeldInBlock(i) /\ moved[i] = DOMAIN attrs[i]
    <2>1. PICK m : /\ IsList(m) /\ Fits(m, BlockWords - HeaderWords) /\ block[acl[i]] = BlockOf(m)
                   /\ DOMAIN m = DOMAIN attrs[i]
      BY <1>3 DEF HeldInBlock
    <2>2. T = <<>> /\ B = Table(BlockOf(m), HeaderWords, 0)
      BY <1>3, <2>1 DEF NoTail
    <2> HIDE DEF T, B
    <2>3. IsList(B) /\ DOMAIN B = DOMAIN m
      BY <2>1, <2>2, BlockRoundTrip
    <2>4. ListXAttrs(i) = B
      BY <1>0, <2>2, <2>3, OverEmpty
    <2> QED
      BY <1>3, <2>1, <2>3, <2>4 DEF Agrees
  <1> QED
    BY <1>1, <1>2, <1>3 DEF Held

\* SetXAttr leaves the attributes of i held as its caller wants them.
LEMMA SetHolds ==
    ASSUME XattrInv, AttrsInv, NEW i \in used, NEW m, IsList(m), SetXAttr(i, m),
           NEW n, NEW wanted, Noted(i, n, wanted), UNCHANGED <<used, extra>>,
           DOMAIN m = DOMAIN wanted,
           \A x \in DOMAIN wanted \ (moved[i] \ {n}) : m[x] = wanted[x]
    PROVE  Held(i)'
  <1>1. i \in Inodes /\ acl \in [Inodes -> Blocks \union {0}] /\ taken \subseteq Blocks
        /\ tail = [j \in Inodes |-> tail[j]] /\ block = [b \in Blocks |-> block[b]]
        /\ attrs = [j \in Inodes |-> attrs[j]] /\ moved = [j \in Inodes |-> moved[j]]
    BY DEF XattrInv, ShapeOK, OwnersOK, AttrsInv
  <1>2. attrs'[i] = wanted
        /\ moved'[i] = IF acl'[i] # 0 THEN DOMAIN wanted ELSE (moved[i] \ {n}) \intersect DOMAIN wanted
    BY <1>1 DEF Noted
  <1>3. ClearTail(i) => NoTail(i)'
    BY <1>1 DEF ClearTail, NoTail
  <1>4. CASE ToTail(i, m)
    <2>1. acl'[i] = 0 /\ i \in extra' /\ (m = <<>> \/ Fits(m, TailWords))
          /\ tail'[i] = IF m = <<>> THEN <<>> ELSE serializeXAttrs(m, TailWords)
      BY <1>1, <1>4 DEF ToTail
    <2>2. CASE m = <<>>
      <3>1. NoTail(i)' /\ DOMAIN attrs'[i] = {}
        BY <1>2, <2>1, <2>2, EmptyList DEF NoTail
      <3> QED
        BY <2>1, <3>1 DEF Held
    <2>3. CASE m # <<>>
      <3>1. moved'[i] = (moved[i] \ {n}) \intersect DOMAIN wanted
        BY <1>2, <2>1
      <3>2. \A x \in DOMAIN attrs'[i] \ moved'[i] : m[x] = attrs'[i][x]
        BY <1>2, <3>1
      <3>3. HeldInTail(i)'
        BY <1>2, <2>1, <2>3, <3>2 DEF HeldInTail
      <3> QED
        BY <2>1, <3>3 DEF Held
    <2> QED
      BY <2>2, <2>3
  <1>5. CASE ToNothing(i, m)
    <2>1. acl'[i] = 0 /\ ClearTail(i) /\ m = <<>>
      BY <1>1, <1>5 DEF ToNothing
    <2>2. DOMAIN attrs'[i] = {}
      BY <1>2, <2>1, EmptyList
    <2> QED
      BY <1>3, <2>1, <2>2 DEF Held
  <1>6. CASE ToBlock(i, m)
    <2> DEFINE b == IF acl[i] # 0 THEN acl[i] ELSE AllocateBlock
    <2>1. block' = [block EXCEPT ![b] = BlockOf(m)] /\ acl' = [acl EXCEPT ![i] = b]
          /\ ClearTail(i) /\ (acl[i] # 0 \/ taken # Blocks) /\ Fits(m, BlockWords - HeaderWords)
      BY <1>6 DEF ToBlock, BlockOf
    <2>2. b \in Blocks /\ b # 0
      BY <1>1, <2>1, AllocateFindsFree
    <2> HIDE DEF b
    <2>3. acl'[i] = b /\ block'[acl'[i]] = BlockOf(m)
      BY <1>1, <2>1, <2>2
    <2>4. HeldInBlock(i)'
      BY <1>2, <2>1, <2>3 DEF HeldInBlock
    <2> QED
      BY <1>2, <1>3, <2>1, <2>2, <2>3, <2>4 DEF Held
  <1> QED
    BY <1>4, <1>5, <1>6 DEF SetXAttr

\* What is the same for j in both states keeps its attributes held.
LEMMA HeldKept ==
    ASSUME NEW j, Held(j), acl'[j] = acl[j], tail'[j] = tail[j], j \in extra' <=> j \in extra,
           acl[j] # 0 => block'[acl[j]] = block[acl[j]], attrs'[j] = attrs[j], moved'[j] = moved[j]
    PROVE  Held(j)'
  <1>1. NoTail(j) => NoTail(j)'
    BY DEF NoTail
  <1>2. HeldInTail(j) => HeldInTail(j)'
    BY DEF HeldInTail
  <1>3. acl[j] # 0 /\ HeldInBlock(j) => HeldInBlock(j)'
    BY DEF HeldInBlock
  <1> QED
    BY <1>1, <1>2, <1>3 DEF Held

\* SetXAttr of one file leaves the others alone.
LEMMA SetOthers ==
    ASSUME XattrInv, AttrsInv, NEW i \in used, NEW m, SetXAttr(i, m),
           NEW n, NEW wanted, Noted(i, n, wanted), UNCHANGED <<used, extra>>, NEW j \in used, j # i
    PROVE  Held(j)'
  <1>1. i \in Inodes /\ j \in Inodes /\ acl \in [Inodes -> Blocks \union {0}] /\ taken \subseteq Blocks
        /\ tail = [k \in Inodes |-> tail[k]] /\ block = [b \in Blocks |-> block[b]]
        /\ attrs = [k \in Inodes |-> attrs[k]] /\ moved = [k \in Inodes |-> moved[k]]
    BY DEF XattrInv, ShapeOK, OwnersOK, AttrsInv
  <1>2. attrs'[j] = attrs[j] /\ moved'[j] = moved[j]
    BY <1>1 DEF Noted
  <1>3. ClearTail(i) => tail'[j] = tail[j]
    BY <1>1 DEF ClearTail
  <1>4. tail'[j] = tail[j]
    <2>1. ToTail(i, m) => tail'[j] = tail[j]
      BY <1>1 DEF ToTail
    <2> QED
      BY <1>3, <2>1 DEF SetXAttr, ToNothing, ToBlock
  <1>5. acl'[j] = acl[j]
    BY <1>1 DEF SetXAttr, ToTail, ToNothing, ToBlock
  <1>6. acl[j] # 0 => block'[acl[j]] = block[acl[j]]
    <2> SUFFICES ASSUME acl[j] # 0, ToBlock(i, m)
                 PROVE  block'[acl[j]] = block[acl[j]]
      BY DEF SetXAttr, ToTail, ToNothing
    <2> DEFINE b == IF acl[i] # 0 THEN acl[i] ELSE AllocateBlock
    <2>1. block' = [block EXCEPT ![b] = BlockOf(m)] /\ (acl[i] # 0 \/ taken # Blocks)
      BY DEF ToBlock, BlockOf
    <2>2. Owns(j, acl[j]) /\ acl[j] \in Blocks
      BY <1>1 DEF Owns
    <2>3. acl[j] \in taken
      BY <1>1, <2>2 DEF XattrInv, OwnersOK
    <2>4. acl[j] # b
      <3>1. CASE acl[i] # 0
        BY <1>1, <2>2, <3>1 DEF XattrInv, OwnersOK, Owns
      <3>2. CASE acl[i] = 0
        BY <1>1, <2>1, <2>3, <3>2, AllocateFindsFree
      <3> QED
        BY <3>1, <3>2
    <2> HIDE DEF b
    <2> QED
      BY <1>1, <2>1, <2>2, <2>4
  <1>7. Held(j)
    BY DEF AttrsInv
  <1>8. j \in extra' <=> j \in extra
    OBVIOUS
  <1> QED
    BY <1>2, <1>4, <1>5, <1>6, <1>7, <1>8, HeldKept

\* Both together.
LEMMA SetAttrs ==
    ASSUME XattrInv, AttrsInv, NEW i \in used, NEW m, IsList(m), SetXAttr(i, m),
           NEW n, NEW wanted, Noted(i, n, wanted), UNCHANGED <<used, extra>>,
           DOMAIN m = DOMAIN wanted,
           \A x \in DOMAIN wanted \ (moved[i] \ {n}) : m[x] = wanted[x]
    PROVE  AttrsInv'
  <1>1. i \in Inodes /\ used' = used
        /\ attrs = [j \in Inodes |-> attrs[j]] /\ moved = [j \in Inodes |-> moved[j]]
    BY DEF XattrInv, ShapeOK, AttrsInv
  <1>2. attrs' = [attrs EXCEPT ![i] = wanted] /\ \E s : moved' = [moved EXCEPT ![i] = s]
    BY DEF Noted
  <1>3. attrs' = [j \in Inodes |-> attrs'[j]] /\ moved' = [j \in Inodes |-> moved'[j]]
    BY <1>1, <1>2
  <1>4. \A j \in Inodes \ used' : DOMAIN attrs'[j] = {}
    BY <1>1, <1>2 DEF AttrsInv
  <1>5. \A j \in used' : Held(j)'
    BY <1>1, SetHolds, SetOthers
  <1> QED
    BY <1>3, <1>4, <1>5 DEF AttrsInv

LEMMA SetxattrKeeps ==
    ASSUME XattrInv, AttrsInv, NEW i \in Inodes, NEW n \in NameSet, NEW v \in Values, NEW f,
           Setxattr(i, n, v, f)
    PROVE  AttrsInv'
  <1> DEFINE L == ListXAttrs(i)
             m == With(L, n, v)
             wanted == With(attrs[i], n, v)
  <1>1. i \in used /\ SetXAttr(i, m) /\ Noted(i, n, wanted) /\ UNCHANGED <<used, extra>>
    BY DEF Setxattr
  <1>2. Agrees(L, i)
    BY <1>1, ListFinds DEF AttrsInv
  <1> HIDE DEF L
  <1>3. IsValue(v)
    BY NamesAssumption DEF IsValue
  <1>4. DOMAIN m = DOMAIN L \union {n} /\ m = [x \in DOMAIN m |-> m[x]]
        /\ \A x \in DOMAIN m : m[x] = IF x = n THEN v ELSE L[x]
    BY DEF With
  <1>5. DOMAIN wanted = DOMAIN attrs[i] \union {n}
        /\ \A x \in DOMAIN wanted : wanted[x] = IF x = n THEN v ELSE attrs[i][x]
    BY DEF With
  <1> HIDE DEF m, wanted
  <1>6. IsList(m)
    BY <1>2, <1>3, <1>4 DEF Agrees, IsList
  <1>7. DOMAIN m = DOMAIN wanted /\ \A x \in DOMAIN wanted \ (moved[i] \ {n}) : m[x] = wanted[x]
    BY <1>2, <1>4, <1>5 DEF Agrees
  <1> QED
    BY <1>1, <1>6, <1>7, SetAttrs

LEMMA RemovexattrKeeps ==
    ASSUME XattrInv, AttrsInv, NEW i \in Inodes, NEW n, Removexattr(i, n)
    PROVE  AttrsInv'
  <1> DEFINE L == ListXAttrs(i)
             m == Without(L, n)
             wanted == Without(attrs[i], n)
  <1>1. i \in used /\ SetXAttr(i, m) /\ Noted(i, n, wanted) /\ UNCHANGED <<used, extra>>
    BY DEF Removexattr
  <1>2. Agrees(L, i)
    BY <1>1, ListFinds DEF AttrsInv
  <1> HIDE DEF L
  <1>3. DOMAIN m = DOMAIN L \ {n} /\ m = [x \in DOMAIN m |-> m[x]] /\ \A x \in DOMAIN m : m[x] = L[x]
    BY DEF Without
  <1>4. DOMAIN wanted = DOMAIN attrs[i] \ {n} /\ \A x \in DOMAIN wanted : wanted[x] = attrs[i][x]
    BY DEF Without
  <1> HIDE DEF m, wanted
  <1>5. IsList(m)
    BY <1>2, <1>3 DEF Agrees, IsList
  <1>6. DOMAIN m = DOMAIN wanted /\ \A x \in DOMAIN wanted \ (moved[i] \ {n}) : m[x] = wanted[x]
    BY <1>2, <1>3, <1>4 DEF Agrees
  <1> QED
    BY <1>1, <1>5, <1>6, SetAttrs

LEMMA UnlinkAttrs ==
    ASSUME XattrInv, AttrsInv, NEW i \in Inodes, Unlink(i)
    PROVE  AttrsInv'
  <1>1. used' = used \ {i} /\ attrs' = [attrs EXCEPT ![i] = <<>>] /\ moved' = [moved EXCEPT ![i] = {}]
        /\ UNCHANGED <<extra, tail, acl, block>>
    BY DEF Unlink
  <1>2. attrs = [j \in Inodes |-> attrs[j]] /\ moved = [j \in Inodes |-> moved[j]] /\ used \subseteq Inodes
    BY DEF AttrsInv, XattrInv, ShapeOK
  <1>3. attrs' = [j \in Inodes |-> attrs'[j]] /\ moved' = [j \in Inodes |-> moved'[j]]
    BY <1>1, <1>2
  <1>4. attrs'[i] = <<>> /\ \A j \in Inodes : j # i => attrs'[j] = attrs[j] /\ moved'[j] = moved[j]
    BY <1>1, <1>2
  <1>5. \A j \in Inodes \ used' : DOMAIN attrs'[j] = {}
    BY <1>1, <1>4, EmptyList DEF AttrsInv
  <1>6. \A j \in used' : Held(j)'
    <2> TAKE j \in used'
    <2>1. j \in used /\ j # i /\ j \in Inodes /\ Held(j)
      BY <1>1, <1>2 DEF AttrsInv
    <2> QED
      BY <1>1, <1>4, <2>1, HeldKept
  <1> QED
    BY <1>3, <1>5, <1>6 DEF AttrsInv

\* The tail of a reused inode may still be full: it is not read.
LEMMA InitInodeAttrs ==
    ASSUME XattrInv, AttrsInv, NEW i \in Inodes, InitNewInode(i)
    PROVE  AttrsInv'
  <1>1. i \notin used /\ used' = used \union {i} /\ extra' = extra \ {i} /\ acl' = [acl EXCEPT ![i] = 0]
        /\ UNCHANGED <<tail, block, attrs, moved>>
    BY DEF InitNewInode
  <1>2. acl'[i] = 0 /\ \A j \in Inodes : j # i => acl'[j] = acl[j]
    BY <1>1 DEF XattrInv, ShapeOK
  <1>3. Held(i)'
    <2>1. NoTail(i)' /\ DOMAIN attrs'[i] = {}
      BY <1>1 DEF NoTail, AttrsInv
    <2> QED
      BY <1>2, <2>1 DEF Held
  <1>4. \A j \in used : Held(j)'
    <2> TAKE j \in used
    <2>1. j # i /\ j \in Inodes /\ Held(j)
      BY <1>1 DEF AttrsInv, XattrInv, ShapeOK
    <2> QED
      BY <1>1, <1>2, <2>1, HeldKept
  <1> QED
    BY <1>1, <1>3, <1>4 DEF AttrsInv

LEMMA AttrsInvariant == Spec => []AttrsInv
  <1>1. Init => AttrsInv
    <2> SUFFICES ASSUME Init
                 PROVE  AttrsInv
      OBVIOUS
    <2>1. \A i \in Inodes : attrs[i] = <<>> /\ tail[i] = <<>> /\ acl[i] = 0
      BY DEF Init
    <2>2. \A i \in Inodes : Held(i) /\ DOMAIN attrs[i] = {}
      BY <2>1, EmptyList DEF Held, NoTail
    <2>3. used \subseteq Inodes
      BY SizesAssumption DEF Init
    <2> QED
      BY <2>2, <2>3 DEF Init, AttrsInv
  <1>2. XattrInv /\ AttrsInv /\ [Next]_vars => AttrsInv'
    <2> SUFFICES ASSUME XattrInv, AttrsInv, [Next]_vars
                 PROVE  AttrsInv'
      OBVIOUS
    <2>1. CASE UNCHANGED vars
      <3>1. \A j \in used : Held(j)'
        BY <2>1, HeldKept DEF vars, AttrsInv
      <3> QED
        BY <2>1, <3>1 DEF vars, AttrsInv
    <2> QED
      BY <2>1, SetxattrKeeps, RemovexattrKeeps, UnlinkAttrs, InitInodeAttrs DEF Next, NameSet
  <1> QED
    BY <1>1, <1>2, XattrInvariant, PTL DEF Spec

\* serializeXAttrs, SetXAttr and ListXAttrs: a file has exactly the attributes that were
\* set and not removed, with their values as long as they have not been in a block, for
\* any names, values and sizes of tail and block: what ListXAttrs reads from a table is
\* what serializeXAttrs wrote, up to the last word, and never what a file before left.
THEOREM AttrsCorrect == Spec => []AttrsListed
  <1>1. XattrInv /\ AttrsInv => AttrsListed
    <2> SUFFICES ASSUME XattrInv, AttrsInv, NEW i \in used
                 PROVE  /\ DOMAIN ListXAttrs(i) = DOMAIN attrs[i]
                        /\ \A n \in DOMAIN attrs[i] \ moved[i] : ListXAttrs(i)[n] = attrs[i][n]
      BY DEF AttrsListed
    <2>1. i \in Inodes /\ Held(i)
      BY DEF XattrInv, ShapeOK, AttrsInv
    <2>2. Agrees(ListXAttrs(i), i)
      BY <2>1, ListFinds
    <2> QED
      BY <2>2 DEF Agrees
  <1> QED
    BY <1>1, XattrInvariant, AttrsInvariant, PTL
=============================================================================

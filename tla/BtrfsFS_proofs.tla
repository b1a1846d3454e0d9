--------------------------- MODULE BtrfsFS_proofs ---------------------------
(***************************************************************************)
(* Theorems about the path operations of btrfs/fs.go, for any number of    *)
(* names, inodes, words and blocks.                                        *)
(***************************************************************************)
EXTENDS BtrfsFS, Minimum, FiniteSetTheorems, SequenceTheorems

-----------------------------------------------------------------------------
(* Directories as maps *)

Entry == [name : Names, ino : Inodes]
IsEntries(E) == E \in [Inodes -> Seq(Entry)]

\* No name twice in a directory.
NoDoubles(E) == \A d \in Inodes : \A j, k \in 1 .. Len(E[d]) : E[d][j].name = E[d][k].name => j = k

\* Where name n of directory d is, and the inode it leads to; 0 if there is none.
Position(E, d, n) ==
    LET I == {k \in 1 .. Len(E[d]) : E[d][k].name = n} IN IF I # {} THEN Min(I) ELSE 0
Look(E, d, n) == IF Position(E, d, n) = 0 THEN 0 ELSE E[d][Position(E, d, n)].ino

LEMMA InodeFacts ==
    /\ Root \in Inodes /\ 0 \notin Inodes /\ \A i \in Inodes : i \in Nat /\ i # 0
    /\ IsFiniteSet(Inodes) /\ IsFiniteSet(Names)
  <1>1. PICK n \in Inodes : Inodes = 1 .. n
    BY RootAssumption
  <1>2. n \in Nat
    BY RootAssumption
  <1>3. IsFiniteSet(Inodes)
    BY <1>1, <1>2, FS_Interval
  <1> QED
    BY <1>1, <1>2, <1>3, RootAssumption

LEMMA FindIsPosition ==
    ASSUME NEW s, NEW d, NEW n
    PROVE  Find(s, d, n) = Position(s.entries, d, n) /\ lookupDirEntry(s, d, n) = Look(s.entries, d, n)
  <1>1. Find(s, d, n) = Position(s.entries, d, n)
    BY DEF Find, SelectInSeq, Position
  <1> QED
    BY <1>1 DEF lookupDirEntry, Look

\* An entry that is found is there, and one that is not is not.
LEMMA PositionFound ==
    ASSUME NEW E, IsEntries(E), NEW d \in Inodes, NEW n
    PROVE  \/ /\ Position(E, d, n) \in 1 .. Len(E[d]) /\ Position(E, d, n) # 0
              /\ E[d][Position(E, d, n)].name = n
              /\ Look(E, d, n) = E[d][Position(E, d, n)].ino /\ Look(E, d, n) \in Inodes
              /\ n \in Names
           \/ /\ Position(E, d, n) = 0 /\ Look(E, d, n) = 0
              /\ \A k \in 1 .. Len(E[d]) : E[d][k].name # n
  <1> DEFINE I == {k \in 1 .. Len(E[d]) : E[d][k].name = n}
  <1>1. Len(E[d]) \in Nat /\ \A k \in 1 .. Len(E[d]) : E[d][k] \in Entry
    BY DEF IsEntries
  <1>2. I \in SUBSET Nat
    BY <1>1
  <1>3. Position(E, d, n) = IF I # {} THEN Min(I) ELSE 0
    BY DEF Position
  <1>4. CASE I # {}
    <2> HIDE DEF I
    <2>1. Min(I) \in I
      BY <1>2, <1>4, MinIsSmallest
    <2>2. Position(E, d, n) \in I
      BY <1>3, <1>4, <2>1
    <2>3. Position(E, d, n) \in 1 .. Len(E[d]) /\ E[d][Position(E, d, n)].name = n
      BY <2>2 DEF I
    <2>4. Position(E, d, n) # 0
      BY <1>1, <2>3
    <2>5. E[d][Position(E, d, n)] \in Entry
      BY <1>1, <2>3
    <2> QED
      BY <2>3, <2>4, <2>5 DEF Look, Entry
  <1>5. CASE I = {}
    BY <1>3, <1>5 DEF Look
  <1> QED
    BY <1>4, <1>5

LEMMA LookType ==
    ASSUME NEW E, IsEntries(E), NEW d \in Inodes, NEW n
    PROVE  Look(E, d, n) \in Inodes \union {0} /\ (n \notin Names => Look(E, d, n) = 0)
  BY PositionFound

\* Without doubles an entry decides what its name leads to.
LEMMA LookIs ==
    ASSUME NEW E, IsEntries(E), NoDoubles(E), NEW d \in Inodes, NEW k \in 1 .. Len(E[d])
    PROVE  Look(E, d, E[d][k].name) = E[d][k].ino /\ Position(E, d, E[d][k].name) = k
           /\ E[d][k].ino \in Inodes /\ E[d][k].name \in Names
  <1> DEFINE n == E[d][k].name
             p == Position(E, d, n)
  <1>1. p \in 1 .. Len(E[d]) /\ E[d][p].name = n /\ Look(E, d, n) = E[d][p].ino
    BY PositionFound
  <1>2. p = k
    BY <1>1 DEF NoDoubles
  <1>3. E[d][k] \in Entry
    BY DEF IsEntries
  <1> QED
    BY <1>1, <1>2, <1>3 DEF Entry

\* A directory without entries leads nowhere, and one that leads nowhere has none.
LEMMA EmptyLooks ==
    ASSUME NEW E, IsEntries(E), NEW d \in Inodes
    PROVE  E[d] = <<>> <=> \A n \in Names : Look(E, d, n) = 0
  <1>1. ASSUME E[d] = <<>>, NEW n \in Names PROVE Look(E, d, n) = 0
    <2>1. 1 .. Len(E[d]) = {}
      BY <1>1
    <2> QED
      BY <2>1, PositionFound
  <1>2. ASSUME E[d] # <<>>, \A n \in Names : Look(E, d, n) = 0 PROVE FALSE
    <2>1. E[d] \in Seq(Entry) /\ 1 \in 1 .. Len(E[d])
      BY <1>2 DEF IsEntries
    <2>2. E[d][1] \in Entry
      BY <2>1
    <2>4. E[d][1].name \in Names
      BY <2>2 DEF Entry
    <2>3. Look(E, d, E[d][1].name) \in Inodes
      BY <2>1, PositionFound
    <2> QED
      BY <1>2, <2>3, <2>4, InodeFacts
  <1> QED
    BY <1>1, <1>2

LEMMA SameLook ==
    ASSUME NEW E, NEW E2, NEW x, E2[x] = E[x], NEW y
    PROVE  Look(E2, x, y) = Look(E, x, y)
  BY DEF Look, Position

\* F has what E has but for name n of d, which leads to i (0: is gone).
Differs(E, F, d, n, i) ==
    /\ IsEntries(F) /\ NoDoubles(F)
    /\ \A x \in Inodes, y \in Names : Look(F, x, y) = IF x = d /\ y = n THEN i ELSE Look(E, x, y)

LEMMA EntryAdded ==
    ASSUME NEW E, IsEntries(E), NoDoubles(E), NEW d \in Inodes, NEW n \in Names, NEW i \in Inodes,
           Look(E, d, n) = 0
    PROVE  Differs(E, [E EXCEPT ![d] = Append(E[d], [name |-> n, ino |-> i])], d, n, i)
  <1> DEFINE e == [name |-> n, ino |-> i]
             F == [E EXCEPT ![d] = Append(E[d], e)]
  <1>0. e \in Entry
    BY DEF Entry
  <1>1. E[d] \in Seq(Entry) /\ e \in Entry /\ Len(E[d]) \in Nat
    BY <1>0 DEF IsEntries
  <1>2. Append(E[d], e) \in Seq(Entry) /\ Len(Append(E[d], e)) = Len(E[d]) + 1
        /\ Append(E[d], e)[Len(E[d]) + 1] = e
        /\ \A k \in 1 .. Len(E[d]) : Append(E[d], e)[k] = E[d][k]
    BY <1>1, AppendProperties
  <1>3. F[d] = Append(E[d], e) /\ \A x \in Inodes : x # d => F[x] = E[x]
    BY DEF IsEntries
  <1>4. IsEntries(F)
    BY <1>2 DEF IsEntries
  <1> HIDE DEF F
  <1>5. \A k \in 1 .. Len(E[d]) : E[d][k].name # n
    BY PositionFound, InodeFacts
  <1>6. e.name = n /\ e.ino = i
    OBVIOUS
  <1>7. Len(F[d]) = Len(E[d]) + 1 /\ F[d][Len(E[d]) + 1] = e
        /\ \A k \in 1 .. Len(E[d]) : F[d][k] = E[d][k] /\ k \in 1 .. Len(F[d])
    BY <1>1, <1>2, <1>3
  <1> HIDE DEF e
  <1>8. NoDoubles(F)
    <2> SUFFICES ASSUME NEW x \in Inodes, NEW j \in 1 .. Len(F[x]), NEW k \in 1 .. Len(F[x]),
                        F[x][j].name = F[x][k].name
                 PROVE  j = k
      BY DEF NoDoubles
    <2>1. CASE x # d
      BY <1>3, <2>1 DEF NoDoubles
    <2>2. CASE x = d
      <3>1. \A m \in 1 .. Len(F[d]) : m \in 1 .. Len(E[d]) \/ m = Len(E[d]) + 1
        BY <1>1, <1>7
      <3>2. \A m \in 1 .. Len(F[d]) : (m = Len(E[d]) + 1) = (F[d][m].name = n)
        BY <1>1, <1>5, <1>6, <1>7, <3>1
      <3>3. CASE F[d][j].name = n
        BY <2>2, <3>2, <3>3
      <3>4. CASE F[d][j].name # n
        <4>1. j \in 1 .. Len(E[d]) /\ k \in 1 .. Len(E[d])
          BY <2>2, <3>1, <3>2, <3>4
        <4>2. E[d][j].name = E[d][k].name
          BY <1>7, <2>2, <4>1
        <4> QED
          BY <4>1, <4>2 DEF NoDoubles
      <3> QED
        BY <3>3, <3>4
    <2> QED
      BY <2>1, <2>2
  <1>9. Look(F, d, n) = i
    <2>1. Len(E[d]) + 1 \in 1 .. Len(F[d])
      BY <1>1, <1>7
    <2> QED
      BY <1>4, <1>6, <1>7, <1>8, <2>1, LookIs
  <1>10. ASSUME NEW y \in Names, y # n PROVE Look(F, d, y) = Look(E, d, y)
    <2>1. CASE Look(E, d, y) = 0
      <3>1. \A k \in 1 .. Len(E[d]) : E[d][k].name # y
        BY <2>1, PositionFound, InodeFacts
      <3>2. \A k \in 1 .. Len(F[d]) : F[d][k].name # y
        BY <1>1, <1>6, <1>7, <1>10, <3>1
      <3> QED
        BY <1>4, <2>1, <3>2, PositionFound
    <2>2. CASE Look(E, d, y) # 0
      <3>1. PICK k \in 1 .. Len(E[d]) : E[d][k].name = y /\ E[d][k].ino = Look(E, d, y)
        BY <2>2, PositionFound
      <3>2. F[d][k] = E[d][k] /\ k \in 1 .. Len(F[d])
        BY <1>7
      <3> QED
        BY <1>4, <1>8, <3>1, <3>2, LookIs
    <2> QED
      BY <2>1, <2>2
  <1>11. \A x \in Inodes, y \in Names : x # d => Look(F, x, y) = Look(E, x, y)
    BY <1>3, SameLook
  <1> QED
    BY <1>4, <1>8, <1>9, <1>10, <1>11 DEF Differs, F, e

LEMMA RemoveAtIs ==
    ASSUME NEW S, NEW s \in Seq(S), NEW k \in 1 .. Len(s)
    PROVE  /\ RemoveAt(s, k) \in Seq(S) /\ Len(RemoveAt(s, k)) = Len(s) - 1
           /\ \A j \in 1 .. Len(s) - 1 : RemoveAt(s, k)[j] = s[IF j < k THEN j ELSE j + 1]
  <1> DEFINE a == SubSeq(s, 1, k - 1)
             b == SubSeq(s, k + 1, Len(s))
  <1>1. k \in Nat /\ Len(s) \in Nat /\ k - 1 \in Int /\ k + 1 \in Int /\ 1 <= k /\ k <= Len(s)
    OBVIOUS
  <1>2. a \in Seq(S) /\ Len(a) = k - 1 /\ \A j \in 1 .. k - 1 : a[j] = s[j]
    BY <1>1
  <1>3. b \in Seq(S) /\ Len(b) = Len(s) - k /\ \A j \in 1 .. Len(s) - k : b[j] = s[k + j]
    BY <1>1
  <1>4. RemoveAt(s, k) = a \o b
    BY DEF RemoveAt
  <1> HIDE DEF a, b
  <1>5. a \o b \in Seq(S) /\ Len(a \o b) = Len(a) + Len(b)
        /\ \A j \in 1 .. Len(a) + Len(b) : (a \o b)[j] = IF j <= Len(a) THEN a[j] ELSE b[j - Len(a)]
    BY <1>2, <1>3, ConcatProperties
  <1>6. ASSUME NEW j \in 1 .. Len(s) - 1 PROVE (a \o b)[j] = s[IF j < k THEN j ELSE j + 1]
    <2>1. (a \o b)[j] = IF j <= k - 1 THEN a[j] ELSE b[j - (k - 1)]
      BY <1>1, <1>2, <1>3, <1>5
    <2>2. CASE j < k
      BY <1>1, <1>2, <2>1, <2>2
    <2>3. CASE ~(j < k)
      <3>1. j - (k - 1) \in 1 .. Len(s) - k /\ k + (j - (k - 1)) = j + 1
        BY <1>1, <2>3
      <3>2. b[j - (k - 1)] = s[j + 1]
        BY <1>3, <3>1
      <3> QED
        BY <1>1, <2>1, <2>3, <3>2
    <2> QED
      BY <2>2, <2>3
  <1> QED
    BY <1>1, <1>2, <1>3, <1>4, <1>5, <1>6

LEMMA EntryRemoved ==
    ASSUME NEW E, IsEntries(E), NoDoubles(E), NEW d \in Inodes, NEW n \in Names, Look(E, d, n) # 0
    PROVE  Differs(E, [E EXCEPT ![d] = RemoveAt(E[d], Position(E, d, n))], d, n, 0)
  <1> DEFINE p == Position(E, d, n)
             F == [E EXCEPT ![d] = RemoveAt(E[d], p)]
             Old(j) == IF j < p THEN j ELSE j + 1
  <1>1. p \in 1 .. Len(E[d]) /\ E[d][p].name = n
    BY PositionFound
  <1> HIDE DEF p
  <1>2. E[d] \in Seq(Entry) /\ Len(E[d]) \in Nat
    BY DEF IsEntries
  <1>3. F[d] = RemoveAt(E[d], p) /\ \A x \in Inodes : x # d => F[x] = E[x]
    BY DEF IsEntries
  <1>4. F[d] \in Seq(Entry) /\ Len(F[d]) = Len(E[d]) - 1
        /\ \A j \in 1 .. Len(E[d]) - 1 : F[d][j] = E[d][Old(j)]
    BY <1>1, <1>2, <1>3, RemoveAtIs
  <1>5. IsEntries(F)
    BY <1>3, <1>4 DEF IsEntries
  <1> HIDE DEF F
  <1>6. \A j \in 1 .. Len(F[d]) : F[d][j] = E[d][Old(j)] /\ Old(j) \in 1 .. Len(E[d]) /\ Old(j) # p
    BY <1>1, <1>2, <1>4
  <1>7. \A j, k \in 1 .. Len(F[d]) : Old(j) = Old(k) => j = k
    BY <1>1, <1>2, <1>4
  <1>8. \A k \in 1 .. Len(E[d]) : k # p => \E j \in 1 .. Len(F[d]) : Old(j) = k
    <2> TAKE k \in 1 .. Len(E[d])
    <2> HAVE k # p
    <2>1. CASE k < p
      <3>1. k \in 1 .. Len(F[d]) /\ Old(k) = k
        BY <1>1, <1>2, <1>4, <2>1
      <3> QED
        BY <3>1
    <2>2. CASE ~(k < p)
      <3>1. k - 1 \in 1 .. Len(F[d]) /\ Old(k - 1) = k
        BY <1>1, <1>2, <1>4, <2>2
      <3> QED
        BY <3>1
    <2> QED
      BY <2>1, <2>2
  <1> HIDE DEF Old
  <1>9. NoDoubles(F)
    <2> SUFFICES ASSUME NEW x \in Inodes, NEW j \in 1 .. Len(F[x]), NEW k \in 1 .. Len(F[x]),
                        F[x][j].name = F[x][k].name
                 PROVE  j = k
      BY DEF NoDoubles
    <2>1. CASE x # d
      BY <1>3, <2>1 DEF NoDoubles
    <2>2. CASE x = d
      <3>1. Old(j) \in 1 .. Len(E[d]) /\ Old(k) \in 1 .. Len(E[d])
            /\ E[d][Old(j)].name = E[d][Old(k)].name
        BY <1>6, <2>2
      <3>2. Old(j) = Old(k)
        BY <3>1 DEF NoDoubles
      <3> QED
        BY <1>7, <2>2, <3>2
    <2> QED
      BY <2>1, <2>2
  <1>10. Look(F, d, n) = 0
    <2>1. \A j \in 1 .. Len(F[d]) : F[d][j].name # n
      BY <1>1, <1>6 DEF NoDoubles
    <2> QED
      BY <1>5, <2>1, PositionFound
  <1>11. ASSUME NEW y \in Names, y # n PROVE Look(F, d, y) = Look(E, d, y)
    <2>1. CASE Look(E, d, y) = 0
      <3>1. \A k \in 1 .. Len(E[d]) : E[d][k].name # y
        BY <2>1, PositionFound, InodeFacts
      <3>2. \A j \in 1 .. Len(F[d]) : F[d][j].name # y
        BY <1>6, <3>1
      <3> QED
        BY <1>5, <2>1, <3>2, PositionFound, SMTT(30)
    <2>2. CASE Look(E, d, y) # 0
      <3>1. PICK k \in 1 .. Len(E[d]) : E[d][k].name = y /\ E[d][k].ino = Look(E, d, y)
        BY <2>2, PositionFound
      <3>2. PICK j \in 1 .. Len(F[d]) : Old(j) = k
        BY <1>1, <1>8, <1>11, <3>1
      <3>3. F[d][j] = E[d][k]
        BY <1>6, <3>2
      <3> QED
        BY <1>5, <1>9, <3>1, <3>3, LookIs
    <2> QED
      BY <2>1, <2>2
  <1>12. \A x \in Inodes, y \in Names : x # d => Look(F, x, y) = Look(E, x, y)
    BY <1>3, SameLook
  <1> QED
    BY <1>5, <1>9, <1>10, <1>11, <1>12 DEF Differs, F, p

-----------------------------------------------------------------------------
(* Names and link counts *)

\* The names that lead to inode i, and how many there are.
NamesIn(E, i) == {x \in Inodes \X Names : Look(E, x[1], x[2]) = i}
Count(E, i) == Cardinality(NamesIn(E, i))

LEMMA CountType ==
    ASSUME NEW E, NEW i
    PROVE  IsFiniteSet(NamesIn(E, i)) /\ Count(E, i) \in Nat /\ (Count(E, i) = 0 <=> NamesIn(E, i) = {})
  <1>1. IsFiniteSet(Inodes \X Names)
    BY InodeFacts, FS_Product
  <1>2. NamesIn(E, i) \in SUBSET (Inodes \X Names)
    BY DEF NamesIn
  <1>3. IsFiniteSet(NamesIn(E, i))
    BY <1>1, <1>2, FS_Subset
  <1> QED
    BY <1>3, FS_CardinalityType, FS_EmptySet DEF Count

LEMMA NamesMember ==
    ASSUME NEW E, NEW i, NEW d \in Inodes, NEW n \in Names
    PROVE  <<d, n>> \in NamesIn(E, i) <=> Look(E, d, n) = i
  BY DEF NamesIn

LEMMA NamesDiffer ==
    ASSUME NEW E, NEW F, NEW d \in Inodes, NEW n \in Names, NEW i, Differs(E, F, d, n, i), NEW j
    PROVE  /\ j = i => NamesIn(F, j) = NamesIn(E, j) \union {<<d, n>>}
           /\ j # i => NamesIn(F, j) = NamesIn(E, j) \ {<<d, n>>}
  <1>1. ASSUME NEW x \in Inodes \X Names
        PROVE  x \in NamesIn(F, j) <=> IF x = <<d, n>> THEN i = j ELSE x \in NamesIn(E, j)
    <2>1. PICK a \in Inodes, b \in Names : x = <<a, b>>
      OBVIOUS
    <2>2. Look(F, a, b) = IF a = d /\ b = n THEN i ELSE Look(E, a, b)
      BY DEF Differs
    <2>3. x = <<d, n>> <=> a = d /\ b = n
      BY <2>1
    <2> QED
      BY <2>1, <2>2, <2>3, NamesMember
  <1>2. NamesIn(E, j) \subseteq Inodes \X Names /\ NamesIn(F, j) \subseteq Inodes \X Names
        /\ <<d, n>> \in Inodes \X Names
    BY DEF NamesIn
  <1>3. CASE i = j
    BY <1>1, <1>2, <1>3, Zenon
  <1>4. CASE i # j
    BY <1>1, <1>2, <1>4, Zenon
  <1> QED
    BY <1>3, <1>4

\* A new name adds one to the count of its inode.
LEMMA CountAdded ==
    ASSUME NEW E, NEW F, NEW d \in Inodes, NEW n \in Names, NEW i \in Inodes, Differs(E, F, d, n, i),
           Look(E, d, n) = 0, NEW j \in Inodes
    PROVE  Count(F, j) = IF j = i THEN Count(E, j) + 1 ELSE Count(E, j)
  <1>1. IsFiniteSet(NamesIn(E, j)) /\ <<d, n>> \notin NamesIn(E, j)
    BY CountType, NamesMember, InodeFacts
  <1>2. CASE j = i
    <2>1. NamesIn(F, j) = NamesIn(E, j) \union {<<d, n>>}
      BY <1>2, NamesDiffer
    <2>2. Cardinality(NamesIn(E, j) \union {<<d, n>>}) = Cardinality(NamesIn(E, j)) + 1
      BY <1>1, FS_AddElement
    <2> QED
      BY <1>2, <2>1, <2>2 DEF Count
  <1>3. CASE j # i
    <2>0. NamesIn(F, j) = NamesIn(E, j) \ {<<d, n>>}
      BY <1>3, NamesDiffer, SMTT(30)
    <2>1. NamesIn(F, j) = NamesIn(E, j)
      BY <1>1, <2>0, Zenon
    <2> QED
      BY <1>3, <2>1 DEF Count
  <1> QED
    BY <1>2, <1>3

\* A name that goes takes one from the count of its inode.
LEMMA CountRemoved ==
    ASSUME NEW E, NEW F, NEW d \in Inodes, NEW n \in Names, Differs(E, F, d, n, 0), NEW j \in Inodes
    PROVE  Count(F, j) = IF j = Look(E, d, n) THEN Count(E, j) - 1 ELSE Count(E, j)
  <1>1. IsFiniteSet(NamesIn(E, j)) /\ (<<d, n>> \in NamesIn(E, j) <=> Look(E, d, n) = j)
    BY CountType, NamesMember
  <1>2. NamesIn(F, j) = NamesIn(E, j) \ {<<d, n>>}
    BY NamesDiffer, InodeFacts
  <1> QED
    BY <1>1, <1>2, FS_RemoveElement DEF Count

Record == [kind : {"none", "dir", "other"}, nlink : Nat, size : 0 .. MaxSize]
Table == [Inodes -> Record]

\* What holds after each single write: names are unique, lead to inodes, and are no more
\* than the link counts say.
Weak(I, E) ==
    /\ IsEntries(E) /\ NoDoubles(E)
    /\ \A d \in Inodes, n \in Names : Look(E, d, n) # 0 => I[Look(E, d, n)].kind # "none"
    /\ \A i \in Inodes : Count(E, i) <= I[i].nlink

LEMMA NamedCounts ==
    ASSUME NEW E, IsEntries(E), NEW d \in Inodes, NEW n, Look(E, d, n) # 0
    PROVE  n \in Names /\ Look(E, d, n) \in Inodes /\ Count(E, Look(E, d, n)) # 0
  <1>1. n \in Names /\ Look(E, d, n) \in Inodes
    BY LookType
  <1>2. <<d, n>> \in NamesIn(E, Look(E, d, n))
    BY <1>1, NamesMember
  <1> QED
    BY <1>1, <1>2, CountType

LEMMA WeakPut ==
    ASSUME NEW I \in Table, NEW E, Weak(I, E), NEW i \in Inodes, NEW r, Count(E, i) <= r.nlink,
           r.kind # "none" \/ Count(E, i) = 0
    PROVE  Weak([I EXCEPT ![i] = r], E)
  <1> DEFINE J == [I EXCEPT ![i] = r]
  <1>1. J[i] = r /\ \A j \in Inodes : j # i => J[j] = I[j]
    BY DEF Table
  <1> HIDE DEF J
  <1>2. IsEntries(E) /\ NoDoubles(E)
    BY DEF Weak
  <1>3. ASSUME NEW d \in Inodes, NEW n \in Names, Look(E, d, n) # 0 PROVE J[Look(E, d, n)].kind # "none"
    <2>1. Look(E, d, n) \in Inodes /\ Count(E, Look(E, d, n)) # 0 /\ I[Look(E, d, n)].kind # "none"
      BY <1>2, <1>3, NamedCounts DEF Weak
    <2> QED
      BY <1>1, <2>1
  <1>4. \A j \in Inodes : Count(E, j) <= J[j].nlink
    BY <1>1 DEF Weak
  <1> QED
    BY <1>2, <1>3, <1>4 DEF Weak, J

LEMMA WeakAdd ==
    ASSUME NEW I \in Table, NEW E, Weak(I, E), NEW d \in Inodes, NEW n \in Names, NEW i \in Inodes,
           Look(E, d, n) = 0, I[i].kind # "none", Count(E, i) + 1 <= I[i].nlink,
           NEW F, Differs(E, F, d, n, i)
    PROVE  Weak(I, F)
  <1>1. IsEntries(E) /\ NoDoubles(E) /\ IsEntries(F) /\ NoDoubles(F)
    BY DEF Weak, Differs
  <1>2. \A x \in Inodes, y \in Names : Look(F, x, y) # 0 => I[Look(F, x, y)].kind # "none"
    BY DEF Differs, Weak
  <1>3. ASSUME NEW j \in Inodes PROVE Count(F, j) <= I[j].nlink
    <2>1. Count(F, j) = IF j = i THEN Count(E, j) + 1 ELSE Count(E, j)
      BY CountAdded
    <2> QED
      BY <2>1 DEF Weak
  <1> QED
    BY <1>1, <1>2, <1>3 DEF Weak

LEMMA WeakRemove ==
    ASSUME NEW I \in Table, NEW E, Weak(I, E), NEW d \in Inodes, NEW n \in Names,
           NEW F, Differs(E, F, d, n, 0)
    PROVE  Weak(I, F)
  <1>1. IsEntries(E) /\ NoDoubles(E) /\ IsEntries(F) /\ NoDoubles(F)
    BY DEF Weak, Differs
  <1>2. \A x \in Inodes, y \in Names : Look(F, x, y) # 0 => I[Look(F, x, y)].kind # "none"
    BY DEF Differs, Weak
  <1>3. ASSUME NEW j \in Inodes PROVE Count(F, j) <= I[j].nlink
    <2>1. Count(F, j) = IF j = Look(E, d, n) THEN Count(E, j) - 1 ELSE Count(E, j)
      BY CountRemoved
    <2>2. Count(E, j) \in Nat /\ Count(E, j) <= I[j].nlink /\ I[j].nlink \in Nat
      <3>1. I[j] \in Record
        BY DEF Table
      <3> QED
        BY <3>1, CountType DEF Weak, Record
    <2> QED
      BY <2>1, <2>2
  <1> QED
    BY <1>1, <1>2, <1>3 DEF Weak

-----------------------------------------------------------------------------
(* Paths *)

LEMMA PathType ==
    ASSUME NEW p \in Paths
    PROVE  p \in Seq(Names) /\ Len(p) \in 0 .. MaxDepth /\ p \in [1 .. Len(p) -> Names]
  <1>1. PICK n \in 0 .. MaxDepth : p \in [1 .. n -> Names]
    BY DEF Paths
  <1>2. n \in Nat
    BY RootAssumption
  <1>3. p \in Seq(Names) /\ Len(p) = n
    BY <1>1, <1>2
  <1> QED
    BY <1>1, <1>3

LEMMA EmptyPath == <<>> \in Paths
  <1>1. 0 \in 0 .. MaxDepth /\ <<>> \in [1 .. 0 -> Names]
    BY RootAssumption
  <1> QED
    BY <1>1 DEF Paths

\* A path is the path of its directory and a name.
LEMMA PathParts ==
    ASSUME NEW p \in Paths, p # <<>>
    PROVE  /\ Front(p) \in Paths /\ Last(p) \in Names
           /\ Len(p) \in Nat /\ Len(p) # 0 /\ Len(Front(p)) = Len(p) - 1
           /\ \A k \in 1 .. Len(p) - 1 : Front(p)[k] = p[k]
  <1>1. p \in Seq(Names) /\ Len(p) \in 0 .. MaxDepth /\ Len(p) # 0 /\ Len(p) \in Nat
    BY PathType, RootAssumption
  <1>2. Last(p) \in Names
    BY <1>1 DEF Last
  <1>3. /\ Front(p) \in Seq(Names) /\ Len(Front(p)) = Len(p) - 1
        /\ \A k \in 1 .. Len(p) - 1 : Front(p)[k] = p[k]
    <2>1. \A k \in 1 .. Len(p) - 1 : p[k] \in Names
      <3>1. \A k \in 1 .. Len(p) - 1 : k \in 1 .. Len(p)
        BY <1>1
      <3> QED
        BY <1>1, <3>1, ElementOfSeq
    <2>2. PICK m \in Int : m = Len(p) - 1
      BY <1>1
    <2>3. /\ SubSeq(p, 1, m) \in Seq(Names) /\ Len(SubSeq(p, 1, m)) = IF 1 <= m THEN m - 1 + 1 ELSE 0
          /\ \A k \in 1 .. m - 1 + 1 : SubSeq(p, 1, m)[k] = p[1 + k - 1]
      <3>1. 1 \in Int
        OBVIOUS
      <3>2. \A k \in 1 .. m : p[k] \in Names
        BY <2>1, <2>2
      <3> QED
        BY <3>1, <3>2, SubSeqProperties
    <2>4. m \in Nat /\ m - 1 + 1 = m /\ \A k \in 1 .. m : 1 + k - 1 = k
      BY <1>1, <2>2
    <2>5. Len(SubSeq(p, 1, m)) = m
      BY <2>3, <2>4
    <2> QED
      BY <2>2, <2>3, <2>4, <2>5 DEF Front
  <1>4. Len(p) - 1 \in 0 .. MaxDepth
    BY <1>1, RootAssumption
  <1>5. Front(p) \in [1 .. Len(p) - 1 -> Names]
    <2>1. Front(p) \in [1 .. Len(Front(p)) -> Names]
      BY <1>3, LenProperties
    <2> QED
      BY <1>3, <2>1
  <1>6. Front(p) \in Paths
    BY <1>4, <1>5 DEF Paths
  <1> QED
    BY <1>1, <1>2, <1>3, <1>6

LEMMA SameParts ==
    ASSUME NEW p \in Paths, NEW q \in Paths, p # <<>>, q # <<>>, Front(p) = Front(q), Last(p) = Last(q)
    PROVE  p = q
  <1>1. Len(p) = Len(q) /\ Len(p) \in Nat
    BY PathParts
  <1>2. ASSUME NEW k \in 1 .. Len(p) PROVE p[k] = q[k]
    <2>1. CASE k = Len(p)
      BY <1>1, <2>1 DEF Last
    <2>2. CASE k # Len(p)
      <3>1. k \in 1 .. Len(p) - 1 /\ k \in 1 .. Len(q) - 1
        BY <1>1, <2>2
      <3> QED
        BY <3>1, PathParts
    <2> QED
      BY <2>1, <2>2
  <1>3. p \in Seq(Names) /\ q \in Seq(Names)
    BY PathType
  <1> QED
    BY <1>1, <1>2, <1>3, SeqEqual

\* What holds of the empty path, and of a path when it holds of its directory, holds of all.
LEMMA PathInduction ==
    ASSUME NEW S, <<>> \in S, \A p \in Paths : p # <<>> /\ Front(p) \in S => p \in S
    PROVE  Paths \subseteq S
  <1> DEFINE Bad == {n \in Nat : \E p \in Paths : Len(p) = n /\ p \notin S}
  <1>1. SUFFICES ASSUME NEW p \in Paths, p \notin S PROVE FALSE
    OBVIOUS
  <1>2. Len(p) \in Bad /\ Bad \in SUBSET Nat
    BY <1>1, PathType
  <1> HIDE DEF Bad
  <1>3. PICK n \in Bad : \A m \in Bad : n <= m
    <2>1. Bad # {}
      BY <1>2
    <2> QED
      BY <1>2, <2>1, SmallestExists
  <1>4. PICK q \in Paths : Len(q) = n /\ q \notin S
    BY <1>3 DEF Bad
  <1>5. q # <<>> /\ Front(q) \in Paths /\ Len(Front(q)) = n - 1 /\ n - 1 \in Nat /\ n \in Nat
    BY <1>4, PathParts
  <1>6. Front(q) \notin S
    BY <1>4, <1>5
  <1>7. n - 1 \in Bad
    BY <1>5, <1>6 DEF Bad
  <1> QED
    BY <1>3, <1>5, <1>7

\* From directory x by name n; 0 leads nowhere.
Onward(E, x, n) == IF x = 0 THEN 0 ELSE Look(E, x, n)

\* t[k] is where the first k names of p lead.
Trace(E, p, t) == t[0] = Root /\ \A k \in 1 .. Len(p) : t[k] = Onward(E, t[k - 1], p[k])

\* The inode that p leads to, 0 if there is none.
Walk(E, p) == (CHOOSE t : Trace(E, p, t))[Len(p)]

LEMMA OnwardType ==
    ASSUME NEW E, IsEntries(E), NEW x \in Inodes \union {0}, NEW n
    PROVE  Onward(E, x, n) \in Inodes \union {0}
  BY LookType DEF Onward

LEMMA TraceExists ==
    ASSUME NEW E, IsEntries(E), NEW p \in Paths
    PROVE  \E t \in [0 .. Len(p) -> Inodes \union {0}] : Trace(E, p, t)
  <1> DEFINE S == Inodes \union {0}
             h == [x \in (1 .. Len(p)) \X S |-> Onward(E, x[2], p[x[1]])]
  <1>1. Len(p) \in Nat /\ Root \in S
    BY PathType, InodeFacts, RootAssumption
  <1>2. IsStep(h, Len(p), S)
    BY OnwardType DEF IsStep
  <1>3. PICK t : Recursion(t, Len(p), S, Root, h)
    <2> HIDE DEF S, h
    <2> QED
      BY <1>1, <1>2, RecursionExists
  <1>4. t \in [0 .. Len(p) -> S] /\ t[0] = Root /\ \A k \in 1 .. Len(p) : t[k] = h[<<k, t[k - 1]>>]
    BY <1>3 DEF Recursion
  <1>5. ASSUME NEW k \in 1 .. Len(p) PROVE t[k] = Onward(E, t[k - 1], p[k])
    <2>1. k - 1 \in 0 .. Len(p) /\ t[k - 1] \in S
      BY <1>1, <1>4
    <2> QED
      BY <1>4, <2>1
  <1> QED
    BY <1>4, <1>5 DEF Trace

\* Traces of paths that agree on their first m names agree on those.
LEMMA TracesAgree ==
    ASSUME NEW E, NEW p, NEW q, NEW t, NEW u, Trace(E, p, t), Trace(E, q, u), NEW m \in Nat,
           Len(p) \in Nat, Len(q) \in Nat, m <= Len(p), m <= Len(q), \A k \in 1 .. m : p[k] = q[k]
    PROVE  t[m] = u[m]
  <1> DEFINE Bad == {k \in 0 .. m : t[k] # u[k]}
  <1>1. SUFFICES ASSUME Bad # {} PROVE FALSE
    OBVIOUS
  <1>2. PICK k \in Bad : \A j \in Bad : k <= j
    <2>1. Bad \in SUBSET Nat
      OBVIOUS
    <2> HIDE DEF Bad
    <2> QED
      BY <1>1, <2>1, SmallestExists
  <1>3. k # 0
    BY <1>2 DEF Trace
  <1>4. k \in 1 .. m /\ k \in 1 .. Len(p) /\ k \in 1 .. Len(q) /\ k - 1 \in 0 .. m /\ k - 1 \notin Bad
    BY <1>2, <1>3
  <1>5. t[k - 1] = u[k - 1] /\ p[k] = q[k]
    BY <1>4
  <1>6. t[k] = u[k]
    BY <1>4, <1>5 DEF Trace
  <1> QED
    BY <1>2, <1>6

LEMMA WalkIsTrace ==
    ASSUME NEW E, IsEntries(E), NEW p \in Paths, NEW t, Trace(E, p, t)
    PROVE  Walk(E, p) = t[Len(p)] /\ Walk(E, p) \in Inodes \union {0}
  <1>1. Len(p) \in Nat
    BY PathType, RootAssumption
  <1>2. PICK u \in [0 .. Len(p) -> Inodes \union {0}] : Trace(E, p, u)
    BY TraceExists
  <1>3. Trace(E, p, CHOOSE v : Trace(E, p, v))
    BY <1>2
  <1>4. Walk(E, p) = t[Len(p)] /\ Walk(E, p) = u[Len(p)]
    BY <1>1, <1>2, <1>3, TracesAgree DEF Walk
  <1>5. u[Len(p)] \in Inodes \union {0}
    BY <1>1, <1>2
  <1> QED
    BY <1>4, <1>5

\* It is where Resolved arrives.
LEMMA ResolvedIsWalk ==
    ASSUME NEW s, IsEntries(s.entries), NEW p \in Paths
    PROVE  Resolved(s, p) = Walk(s.entries, p)
  <1> DEFINE E == s.entries
             Eqn(R) == R = [k \in 0 .. Len(p) |->
                 IF k = 0 THEN Root ELSE IF R[k - 1] = 0 THEN 0 ELSE lookupDirEntry(s, R[k - 1], p[k])]
             R0 == CHOOSE R : Eqn(R)
  <1>1. Len(p) \in Nat
    BY PathType, RootAssumption
  <1>2. \A d, n : lookupDirEntry(s, d, n) = Look(E, d, n)
    BY FindIsPosition
  <1> HIDE DEF E
  <1>3. PICK u \in [0 .. Len(p) -> Inodes \union {0}] : Trace(E, p, u)
    BY TraceExists DEF E
  <1>4. Eqn(u)
    <2>1. \A k \in 0 .. Len(p) :
             u[k] = IF k = 0 THEN Root ELSE IF u[k - 1] = 0 THEN 0 ELSE lookupDirEntry(s, u[k - 1], p[k])
      BY <1>1, <1>2, <1>3 DEF Trace, Onward
    <2> QED
      BY <2>1
  <1>5. Eqn(R0)
    <2> HIDE DEF Eqn
    <2> QED
      BY <1>4
  <1>6. Resolved(s, p) = R0[Len(p)]
    BY DEF Resolved
  <1> HIDE DEF R0
  <1>7. Trace(E, p, R0)
    <2>1. R0[0] = Root
      BY <1>1, <1>5
    <2>2. \A k \in 1 .. Len(p) : R0[k] = Onward(E, R0[k - 1], p[k])
      BY <1>1, <1>2, <1>5 DEF Onward
    <2> QED
      BY <2>1, <2>2 DEF Trace
  <1> QED
    BY <1>6, <1>7, WalkIsTrace DEF E

LEMMA WalkEmpty ==
    ASSUME NEW E, IsEntries(E)
    PROVE  Walk(E, <<>>) = Root
  <1>1. PICK t : Trace(E, <<>>, t)
    BY TraceExists, EmptyPath
  <1> QED
    BY <1>1, EmptyPath, WalkIsTrace DEF Trace

LEMMA WalkType ==
    ASSUME NEW E, IsEntries(E), NEW p \in Paths
    PROVE  Walk(E, p) \in Inodes \union {0}
  BY TraceExists, WalkIsTrace

LEMMA WalkLast ==
    ASSUME NEW E, IsEntries(E), NEW p \in Paths, p # <<>>
    PROVE  Walk(E, p) = IF Walk(E, Front(p)) = 0 THEN 0 ELSE Look(E, Walk(E, Front(p)), Last(p))
  <1>1. PICK t : Trace(E, p, t)
    BY TraceExists
  <1>2. Front(p) \in Paths /\ Len(p) \in Nat /\ Len(p) # 0 /\ Len(Front(p)) = Len(p) - 1
        /\ \A k \in 1 .. Len(p) - 1 : Front(p)[k] = p[k]
    BY PathParts
  <1>3. PICK u : Trace(E, Front(p), u)
    BY <1>2, TraceExists
  <1>4. t[Len(p) - 1] = u[Len(p) - 1]
    <2>1. Len(p) - 1 \in Nat /\ Len(p) - 1 <= Len(p)
      BY <1>2
    <2> QED
      BY <1>1, <1>2, <1>3, <2>1, TracesAgree
  <1>5. Walk(E, p) = t[Len(p)] /\ Walk(E, Front(p)) = u[Len(p) - 1]
    BY <1>1, <1>2, <1>3, WalkIsTrace
  <1>6. t[Len(p)] = Onward(E, t[Len(p) - 1], p[Len(p)])
    BY <1>1, <1>2 DEF Trace
  <1> QED
    BY <1>4, <1>5, <1>6 DEF Onward, Last

-----------------------------------------------------------------------------
(* What a change of some names does to paths *)

\* Entries E and F differ in the names X only, and none of those leads to a directory
\* with names.
LeafChange(E, F, X) ==
    /\ IsEntries(E) /\ IsEntries(F)
    /\ \A x \in Inodes, y \in Names : <<x, y>> \notin X => Look(F, x, y) = Look(E, x, y)
    /\ \A x \in Inodes, y \in Names : <<x, y>> \in X =>
            \A z \in Names : Look(E, x, y) # 0 => Look(E, Look(E, x, y), z) = 0

\* A path leads where it did unless it ends with one of those.
LEMMA WalkChange ==
    ASSUME NEW E, NEW F, NEW X, LeafChange(E, F, X), NEW p \in Paths, Walk(E, p) # 0
    PROVE  Walk(F, p) = Walk(E, p) \/ (p # <<>> /\ <<Walk(E, Front(p)), Last(p)>> \in X)
  <1> DEFINE Good(q) == Walk(E, q) # 0 =>
                 (Walk(F, q) = Walk(E, q) \/ (q # <<>> /\ <<Walk(E, Front(q)), Last(q)>> \in X))
             S == {q \in Paths : Good(q)}
  <1>0. IsEntries(E) /\ IsEntries(F)
    BY DEF LeafChange
  <1>1. <<>> \in S
    BY <1>0, WalkEmpty, EmptyPath
  <1>2. ASSUME NEW q \in Paths, q # <<>>, Front(q) \in S, Walk(E, q) # 0,
               <<Walk(E, Front(q)), Last(q)>> \notin X
        PROVE  Walk(F, q) = Walk(E, q)
    <2> DEFINE f == Front(q)
               x == Walk(E, f)
               n == Last(q)
    <2>1. f \in Paths /\ n \in Names
      BY <1>2, PathParts
    <2>2. Walk(E, q) = IF x = 0 THEN 0 ELSE Look(E, x, n)
      BY <1>0, <1>2, WalkLast
    <2>3. x # 0 /\ x \in Inodes
      BY <1>0, <1>2, <2>1, <2>2, WalkType
    <2>4. Walk(F, f) = x
      <3>1. SUFFICES ASSUME f # <<>>, <<Walk(E, Front(f)), Last(f)>> \in X PROVE FALSE
        BY <1>2, <2>3
      <3>2. Front(f) \in Paths /\ Last(f) \in Names
        BY <2>1, <3>1, PathParts
      <3>3. x = IF Walk(E, Front(f)) = 0 THEN 0 ELSE Look(E, Walk(E, Front(f)), Last(f))
        BY <1>0, <2>1, <3>1, WalkLast
      <3>4. Walk(E, Front(f)) \in Inodes
        BY <1>0, <2>3, <3>2, <3>3, WalkType
      <3>5. Look(E, x, n) = 0
        BY <2>1, <2>3, <3>1, <3>2, <3>3, <3>4 DEF LeafChange
      <3> QED
        BY <1>2, <2>2, <3>5
    <2>5. Walk(F, q) = IF Walk(F, f) = 0 THEN 0 ELSE Look(F, Walk(F, f), n)
      BY <1>0, <1>2, WalkLast
    <2>6. Look(F, x, n) = Look(E, x, n)
      BY <1>2, <2>1, <2>3 DEF LeafChange
    <2> QED
      BY <2>2, <2>3, <2>4, <2>5, <2>6
  <1>3. \A q \in Paths : q # <<>> /\ Front(q) \in S => q \in S
    BY <1>2
  <1>4. Paths \subseteq S
    <2> HIDE DEF S
    <2> QED
      BY <1>1, <1>3, PathInduction
  <1> QED
    BY <1>4

\* What holds between operations while no write has failed: only directories have names,
\* each but the root has one name, and link counts are exact.
Strong(I, E) ==
    /\ \A d \in Inodes, n \in Names : Look(E, d, n) # 0 => I[d].kind = "dir" /\ Look(E, d, n) # Root
    /\ \A i \in Inodes : I[i].kind = "dir" => I[i].nlink <= 1
    /\ I[Root].kind = "dir"
    /\ \A i \in Inodes : Count(E, i) \in {0, I[i].nlink}

\* A directory has at most one name.
LEMMA OneName ==
    ASSUME NEW I \in Table, NEW E, Weak(I, E), Strong(I, E), NEW i \in Inodes, I[i].kind = "dir",
           NEW x \in NamesIn(E, i), NEW y \in NamesIn(E, i)
    PROVE  x = y
  <1>1. Count(E, i) <= 1
    <2>1. Count(E, i) <= I[i].nlink /\ I[i].nlink <= 1 /\ I[i] \in Record
      BY DEF Weak, Strong, Table
    <2>2. Count(E, i) \in Nat /\ I[i].nlink \in Nat
      BY <2>1, CountType DEF Record
    <2> QED
      BY <2>1, <2>2
  <1>2. Count(E, i) = 1 /\ IsFiniteSet(NamesIn(E, i))
    BY <1>1, CountType
  <1>3. PICK z : NamesIn(E, i) = {z}
    BY <1>2, FS_Singleton DEF Count
  <1> QED
    BY <1>3

\* There is one path to a directory.
LEMMA UniquePath ==
    ASSUME NEW I \in Table, NEW E, Weak(I, E), Strong(I, E)
    PROVE  \A p, q \in Paths : Walk(E, p) = Walk(E, q) /\ Walk(E, p) # 0 /\ I[Walk(E, p)].kind = "dir" => p = q
  <1> DEFINE S == {p \in Paths : \A q \in Paths :
                 Walk(E, p) = Walk(E, q) /\ Walk(E, p) # 0 /\ I[Walk(E, p)].kind = "dir" => p = q}
  <1>0. IsEntries(E)
    BY DEF Weak
  <1>1. ASSUME NEW q \in Paths, q # <<>>, Walk(E, q) # 0
        PROVE  /\ Front(q) \in Paths /\ Last(q) \in Names /\ Walk(E, q) \in Inodes
               /\ Walk(E, Front(q)) \in Inodes /\ Walk(E, Front(q)) # 0 /\ I[Walk(E, Front(q))].kind = "dir"
               /\ <<Walk(E, Front(q)), Last(q)>> \in NamesIn(E, Walk(E, q))
               /\ Walk(E, q) # Root
    <2>1. Front(q) \in Paths /\ Last(q) \in Names /\ Walk(E, q) \in Inodes
      BY <1>0, <1>1, PathParts, WalkType
    <2>2. Walk(E, q) = IF Walk(E, Front(q)) = 0 THEN 0 ELSE Look(E, Walk(E, Front(q)), Last(q))
      BY <1>0, <1>1, WalkLast
    <2>3. Walk(E, Front(q)) \in Inodes /\ Walk(E, Front(q)) # 0
      BY <1>0, <1>1, <2>1, <2>2, WalkType
    <2>4. I[Walk(E, Front(q))].kind = "dir" /\ Walk(E, q) # Root
      BY <1>1, <2>1, <2>2, <2>3 DEF Strong
    <2> QED
      BY <2>1, <2>2, <2>3, <2>4, NamesMember
  <1>2. <<>> \in S
    BY <1>0, <1>1, WalkEmpty, EmptyPath
  <1>3. ASSUME NEW p \in Paths, p # <<>>, Front(p) \in S, NEW q \in Paths,
               Walk(E, p) = Walk(E, q), Walk(E, p) # 0, I[Walk(E, p)].kind = "dir"
        PROVE  p = q
    <2>1. q # <<>>
      BY <1>0, <1>1, <1>3, WalkEmpty
    <2>2. <<Walk(E, Front(p)), Last(p)>> = <<Walk(E, Front(q)), Last(q)>>
      <3>1. /\ <<Walk(E, Front(p)), Last(p)>> \in NamesIn(E, Walk(E, p))
            /\ <<Walk(E, Front(q)), Last(q)>> \in NamesIn(E, Walk(E, p)) /\ Walk(E, p) \in Inodes
        BY <1>1, <1>3, <2>1
      <3> QED
        BY <1>3, <3>1, OneName
    <2>3. Front(p) = Front(q)
      BY <1>1, <1>3, <2>1, <2>2
    <2>4. Last(p) = Last(q)
      BY <2>2
    <2> QED
      BY <1>3, <2>1, <2>3, <2>4, SameParts
  <1>4. \A p \in Paths : p # <<>> /\ Front(p) \in S => p \in S
    BY <1>3
  <1>5. Paths \subseteq S
    <2> HIDE DEF S
    <2> QED
      BY <1>2, <1>4, PathInduction
  <1> QED
    BY <1>5

-----------------------------------------------------------------------------
(* Results, and single writes *)

Word == Words \union {Zero, Junk}
Extent == [at : DataBlocks \union {0}, zip : BOOLEAN, words : Seq(Word)]
ExtentMap == [Inodes -> Seq(Extent)]
IsCache(C) == DOMAIN C \subseteq Paths /\ \A p \in DOMAIN C : C[p] \in Inodes

Fields == {"inode", "entries", "extents", "taken", "cache", "ok", "torn", "bad", "ino"}

Typed(s) ==
    /\ DOMAIN s = Fields
    /\ s.inode \in Table /\ IsEntries(s.entries) /\ s.extents \in ExtentMap
    /\ s.taken \subseteq DataBlocks /\ IsCache(s.cache)
    /\ s.ok \in BOOLEAN /\ s.torn \in BOOLEAN /\ s.bad \in Nat /\ s.ino \in Inodes \union {0}

StateOK ==
    /\ inode \in Table /\ IsEntries(entries) /\ extents \in ExtentMap
    /\ taken \subseteq DataBlocks /\ IsCache(pathCache) /\ DOMAIN listed \subseteq Names

LEMMA StartTyped ==
    ASSUME StateOK, NEW bad \in Nat
    PROVE  /\ Typed(Start(bad)) /\ Start(bad).ok = TRUE /\ Start(bad).torn = FALSE
           /\ Start(bad).inode = inode /\ Start(bad).entries = entries /\ Start(bad).cache = pathCache
           /\ Start(bad).extents = extents /\ Start(bad).taken = taken
  <1>1. DOMAIN Start(bad) = Fields
    BY DEF Start, Fields
  <1>2. /\ Start(bad).ok = TRUE /\ Start(bad).torn = FALSE
        /\ Start(bad).inode = inode /\ Start(bad).entries = entries /\ Start(bad).cache = pathCache
        /\ Start(bad).extents = extents /\ Start(bad).taken = taken /\ Start(bad).bad = bad
        /\ Start(bad).ino = 0
    BY DEF Start
  <1> QED
    BY <1>1, <1>2 DEF Typed, StateOK

\* t is s after one write that makes I the inodes and E the entries, or after its failure.
Step(s, t, I, E) ==
    /\ Typed(t) /\ t.cache = s.cache /\ t.ino = s.ino
    /\ \/ t.torn = TRUE /\ t.ok = FALSE /\ t.inode = s.inode /\ t.entries = s.entries
       \/ t.torn = s.torn /\ t.ok = s.ok /\ t.inode = I /\ t.entries = E

\* t is s after writes that concern neither and whose errors are ignored.
Quiet(s, t) ==
    /\ Typed(t) /\ t.cache = s.cache /\ t.ino = s.ino /\ t.inode = s.inode /\ t.entries = s.entries
    /\ t.ok = TRUE /\ (t.torn = TRUE \/ t.torn = s.torn)

LEMMA TornTyped ==
    ASSUME NEW s, Typed(s)
    PROVE  /\ Typed(Torn(s)) /\ Torn(s).ok = FALSE /\ Torn(s).torn = TRUE /\ Torn(s).inode = s.inode
           /\ Torn(s).entries = s.entries /\ Torn(s).cache = s.cache /\ Torn(s).ino = s.ino
           /\ Torn(s).extents = s.extents /\ Torn(s).taken = s.taken
  BY DEF Typed, Torn, Fields

LEMMA TreeWriteDoes ==
    ASSUME NEW s, Typed(s), NEW new, Typed(new), new.cache = s.cache, new.ino = s.ino,
           new.ok = s.ok, new.torn = s.torn
    PROVE  Step(s, TreeWrite(s, new), new.inode, new.entries)
  <1> DEFINE t == [new EXCEPT !.bad = IF s.bad = 0 THEN 0 ELSE s.bad - 1]
  <1>1. CASE s.bad = 1
    BY <1>1, TornTyped DEF TreeWrite, Step
  <1>2. CASE s.bad # 1
    <2>1. TreeWrite(s, new) = t
      BY <1>2 DEF TreeWrite
    <2>2. (IF s.bad = 0 THEN 0 ELSE s.bad - 1) \in Nat
      BY DEF Typed
    <2>3. Typed(t) /\ t.inode = new.inode /\ t.entries = new.entries /\ t.cache = new.cache
          /\ t.ino = new.ino /\ t.ok = new.ok /\ t.torn = new.torn
      BY <2>2 DEF Typed, Fields
    <2> HIDE DEF t
    <2> QED
      BY <2>1, <2>3 DEF Step
  <1> QED
    BY <1>1, <1>2

LEMMA PutInodeDoes ==
    ASSUME NEW s, Typed(s), NEW i \in Inodes, NEW r \in Record
    PROVE  Step(s, PutInode(s, i, r), [s.inode EXCEPT ![i] = r], s.entries)
  <1> DEFINE new == [s EXCEPT !.inode[i] = r]
  <1>1. Typed(new) /\ new.inode = [s.inode EXCEPT ![i] = r] /\ new.entries = s.entries
        /\ new.cache = s.cache /\ new.ino = s.ino /\ new.ok = s.ok /\ new.torn = s.torn
    BY DEF Typed, Fields, Table
  <1> HIDE DEF new
  <1>2. Step(s, TreeWrite(s, new), new.inode, new.entries)
    BY <1>1, TreeWriteDoes
  <1> QED
    BY <1>1, <1>2 DEF PutInode, new

LEMMA EntriesWriteDoes ==
    ASSUME NEW s, Typed(s), NEW d \in Inodes, NEW es \in Seq(Entry)
    PROVE  Step(s, TreeWrite(s, [s EXCEPT !.entries[d] = es]), s.inode, [s.entries EXCEPT ![d] = es])
  <1> DEFINE new == [s EXCEPT !.entries[d] = es]
  <1>1. Typed(new) /\ new.entries = [s.entries EXCEPT ![d] = es] /\ new.inode = s.inode
        /\ new.cache = s.cache /\ new.ino = s.ino /\ new.ok = s.ok /\ new.torn = s.torn
    BY DEF Typed, Fields, IsEntries
  <1> HIDE DEF new
  <1>2. Step(s, TreeWrite(s, new), new.inode, new.entries)
    BY <1>1, TreeWriteDoes
  <1> QED
    BY <1>1, <1>2 DEF new

LEMMA AddEntryDoes ==
    ASSUME NEW s, Typed(s), NoDoubles(s.entries), NEW d \in Inodes, NEW n \in Names, NEW i \in Inodes,
           Look(s.entries, d, n) = 0
    PROVE  \E F : Differs(s.entries, F, d, n, i) /\ Step(s, AddEntry(s, d, n, i), s.inode, F)
  <1> DEFINE e == [name |-> n, ino |-> i]
             es == Append(s.entries[d], e)
  <1>1. e \in Entry
    BY DEF Entry
  <1>2. s.entries[d] \in Seq(Entry) /\ IsEntries(s.entries)
    BY DEF Typed, IsEntries
  <1>3. es \in Seq(Entry)
    BY <1>1, <1>2, AppendProperties
  <1>4. Differs(s.entries, [s.entries EXCEPT ![d] = es], d, n, i)
    BY <1>2, EntryAdded
  <1> HIDE DEF e
  <1>5. AddEntry(s, d, n, i) = TreeWrite(s, [s EXCEPT !.entries[d] = es])
    BY DEF AddEntry, e
  <1> HIDE DEF es
  <1>6. Step(s, AddEntry(s, d, n, i), s.inode, [s.entries EXCEPT ![d] = es])
    BY <1>3, <1>5, EntriesWriteDoes
  <1> QED
    BY <1>4, <1>6

LEMMA DeleteEntryDoes ==
    ASSUME NEW s, Typed(s), NoDoubles(s.entries), NEW d \in Inodes, NEW n \in Names,
           Look(s.entries, d, n) # 0
    PROVE  \E F : Differs(s.entries, F, d, n, 0) /\ Step(s, DeleteEntry(s, d, Find(s, d, n)), s.inode, F)
  <1> DEFINE k == Position(s.entries, d, n)
             es == RemoveAt(s.entries[d], k)
  <1>1. s.entries[d] \in Seq(Entry) /\ IsEntries(s.entries)
    BY DEF Typed, IsEntries
  <1>2. k \in 1 .. Len(s.entries[d]) /\ k # 0 /\ Find(s, d, n) = k
    BY <1>1, PositionFound, FindIsPosition
  <1>3. es \in Seq(Entry)
    BY <1>1, <1>2, RemoveAtIs
  <1>4. Differs(s.entries, [s.entries EXCEPT ![d] = es], d, n, 0)
    BY <1>1, EntryRemoved
  <1>5. DeleteEntry(s, d, Find(s, d, n)) = TreeWrite(s, [s EXCEPT !.entries[d] = es])
    BY <1>2 DEF DeleteEntry
  <1> HIDE DEF es
  <1>6. Step(s, DeleteEntry(s, d, Find(s, d, n)), s.inode, [s.entries EXCEPT ![d] = es])
    BY <1>3, <1>5, EntriesWriteDoes
  <1> QED
    BY <1>4, <1>6

LEMMA ExtentsWriteDoes ==
    ASSUME NEW s, Typed(s), NEW i \in Inodes, NEW xs \in Seq(Extent)
    PROVE  Step(s, TreeWrite(s, [s EXCEPT !.extents[i] = xs]), s.inode, s.entries)
  <1> DEFINE new == [s EXCEPT !.extents[i] = xs]
  <1>1. Typed(new) /\ new.entries = s.entries /\ new.inode = s.inode
        /\ new.cache = s.cache /\ new.ino = s.ino /\ new.ok = s.ok /\ new.torn = s.torn
    BY DEF Typed, Fields, ExtentMap
  <1> HIDE DEF new
  <1>2. Step(s, TreeWrite(s, new), new.inode, new.entries)
    BY <1>1, TreeWriteDoes
  <1> QED
    BY <1>1, <1>2 DEF new

LEMMA FailTyped ==
    ASSUME NEW s, Typed(s)
    PROVE  /\ Typed(Fail(s)) /\ Fail(s).ok = FALSE /\ Fail(s).torn = s.torn /\ Fail(s).inode = s.inode
           /\ Fail(s).entries = s.entries /\ Fail(s).cache = s.cache /\ Fail(s).ino = s.ino
  BY DEF Typed, Fail, Fields

LEMMA UncheckedTyped ==
    ASSUME NEW s, Typed(s)
    PROVE  /\ Typed(Unchecked(s)) /\ Unchecked(s).ok = TRUE /\ Unchecked(s).torn = s.torn
           /\ Unchecked(s).inode = s.inode /\ Unchecked(s).entries = s.entries
           /\ Unchecked(s).cache = s.cache /\ Unchecked(s).ino = s.ino
  BY DEF Typed, Unchecked, Fields

LEMMA FirstOnly ==
    ASSUME NEW S, NEW xs \in Seq(S), Len(xs) >= 1, NEW m \in 0 .. Len(xs)
    PROVE  SubSeq(xs, 1, m) \in Seq(S)
  <1>1. \A k \in 1 .. m : xs[k] \in S
    <2>1. \A k \in 1 .. m : k \in 1 .. Len(xs)
      OBVIOUS
    <2> QED
      BY <2>1, ElementOfSeq
  <1>2. m \in Int /\ 1 \in Int
    OBVIOUS
  <1> QED
    BY <1>1, <1>2, SubSeqProperties

LEMMA DeleteExtentsDoes ==
    ASSUME NEW s, Typed(s), s.ok = TRUE, NEW i \in Inodes
    PROVE  Quiet(s, DeleteExtents(s, i))
  <1> DEFINE n == Len(s.extents[i])
             a == [s EXCEPT !.extents[i] = SubSeq(s.extents[i], 1, 1)]
             b == [s EXCEPT !.extents[i] = <<>>, !.bad = IF @ = 0 THEN 0 ELSE @ - n]
  <1>1. s.extents[i] \in Seq(Extent) /\ n \in Nat
    BY DEF Typed, ExtentMap
  <1>2. CASE s.bad \in 1 .. n
    <2>0. n >= 1 /\ 1 \in 0 .. n
      BY <1>1, <1>2
    <2>1. SubSeq(s.extents[i], 1, 1) \in Seq(Extent)
      BY <1>1, <2>0, FirstOnly
    <2>2. Typed(a) /\ a.entries = s.entries /\ a.inode = s.inode /\ a.cache = s.cache /\ a.ino = s.ino
      BY <2>1 DEF Typed, Fields, ExtentMap
    <2>3. DeleteExtents(s, i) = Unchecked(Torn(a))
      BY <1>2 DEF DeleteExtents
    <2> HIDE DEF a
    <2>4. Typed(Torn(a)) /\ Torn(a).torn = TRUE /\ Torn(a).inode = s.inode /\ Torn(a).entries = s.entries
          /\ Torn(a).cache = s.cache /\ Torn(a).ino = s.ino
      BY <2>2, TornTyped
    <2> QED
      BY <2>3, <2>4, UncheckedTyped DEF Quiet
  <1>3. CASE ~(s.bad \in 1 .. n)
    <2>1. (IF s.bad = 0 THEN 0 ELSE s.bad - n) \in Nat
      BY <1>1, <1>3 DEF Typed
    <2>2. Typed(b) /\ b.entries = s.entries /\ b.inode = s.inode /\ b.cache = s.cache /\ b.ino = s.ino
          /\ b.ok = s.ok /\ b.torn = s.torn
      BY <2>1 DEF Typed, Fields, ExtentMap
    <2>3. DeleteExtents(s, i) = b
      BY <1>3 DEF DeleteExtents
    <2> HIDE DEF b
    <2> QED
      BY <2>2, <2>3 DEF Quiet
  <1> QED
    BY <1>2, <1>3

-----------------------------------------------------------------------------
(* The cache *)

\* What resolvePath finds with cache C, 0 if nothing, and the cache it leaves.
Found(E, C, p) == IF p = <<>> THEN Root ELSE IF p \in DOMAIN C THEN C[p] ELSE Walk(E, p)
Cached(E, C, p) == IF p = <<>> \/ p \in DOMAIN C \/ Walk(E, p) = 0 THEN C ELSE Store(C, p, Walk(E, p))

\* Every cached path leads where its entries lead.
Current(E, C) == \A p \in DOMAIN C : Walk(E, p) = C[p]

LEMMA FoundType ==
    ASSUME NEW E, IsEntries(E), NEW C, IsCache(C), NEW p \in Paths
    PROVE  Found(E, C, p) \in Inodes \union {0}
  BY WalkType, InodeFacts DEF Found, IsCache

LEMMA CachedType ==
    ASSUME NEW E, IsEntries(E), NEW C, IsCache(C), NEW p \in Paths
    PROVE  /\ IsCache(Cached(E, C, p))
           /\ Current(E, C) => Current(E, Cached(E, C, p)) /\ Found(E, C, p) = Walk(E, p)
           /\ \A q \in Paths : Found(E, Cached(E, C, p), q) = Found(E, C, q)
  <1> DEFINE D == Store(C, p, Walk(E, p))
  <1>1. DOMAIN D = DOMAIN C \union {p} /\ \A q \in DOMAIN D : D[q] = IF q = p THEN Walk(E, p) ELSE C[q]
    BY DEF Store
  <1>2. Walk(E, p) \in Inodes \union {0}
    BY WalkType
  <1> HIDE DEF D
  <1>3. IsCache(Cached(E, C, p))
    BY <1>1, <1>2 DEF IsCache, Cached, D
  <1>4. ASSUME Current(E, C) PROVE Current(E, Cached(E, C, p)) /\ Found(E, C, p) = Walk(E, p)
    BY <1>1, <1>4, WalkEmpty DEF Current, Cached, Found, D
  <1>5. ASSUME NEW q \in Paths PROVE Found(E, Cached(E, C, p), q) = Found(E, C, q)
    BY <1>1 DEF Found, Cached, D
  <1> QED
    BY <1>3, <1>4, <1>5

\* w is s after resolvePath(p).
Resolves(s, w, p) ==
    /\ Typed(w) /\ w.inode = s.inode /\ w.entries = s.entries /\ w.extents = s.extents /\ w.taken = s.taken
    /\ w.torn = s.torn /\ w.bad = s.bad /\ w.cache = Cached(s.entries, s.cache, p)
    /\ w.ok = (Found(s.entries, s.cache, p) # 0)
    /\ Found(s.entries, s.cache, p) # 0 => w.ino = Found(s.entries, s.cache, p) /\ w.ino \in Inodes

LEMMA ResolveDoes ==
    ASSUME NEW s, Typed(s), s.ok = TRUE, NEW p \in Paths
    PROVE  Resolves(s, resolvePath(s, p), p)
  <1> DEFINE E == s.entries
             C == s.cache
             w == resolvePath(s, p)
  <1>1. IsEntries(E) /\ IsCache(C)
    BY DEF Typed
  <1>2. Resolved(s, p) = Walk(E, p) /\ Walk(E, p) \in Inodes \union {0}
    BY <1>1, ResolvedIsWalk, WalkType
  <1>3. IsCache(Cached(E, C, p)) /\ Found(E, C, p) \in Inodes \union {0}
    BY <1>1, CachedType, FoundType
  <1>4. w = IF p = <<>> THEN [s EXCEPT !.ino = Root]
            ELSE IF p \in DOMAIN C THEN [s EXCEPT !.ino = C[p]]
            ELSE IF Walk(E, p) = 0 THEN Fail(s)
            ELSE [s EXCEPT !.ino = Walk(E, p), !.cache = Store(C, p, Walk(E, p))]
    BY <1>2 DEF resolvePath
  <1> HIDE DEF w
  <1>5. CASE p = <<>> \/ p \in DOMAIN C
    <2>1. w = [s EXCEPT !.ino = Found(E, C, p)] /\ Cached(E, C, p) = C /\ Found(E, C, p) \in Inodes
      BY <1>1, <1>4, <1>5, InodeFacts DEF Found, Cached, IsCache
    <2>2. Found(E, C, p) # 0
      BY <2>1, InodeFacts
    <2> HIDE DEF E, C
    <2>3. Typed(w) /\ w.inode = s.inode /\ w.entries = s.entries /\ w.extents = s.extents /\ w.taken = s.taken
          /\ w.torn = s.torn /\ w.bad = s.bad /\ w.cache = s.cache /\ w.ok = s.ok /\ w.ino = Found(E, C, p)
      BY <2>1 DEF Typed, Fields
    <2> QED
      BY <2>1, <2>2, <2>3 DEF Resolves, w, E, C
  <1>6. CASE p # <<>> /\ p \notin DOMAIN C /\ Walk(E, p) = 0
    <2>1. w = Fail(s) /\ Cached(E, C, p) = C /\ Found(E, C, p) = 0
      BY <1>4, <1>6 DEF Found, Cached
    <2> HIDE DEF E, C
    <2>2. Typed(w) /\ w.inode = s.inode /\ w.entries = s.entries /\ w.extents = s.extents /\ w.taken = s.taken
          /\ w.torn = s.torn /\ w.bad = s.bad /\ w.cache = s.cache /\ w.ok = FALSE
      BY <2>1 DEF Typed, Fields, Fail
    <2> QED
      BY <2>1, <2>2 DEF Resolves, w, E, C
  <1>7. CASE p # <<>> /\ p \notin DOMAIN C /\ Walk(E, p) # 0
    <2>1. w = [s EXCEPT !.ino = Found(E, C, p), !.cache = Cached(E, C, p)] /\ Found(E, C, p) # 0
      BY <1>4, <1>7 DEF Found, Cached
    <2> HIDE DEF E, C
    <2>2. Typed(w) /\ w.inode = s.inode /\ w.entries = s.entries /\ w.extents = s.extents /\ w.taken = s.taken
          /\ w.torn = s.torn /\ w.bad = s.bad /\ w.cache = Cached(E, C, p) /\ w.ok = s.ok
          /\ w.ino = Found(E, C, p)
      BY <1>3, <2>1 DEF Typed, Fields
    <2> QED
      BY <1>3, <2>1, <2>2 DEF Resolves, w, E, C
  <1> QED
    BY <1>5, <1>6, <1>7

\* Cache D is C but for some paths that are gone.
Within(D, C) == IsCache(D) /\ DOMAIN D \subseteq DOMAIN C /\ \A p \in DOMAIN D : D[p] = C[p]

\* t is s after Forget(P).
Forgets(s, t, P) ==
    /\ Typed(t) /\ t.inode = s.inode /\ t.entries = s.entries /\ t.extents = s.extents /\ t.taken = s.taken
    /\ t.torn = s.torn /\ t.ok = s.ok /\ Within(t.cache, s.cache)
    /\ s.ok => DOMAIN t.cache \cap P = {}

LEMMA ForgetDoes ==
    ASSUME NEW s, Typed(s), NEW P
    PROVE  Forgets(s, Forget(s, P), P)
  <1> DEFINE D == [p \in DOMAIN s.cache \ P |-> s.cache[p]]
             t == [s EXCEPT !.cache = D]
  <1>1. IsCache(s.cache)
    BY DEF Typed
  <1>2. Within(s.cache, s.cache) /\ Within(D, s.cache) /\ IsCache(D) /\ DOMAIN D \cap P = {}
    BY <1>1 DEF Within, IsCache
  <1>3. CASE s.ok
    <2>1. Forget(s, P) = t
      BY <1>3 DEF Forget, Then
    <2> HIDE DEF D
    <2>2. Typed(t) /\ t.inode = s.inode /\ t.entries = s.entries /\ t.extents = s.extents /\ t.taken = s.taken
          /\ t.torn = s.torn /\ t.ok = s.ok /\ t.cache = D
      BY <1>2 DEF Typed, Fields
    <2> QED
      BY <1>2, <2>1, <2>2 DEF Forgets
  <1>4. CASE ~s.ok
    <2>1. Forget(s, P) = s
      BY <1>4 DEF Forget, Then
    <2> QED
      BY <1>2, <1>4, <2>1 DEF Forgets
  <1> QED
    BY <1>3, <1>4

\* Where no path that is left ends with a changed name, the cache stays current.
LEMMA CurrentAfter ==
    ASSUME NEW E, NEW F, NEW X, LeafChange(E, F, X), NEW C, IsCache(C), Current(E, C), NEW D, Within(D, C),
           \A p \in DOMAIN D : p # <<>> => <<Walk(E, Front(p)), Last(p)>> \notin X
    PROVE  Current(F, D)
  <1>1. ASSUME NEW p \in DOMAIN D PROVE Walk(F, p) = D[p]
    <2>1. p \in Paths /\ D[p] = C[p] /\ C[p] \in Inodes /\ Walk(E, p) = C[p]
      BY DEF Within, IsCache, Current
    <2>2. Walk(E, p) # 0
      BY <2>1, InodeFacts
    <2>3. Walk(F, p) = Walk(E, p)
      BY <2>1, <2>2, WalkChange
    <2> QED
      BY <2>1, <2>3
  <1> QED
    BY <1>1 DEF Current

-----------------------------------------------------------------------------
(* New names: Create, Mkdir, Symlink *)

Good(s) == Typed(s) /\ Weak(s.inode, s.entries)

\* Inodes J and I are the same but for their sizes.
SameNodes(I, J) == \A i \in Inodes : J[i].kind = I[i].kind /\ J[i].nlink = I[i].nlink

LEMMA WeakSame ==
    ASSUME NEW I, NEW J, SameNodes(I, J), NEW E, Weak(I, E)
    PROVE  Weak(J, E)
  <1>1. \A d \in Inodes, n \in Names : Look(E, d, n) # 0 => J[Look(E, d, n)].kind # "none"
    <2> SUFFICES ASSUME NEW d \in Inodes, NEW n \in Names, Look(E, d, n) # 0
                 PROVE  J[Look(E, d, n)].kind # "none"
      OBVIOUS
    <2>1. Look(E, d, n) \in Inodes
      BY LookType DEF Weak
    <2> QED
      BY <2>1 DEF Weak, SameNodes
  <1> QED
    BY <1>1 DEF Weak, SameNodes

LEMMA StepGood ==
    ASSUME NEW s, Good(s), NEW t, NEW I, NEW E, Step(s, t, I, E), Weak(I, E)
    PROVE  Good(t)
  BY DEF Good, Step

LEMMA NewIsUnused ==
    ASSUME NEW s, Typed(s), NEW i \in Inodes, s.inode[i].kind # "none", NewNumber(s) \in Inodes
    PROVE  s.inode[NewNumber(s)].kind = "none"
  <1>1. i \in Used(s) /\ Used(s) \in SUBSET Nat
    BY InodeFacts DEF Used
  <1>2. PICK n \in Inodes : Inodes = 1 .. n
    BY RootAssumption
  <1>3. n \in Nat /\ \A y \in Used(s) : y <= n
    BY <1>2, InodeFacts DEF Used
  <1>4. Max(Used(s)) \in Nat /\ \A y \in Used(s) : y <= Max(Used(s))
    BY <1>1, <1>3, MaxIsLargest
  <1>5. NewNumber(s) \notin Used(s)
    BY <1>4 DEF NewNumber
  <1> QED
    BY <1>5 DEF Used

LEMMA UnusedHasNoNames ==
    ASSUME NEW I, NEW E, Weak(I, E), NEW i \in Inodes, I[i].kind = "none"
    PROVE  Count(E, i) = 0
  <1>1. ASSUME NEW x \in NamesIn(E, i) PROVE FALSE
    <2>1. PICK d \in Inodes, n \in Names : x = <<d, n>>
      BY <1>1 DEF NamesIn
    <2>2. Look(E, d, n) = i
      BY <1>1, <2>1, NamesMember
    <2> QED
      BY <2>2, InodeFacts DEF Weak
  <1> QED
    BY <1>1, CountType

\* The kinds that guards ask for.
LEMMA KindIs ==
    ASSUME StateOK, NEW p \in Paths
    PROVE  /\ Kind(p) = IF Found(entries, pathCache, p) = 0 THEN "none"
                        ELSE inode[Found(entries, pathCache, p)].kind
           /\ At(p) = IF Found(entries, pathCache, p) = 0 THEN At(p) ELSE Found(entries, pathCache, p)
  <1> DEFINE s == Start(0)
             w == resolvePath(s, p)
  <1>1. Typed(s) /\ s.ok = TRUE /\ s.entries = entries /\ s.cache = pathCache
    BY StartTyped
  <1> HIDE DEF s
  <1>2. Resolves(s, w, p)
    BY <1>1, ResolveDoes
  <1>3. w.ok = (Found(entries, pathCache, p) # 0)
        /\ (Found(entries, pathCache, p) # 0 => w.ino = Found(entries, pathCache, p))
    BY <1>1, <1>2 DEF Resolves
  <1>4. Kind(p) = (IF w.ok THEN inode[w.ino].kind ELSE "none") /\ At(p) = w.ino
    BY DEF Kind, At, s
  <1> HIDE DEF w
  <1> QED
    BY <1>3, <1>4

LEMMA DirectoryIs ==
    ASSUME StateOK, NEW p \in Paths, InDirectory(p)
    PROVE  /\ p # <<>> /\ Front(p) \in Paths /\ Last(p) \in Names
           /\ Found(entries, pathCache, Front(p)) \in Inodes /\ Found(entries, pathCache, Front(p)) # 0
           /\ inode[Found(entries, pathCache, Front(p))].kind = "dir"
  <1>1. p # <<>> /\ Kind(Front(p)) = "dir"
    BY DEF InDirectory
  <1>2. Front(p) \in Paths /\ Last(p) \in Names
    BY <1>1, PathParts
  <1>3. Found(entries, pathCache, Front(p)) \in Inodes \union {0}
    BY <1>2, FoundType DEF StateOK
  <1>4. Kind(Front(p)) = IF Found(entries, pathCache, Front(p)) = 0 THEN "none"
                         ELSE inode[Found(entries, pathCache, Front(p))].kind
    BY <1>2, KindIs
  <1> QED
    BY <1>1, <1>2, <1>3, <1>4

\* s after EnterNew and Forget: the name was there, or is there now.
Entered(s, t, d, n, i) ==
    /\ Good(t) /\ t.inode = s.inode /\ Within(t.cache, s.cache)
    /\ t.torn = TRUE \/ t.entries = s.entries
       \/ (Look(s.entries, d, n) = 0 /\ Differs(s.entries, t.entries, d, n, i))

LEMMA EnterDoes ==
    ASSUME NEW s, Good(s), NEW d \in Inodes, NEW n \in Names, NEW i \in Inodes,
           s.inode[i].kind # "none", Count(s.entries, i) + 1 <= s.inode[i].nlink, NEW P
    PROVE  Entered(s, Forget(EnterNew(s, d, n, i), P), d, n, i)
  <1> DEFINE e == EnterNew(s, d, n, i)
             t == Forget(e, P)
  <1>1. Typed(s) /\ Weak(s.inode, s.entries) /\ NoDoubles(s.entries) /\ IsEntries(s.entries)
        /\ s.inode \in Table
    BY DEF Good, Weak, Typed
  <1>2. e = IF Look(s.entries, d, n) # 0 THEN Fail(s) ELSE AddEntry(s, d, n, i)
    BY FindIsPosition DEF EnterNew
  <1>3. /\ Good(e) /\ e.inode = s.inode /\ e.cache = s.cache
        /\ e.torn = TRUE \/ e.entries = s.entries
           \/ (Look(s.entries, d, n) = 0 /\ Differs(s.entries, e.entries, d, n, i))
    <2>1. CASE Look(s.entries, d, n) # 0
      BY <1>1, <1>2, <2>1, FailTyped DEF Good
    <2>2. CASE Look(s.entries, d, n) = 0
      <3>1. PICK F : Differs(s.entries, F, d, n, i) /\ Step(s, e, s.inode, F)
        BY <1>1, <1>2, <2>2, AddEntryDoes
      <3>2. Weak(s.inode, F)
        BY <1>1, <2>2, <3>1, WeakAdd
      <3>3. Good(e)
        BY <3>1, <3>2, StepGood
      <3> HIDE DEF e
      <3> QED
        BY <2>2, <3>1, <3>3 DEF Step
    <2> QED
      BY <2>1, <2>2
  <1> HIDE DEF e
  <1>4. Forgets(e, t, P)
    BY <1>3, ForgetDoes DEF Good
  <1> QED
    BY <1>3, <1>4 DEF Entered, Forgets, Good, e

NewRecord(kind) == [kind |-> kind, nlink |-> 1, size |-> 0]

\* t is the result of an operation that made inode New of the given kind and name p for it.
Made(t, p, kind) ==
    LET d == Found(entries, pathCache, Front(p))
        n == Last(p)
        J == [inode EXCEPT ![New] = NewRecord(kind)]
    IN  /\ Good(t)
        /\ (t.torn = TRUE /\ t.inode = inode) \/ SameNodes(J, t.inode)
        /\ t.torn = TRUE
           \/ /\ SameNodes(J, t.inode) /\ Within(t.cache, Cached(entries, pathCache, Front(p)))
              /\ t.entries = entries \/ (Look(entries, d, n) = 0 /\ Differs(entries, t.entries, d, n, New))

\* The first two steps: the directory is found and the inode is written.
LEMMA InsertDoes ==
    ASSUME StateOK, Weak(inode, entries), NEW bad \in Nat, NEW p \in Paths, InDirectory(p), New \in Inodes,
           NEW kind \in {"dir", "other"}
    PROVE  LET w == resolvePath(Start(bad), Front(p))
               n == insertInodeItem(w, kind)
               J == [inode EXCEPT ![New] = NewRecord(kind)]
           IN  /\ Typed(w) /\ w.ok = TRUE /\ w.ino = Found(entries, pathCache, Front(p)) /\ NewNumber(w) = New
               /\ w.inode = inode /\ w.entries = entries /\ w.cache = Cached(entries, pathCache, Front(p))
               /\ Good(n) /\ n.entries = entries /\ n.cache = w.cache /\ n.ok \in BOOLEAN
               /\ \/ n.ok = FALSE /\ n.torn = TRUE /\ n.inode = inode
                  \/ n.ok = TRUE /\ n.inode = J
               /\ J[New] = NewRecord(kind) /\ Count(entries, New) = 0 /\ J \in Table
  <1> DEFINE s == Start(bad)
             w == resolvePath(s, Front(p))
             n == insertInodeItem(w, kind)
             J == [inode EXCEPT ![New] = NewRecord(kind)]
  <1>1. Typed(s) /\ s.ok = TRUE /\ s.torn = FALSE /\ s.inode = inode /\ s.entries = entries /\ s.cache = pathCache
    BY StartTyped
  <1>2. /\ Front(p) \in Paths /\ Found(entries, pathCache, Front(p)) \in Inodes
        /\ Found(entries, pathCache, Front(p)) # 0 /\ inode[Found(entries, pathCache, Front(p))].kind = "dir"
    BY DirectoryIs
  <1> HIDE DEF s
  <1>3. Resolves(s, w, Front(p))
    BY <1>1, <1>2, ResolveDoes
  <1> HIDE DEF w
  <1>4. Typed(w) /\ w.ok = TRUE /\ w.torn = FALSE /\ w.ino = Found(entries, pathCache, Front(p))
        /\ w.inode = inode /\ w.entries = entries /\ w.cache = Cached(entries, pathCache, Front(p))
    BY <1>1, <1>2, <1>3 DEF Resolves
  <1>5. NewNumber(w) = New
    <2>1. Start(0).inode = inode
      BY DEF Start
    <2> QED
      BY <1>4, <2>1 DEF NewNumber, New, Used
  <1>6. inode[New].kind = "none"
    BY <1>2, <1>4, <1>5, NewIsUnused
  <1>7. Count(entries, New) = 0
    BY <1>6, UnusedHasNoNames
  <1>8. NewRecord(kind) \in Record /\ NewRecord(kind).nlink = 1 /\ NewRecord(kind).kind = kind
    BY WordsAssumption DEF Record, NewRecord
  <1>9. Step(w, n, J, entries)
    <2>1. n = PutInode(w, New, NewRecord(kind))
      BY <1>5 DEF insertInodeItem, NewRecord
    <2> QED
      BY <1>4, <1>8, <2>1, PutInodeDoes
  <1>10. Weak(J, entries)
    <2>1. Count(entries, New) <= NewRecord(kind).nlink /\ NewRecord(kind).kind # "none"
      BY <1>7, <1>8
    <2> QED
      BY <2>1, WeakPut DEF StateOK
  <1>11. Good(w)
    BY <1>4 DEF Good
  <1>12. J[New] = NewRecord(kind) /\ J \in Table
    BY <1>8 DEF StateOK, Table
  <1> HIDE DEF n, J
  <1>13. Good(n)
    BY <1>9, <1>10, <1>11, StepGood
  <1>14. /\ n.entries = entries /\ n.cache = w.cache /\ n.ok \in BOOLEAN
         /\ (n.ok = FALSE /\ n.torn = TRUE /\ n.inode = inode) \/ (n.ok = TRUE /\ n.inode = J)
    BY <1>4, <1>9 DEF Step
  <1> QED
    BY <1>4, <1>5, <1>7, <1>12, <1>13, <1>14 DEF s, w, n, J

LEMMA CreateDoes ==
    ASSUME StateOK, Weak(inode, entries), NEW bad \in Nat, NEW p \in Paths, InDirectory(p), New \in Inodes,
           NEW kind \in {"dir", "other"}
    PROVE  Made(createFile(Start(bad), p, kind), p, kind)
  <1> DEFINE s == Start(bad)
             w == resolvePath(s, Front(p))
             n == insertInodeItem(w, kind)
             d == Found(entries, pathCache, Front(p))
             J == [inode EXCEPT ![New] = NewRecord(kind)]
             t == Forget(EnterNew(n, d, Last(p), New), {Front(p)})
  <1>1. /\ Typed(w) /\ w.ok = TRUE /\ w.ino = d /\ NewNumber(w) = New
        /\ w.inode = inode /\ w.entries = entries /\ w.cache = Cached(entries, pathCache, Front(p))
        /\ Good(n) /\ n.entries = entries /\ n.cache = w.cache /\ n.ok \in BOOLEAN
        /\ \/ n.ok = FALSE /\ n.torn = TRUE /\ n.inode = inode
           \/ n.ok = TRUE /\ n.inode = J
        /\ J[New] = NewRecord(kind) /\ Count(entries, New) = 0
    BY InsertDoes, ZenonT(60)
  <1>2. d \in Inodes /\ Last(p) \in Names
    BY DirectoryIs
  <1> HIDE DEF s, w, d
  <1>3. createFile(s, p, kind) = IF n.ok THEN t ELSE n
    <2>1. createFile(s, p, kind) = IF w.ok THEN IF n.ok THEN Forget(EnterNew(n, w.ino, Last(p), NewNumber(w)), {Front(p)})
                                                ELSE n
                                   ELSE w
      BY DEF createFile, Then, w
    <2> QED
      BY <1>1, <2>1
  <1> HIDE DEF n
  <1>4. CASE n.ok = FALSE
    BY <1>1, <1>3, <1>4 DEF Made, s
  <1>5. CASE n.ok = TRUE
    <2>1. n.inode = J /\ n.inode[New].kind # "none" /\ Count(n.entries, New) + 1 <= n.inode[New].nlink
      <3> HIDE DEF J
      <3> QED
        BY <1>1, <1>5 DEF NewRecord
    <2>2. Entered(n, t, d, Last(p), New)
      BY <1>1, <1>2, <2>1, EnterDoes
    <2>3. SameNodes(J, J)
      BY DEF SameNodes
    <2> HIDE DEF J, t
    <2>4. t.inode = J /\ Good(t) /\ Within(t.cache, Cached(entries, pathCache, Front(p)))
      BY <1>1, <2>1, <2>2 DEF Entered
    <2>5. t.torn = TRUE \/ t.entries = entries
          \/ (Look(entries, d, Last(p)) = 0 /\ Differs(entries, t.entries, d, Last(p), New))
      BY <1>1, <2>2 DEF Entered
    <2>6. Made(t, p, kind)
      BY <2>3, <2>4, <2>5 DEF Made, J, d
    <2> QED
      BY <1>3, <1>5, <2>6 DEF s
  <1> QED
    BY <1>1, <1>4, <1>5

LEMMA SymlinkDoes ==
    ASSUME StateOK, Weak(inode, entries), NEW bad \in Nat, NEW p \in Paths, InDirectory(p), New \in Inodes,
           NEW x \in Words
    PROVE  Made(Symlink(Start(bad), p, <<x>>), p, "other")
  <1> DEFINE kind == "other"
             s == Start(bad)
             w == resolvePath(s, Front(p))
             n == insertInodeItem(w, kind)
             d == Found(entries, pathCache, Front(p))
             J == [inode EXCEPT ![New] = NewRecord(kind)]
             r == [n.inode[New] EXCEPT !.size = Len(<<x>>)]
             z == PutInode(n, New, r)
             e == TreeWrite(z, [z EXCEPT !.extents[New] = <<Inline(<<x>>)>> \o z.extents[New]])
             t == Forget(EnterNew(e, d, Last(p), New), {Front(p)})
             K == [J EXCEPT ![New] = r]
  <1>1. /\ Typed(w) /\ w.ok = TRUE /\ w.ino = d /\ NewNumber(w) = New
        /\ w.inode = inode /\ w.entries = entries /\ w.cache = Cached(entries, pathCache, Front(p))
        /\ Good(n) /\ n.entries = entries /\ n.cache = w.cache /\ n.ok \in BOOLEAN
        /\ \/ n.ok = FALSE /\ n.torn = TRUE /\ n.inode = inode
           \/ n.ok = TRUE /\ n.inode = J
        /\ J[New] = NewRecord(kind) /\ Count(entries, New) = 0 /\ J \in Table
    BY InsertDoes
  <1>2. d \in Inodes /\ Last(p) \in Names
    BY DirectoryIs
  <1> HIDE DEF s, w, d
  <1>3. Symlink(s, p, <<x>>) = IF n.ok THEN IF z.ok THEN IF e.ok THEN t ELSE e ELSE z ELSE n
    <2>1. Symlink(s, p, <<x>>) =
            IF w.ok THEN IF n.ok THEN
                LET y == PutInode(n, NewNumber(w), [n.inode[NewNumber(w)] EXCEPT !.size = Len(<<x>>)])
                    f == TreeWrite(y, [y EXCEPT !.extents[NewNumber(w)] = <<Inline(<<x>>)>> \o @])
                IN  IF y.ok THEN IF f.ok THEN Forget(EnterNew(f, w.ino, Last(p), NewNumber(w)), {Front(p)})
                                 ELSE f
                    ELSE y
            ELSE n ELSE w
      BY DEF Symlink, Then, w
    <2>2. [z EXCEPT !.extents[New] = <<Inline(<<x>>)>> \o @]
            = [z EXCEPT !.extents[New] = <<Inline(<<x>>)>> \o z.extents[New]]
      OBVIOUS
    <2> QED
      BY <1>1, <2>1, <2>2
  <1> HIDE DEF n
  <1>4. CASE n.ok = FALSE
    BY <1>1, <1>3, <1>4 DEF Made, s
  <1>5. CASE n.ok = TRUE
    <2>1. n.inode = J /\ n.inode[New] = NewRecord(kind)
      <3> HIDE DEF J
      <3> QED
        BY <1>1, <1>5
    <2>2. r \in Record /\ r.kind = kind /\ r.nlink = 1
      BY <2>1, WordsAssumption DEF Record, NewRecord
    <2>3. K[New] = r /\ J[New].kind = kind /\ J[New].nlink = 1 /\ \A i \in Inodes : i # New => K[i] = J[i]
      <3> HIDE DEF J, r
      <3> QED
        BY <1>1 DEF Table, NewRecord
    <2>4. SameNodes(J, K) /\ SameNodes(J, J)
      <3> HIDE DEF J, K, r
      <3> QED
        BY <2>2, <2>3 DEF SameNodes
    <2> HIDE DEF J, r
    <2>5. Step(n, z, K, entries)
      BY <1>1, <2>1, <2>2, PutInodeDoes DEF Good
    <2>6. Weak(K, entries) /\ Weak(J, entries)
      <3>1. Weak(J, entries)
        BY <1>1, <2>1 DEF Good
      <3> QED
        BY <2>4, <3>1, WeakSame
    <2> HIDE DEF K, z
    <2>7. Good(z) /\ z.entries = entries /\ z.cache = n.cache /\ z.ok \in BOOLEAN
          /\ ((z.torn = TRUE /\ z.ok = FALSE /\ z.inode = J) \/ (z.ok = TRUE /\ z.inode = K))
      <3>1. Good(z)
        BY <1>1, <2>5, <2>6, StepGood
      <3> QED
        BY <1>1, <1>5, <2>1, <2>5, <3>1 DEF Step
    <2>8. CASE z.ok = FALSE
      <3>1. z.torn = TRUE /\ SameNodes(J, z.inode)
        BY <2>4, <2>7, <2>8
      <3> QED
        BY <1>3, <1>5, <2>7, <2>8, <3>1 DEF Made, J, s
    <2>9. CASE z.ok = TRUE
      <3>1. <<Inline(<<x>>)>> \o z.extents[New] \in Seq(Extent)
        <4>1. <<x>> \in Seq(Word)
          BY DEF Word
        <4>2. Inline(<<x>>) \in Extent
          BY <4>1 DEF Inline, Extent
        <4>3. z.extents[New] \in Seq(Extent)
          BY <2>7 DEF Good, Typed, ExtentMap
        <4>4. <<Inline(<<x>>)>> \in Seq(Extent)
          BY <4>2
        <4> QED
          BY <4>3, <4>4, ConcatProperties
      <3>2. Step(z, e, z.inode, z.entries)
        BY <2>7, <3>1, ExtentsWriteDoes DEF Good
      <3> HIDE DEF e
      <3>3. Good(e) /\ e.entries = entries /\ e.cache = n.cache /\ e.ok \in BOOLEAN /\ e.inode = K
            /\ ((e.torn = TRUE /\ e.ok = FALSE) \/ e.ok = TRUE)
        <4>1. Good(e)
          BY <2>6, <2>7, <3>2, StepGood DEF Good
        <4> QED
          BY <2>7, <2>9, <3>2, <4>1 DEF Step
      <3>4. CASE e.ok = FALSE
        <4>1. e.torn = TRUE /\ SameNodes(J, e.inode)
          BY <2>4, <3>3, <3>4
        <4> QED
          BY <1>3, <1>5, <2>9, <3>3, <3>4, <4>1 DEF Made, J, s
      <3>5. CASE e.ok = TRUE
        <4>1. e.inode[New].kind # "none" /\ Count(e.entries, New) + 1 <= e.inode[New].nlink
          BY <1>1, <2>2, <2>3, <3>3
        <4>2. Entered(e, t, d, Last(p), New)
          BY <1>2, <3>3, <4>1, EnterDoes
        <4> HIDE DEF t
        <4>3. SameNodes(J, t.inode) /\ Good(t) /\ Within(t.cache, Cached(entries, pathCache, Front(p)))
          BY <1>1, <2>4, <3>3, <4>2 DEF Entered
        <4>4. t.torn = TRUE \/ t.entries = entries
              \/ (Look(entries, d, Last(p)) = 0 /\ Differs(entries, t.entries, d, Last(p), New))
          BY <3>3, <4>2 DEF Entered
        <4>5. Made(t, p, kind)
          BY <4>3, <4>4 DEF Made, J, d
        <4> QED
          BY <1>3, <1>5, <2>9, <3>5, <4>5 DEF s
      <3> QED
        BY <3>3, <3>4, <3>5
    <2> QED
      BY <2>7, <2>8, <2>9
  <1> QED
    BY <1>1, <1>4, <1>5

-----------------------------------------------------------------------------
(* Link *)

OneMore(r) == [r EXCEPT !.nlink = @ + 1]

\* t is the result of Link from q to p.
Linked(t, q, p) ==
    LET i == Found(entries, pathCache, q)
        d == Found(entries, pathCache, Front(p))
        n == Last(p)
        J == [inode EXCEPT ![i] = OneMore(inode[i])]
    IN  /\ Good(t)
        /\ t.torn = TRUE
           \/ /\ Within(t.cache, Cached(entries, Cached(entries, pathCache, q), Front(p)))
                 \/ Within(t.cache, Cached(entries, pathCache, q))
              /\ \/ t.inode = inode /\ t.entries = entries
                 \/ /\ inode[i].kind # "dir" /\ t.inode = J
                    /\ Look(entries, d, n) = 0 /\ Differs(entries, t.entries, d, n, i)

LEMMA WithinItself ==
    ASSUME NEW C, IsCache(C)
    PROVE  Within(C, C)
  BY DEF Within

LEMMA LinkDoes ==
    ASSUME StateOK, Weak(inode, entries), NEW bad \in Nat, NEW q \in Paths, NEW p \in Paths,
           Kind(q) # "none", InDirectory(p)
    PROVE  Linked(Link(Start(bad), q, p), q, p)
  <1> DEFINE s == Start(bad)
             C == pathCache
             i == Found(entries, C, q)
             d == Found(entries, C, Front(p))
             n == Last(p)
             r == OneMore(inode[i])
             J == [inode EXCEPT ![i] = r]
             a == resolvePath(s, q)
             w == resolvePath(a, Front(p))
             u == PutInode(w, i, r)
             t == Forget(AddEntry(u, d, n, i), {Front(p), q})
  <1>1. Typed(s) /\ s.ok = TRUE /\ s.torn = FALSE /\ s.inode = inode /\ s.entries = entries /\ s.cache = C
    BY StartTyped
  <1>2. Front(p) \in Paths /\ n \in Names /\ d \in Inodes /\ d # 0
    BY DirectoryIs
  <1>3. i \in Inodes /\ i # 0 /\ inode[i].kind # "none"
    <2>1. i \in Inodes \union {0}
      BY FoundType DEF StateOK
    <2> QED
      BY <2>1, KindIs
  <1>4. IsEntries(entries) /\ NoDoubles(entries) /\ IsCache(C) /\ inode \in Table
    BY DEF StateOK, Weak
  <1> HIDE DEF s
  <1>5. Resolves(s, a, q)
    BY <1>1, ResolveDoes
  <1> HIDE DEF a
  <1>6. Typed(a) /\ a.ok = TRUE /\ a.torn = FALSE /\ a.inode = inode /\ a.entries = entries /\ a.ino = i
        /\ a.cache = Cached(entries, C, q)
    BY <1>1, <1>3, <1>5 DEF Resolves
  <1>7. Resolves(a, w, Front(p))
    BY <1>2, <1>6, ResolveDoes
  <1>8. Found(entries, a.cache, Front(p)) = d
    BY <1>2, <1>4, <1>6, CachedType
  <1> HIDE DEF w
  <1>9. Typed(w) /\ w.ok = TRUE /\ w.torn = FALSE /\ w.inode = inode /\ w.entries = entries /\ w.ino = d
        /\ w.cache = Cached(entries, Cached(entries, C, q), Front(p))
    BY <1>2, <1>6, <1>7, <1>8 DEF Resolves
  <1>10. Good(a) /\ Good(w) /\ Within(a.cache, a.cache) /\ Within(w.cache, w.cache)
    BY <1>6, <1>9, WithinItself DEF Good, Typed
  <1>11. Link(s, q, p) =
            IF inode[i].kind = "dir" THEN Fail(a)
            ELSE IF Look(entries, d, n) # 0 THEN Fail(w)
            ELSE IF u.ok THEN t ELSE u
    <2>1. Link(s, q, p) =
            IF a.ok THEN
                IF a.inode[a.ino].kind = "dir" THEN Fail(a)
                ELSE IF w.ok THEN
                    IF lookupDirEntry(w, w.ino, Last(p)) # 0 \/ w.inode[a.ino].kind = "none" THEN Fail(w)
                    ELSE LET y == PutInode(w, a.ino, [w.inode[a.ino] EXCEPT !.nlink = @ + 1])
                         IN  IF y.ok THEN Forget(AddEntry(y, w.ino, Last(p), a.ino), {Front(p), q}) ELSE y
                ELSE w
            ELSE a
      BY DEF Link, Then, a, w
    <2>2. lookupDirEntry(w, d, n) = Look(entries, d, n)
      BY <1>9, FindIsPosition
    <2> QED
      BY <1>3, <1>6, <1>9, <2>1, <2>2 DEF OneMore
  <1>12. CASE inode[i].kind = "dir"
    <2>1. Good(Fail(a)) /\ Fail(a).inode = inode /\ Fail(a).entries = entries
          /\ Fail(a).cache = Cached(entries, pathCache, q)
      BY <1>6, <1>10, FailTyped DEF Good
    <2> QED
      BY <1>6, <1>10, <1>11, <1>12, <2>1 DEF Linked, s
  <1>13. CASE inode[i].kind # "dir" /\ Look(entries, d, n) # 0
    <2>1. Good(Fail(w)) /\ Fail(w).inode = inode /\ Fail(w).entries = entries
          /\ Fail(w).cache = Cached(entries, Cached(entries, pathCache, q), Front(p))
      BY <1>9, <1>10, FailTyped DEF Good
    <2> QED
      BY <1>9, <1>10, <1>11, <1>13, <2>1 DEF Linked, s
  <1>14. CASE inode[i].kind # "dir" /\ Look(entries, d, n) = 0
    <2>1. inode[i] \in Record /\ Count(entries, i) <= inode[i].nlink /\ Count(entries, i) \in Nat
      BY <1>3, <1>4, CountType DEF Table, Weak
    <2>2. r \in Record /\ r.kind = inode[i].kind /\ r.nlink = inode[i].nlink + 1 /\ inode[i].nlink \in Nat
      BY <2>1 DEF Record, OneMore
    <2>3. Count(entries, i) + 1 <= r.nlink /\ Count(entries, i) <= r.nlink
      BY <2>1, <2>2
    <2>4. J[i] = r /\ J \in Table
      BY <1>3, <1>4, <2>2 DEF Table
    <2> HIDE DEF r
    <2>5. Step(w, u, J, entries)
      BY <1>3, <1>9, <2>2, PutInodeDoes
    <2>6. Weak(J, entries)
      BY <1>3, <1>4, <2>2, <2>3, WeakPut
    <2> HIDE DEF u, J
    <2>7. Good(u) /\ u.entries = entries /\ u.cache = w.cache /\ u.ok \in BOOLEAN
          /\ ((u.torn = TRUE /\ u.ok = FALSE) \/ (u.ok = TRUE /\ u.inode = J))
      <3>1. Good(u)
        BY <1>10, <2>5, <2>6, StepGood
      <3> QED
        BY <1>9, <2>5, <3>1 DEF Step
    <2>8. CASE u.ok = FALSE
      <3>1. u.torn = TRUE
        BY <2>7, <2>8
      <3> QED
        BY <1>11, <1>14, <2>7, <2>8, <3>1 DEF Linked, s
    <2>9. CASE u.ok = TRUE
      <3> DEFINE e == AddEntry(u, d, n, i)
      <3>1. u.inode = J /\ Typed(u)
        BY <2>7, <2>9 DEF Good
      <3>2. PICK F : Differs(entries, F, d, n, i) /\ Step(u, e, J, F)
        BY <1>2, <1>3, <1>4, <1>14, <2>7, <3>1, AddEntryDoes
      <3>3. Weak(J, F)
        BY <1>2, <1>3, <1>14, <2>2, <2>3, <2>4, <2>6, <3>2, WeakAdd
      <3> HIDE DEF e
      <3>4. Good(e) /\ e.cache = w.cache /\ (e.torn = TRUE \/ (e.inode = J /\ e.entries = F))
        <4>1. Good(e)
          BY <2>7, <3>2, <3>3, StepGood
        <4> QED
          BY <2>7, <3>2, <4>1 DEF Step
      <3>5. Forgets(e, t, {Front(p), q})
        BY <3>4, ForgetDoes DEF Good, e
      <3> HIDE DEF t
      <3>6. Good(t) /\ Within(t.cache, w.cache) /\ (t.torn = TRUE \/ (t.inode = J /\ t.entries = F))
        BY <3>4, <3>5 DEF Forgets, Good
      <3>7. Linked(t, q, p)
        BY <1>9, <1>14, <3>2, <3>6 DEF Linked, J, r
      <3> QED
        BY <1>11, <1>14, <2>9, <3>7 DEF s
    <2> QED
      BY <2>7, <2>8, <2>9
  <1> QED
    BY <1>12, <1>13, <1>14

-----------------------------------------------------------------------------
(* Unlink and Rmdir *)

\* Inodes I with one name less for i.
Less(r) == IF r.nlink - 1 > 0 THEN [r EXCEPT !.nlink = r.nlink - 1] ELSE NoInode
Dropped(I, i) == [I EXCEPT ![i] = Less(I[i])]

\* t is s after DropLink or DropTarget of inode i.
Drops(s, t, i) ==
    /\ Good(t) /\ t.entries = s.entries /\ t.cache = s.cache
    /\ t.inode = s.inode \/ t.inode = Dropped(s.inode, i)
    /\ t.torn = TRUE \/ (t.inode = Dropped(s.inode, i) /\ t.torn = s.torn /\ t.ok = TRUE)

\* Inode i has a name less than its link count says.
Loose(s, i) == s.inode[i].kind # "none" /\ Count(s.entries, i) + 1 <= s.inode[i].nlink

LEMMA LessIs ==
    ASSUME NEW s, Good(s), NEW i \in Inodes, Loose(s, i)
    PROVE  /\ Less(s.inode[i]) \in Record /\ Dropped(s.inode, i) \in Table /\ s.inode[i].nlink \in Nat
           /\ s.inode[i].nlink > 0 /\ Weak(Dropped(s.inode, i), s.entries) /\ Dropped(s.inode, i)[i] = Less(s.inode[i])
           /\ Less(s.inode[i]).nlink = s.inode[i].nlink - 1
           /\ Less(s.inode[i]).kind = IF s.inode[i].nlink > 1 THEN s.inode[i].kind ELSE "none"
  <1> DEFINE r == s.inode[i]
             c == Count(s.entries, i)
             l == Less(r)
  <1>1. r \in Record /\ s.inode \in Table /\ c \in Nat
    BY CountType DEF Good, Typed, Table
  <1>2. r.nlink \in Nat /\ r.kind # "none" /\ c + 1 <= r.nlink
    BY <1>1 DEF Record, Loose
  <1> HIDE DEF r, c
  <1>3. l \in Record /\ l.nlink = r.nlink - 1 /\ l.kind = IF r.nlink > 1 THEN r.kind ELSE "none"
    <2>1. CASE r.nlink - 1 > 0
      BY <1>1, <1>2, <2>1 DEF Less, Record
    <2>2. CASE ~(r.nlink - 1 > 0)
      BY <1>1, <1>2, <2>2, WordsAssumption DEF Less, Record, NoInode
    <2> QED
      BY <2>1, <2>2
  <1> HIDE DEF l
  <1>4. c <= l.nlink /\ (l.kind # "none" \/ c = 0)
    BY <1>1, <1>2, <1>3
  <1>5. Dropped(s.inode, i) = [s.inode EXCEPT ![i] = l]
    BY DEF Dropped, l, r
  <1>6. Weak(Dropped(s.inode, i), s.entries)
    BY <1>1, <1>4, <1>5, WeakPut DEF Good, c
  <1>7. Dropped(s.inode, i) \in Table /\ Dropped(s.inode, i)[i] = l
    BY <1>1, <1>3, <1>5 DEF Table
  <1> QED
    BY <1>1, <1>2, <1>3, <1>6, <1>7 DEF l, r

LEMMA DropLinkDoes ==
    ASSUME NEW s, Good(s), s.ok = TRUE, NEW i \in Inodes, Loose(s, i)
    PROVE  /\ Drops(s, DropLink(s, i), i) /\ Drops(s, Unchecked(DropLink(s, i)), i)
           /\ Unchecked(DropLink(s, i)).ok = TRUE
  <1> DEFINE r == s.inode[i]
             l == Less(r)
             J == Dropped(s.inode, i)
             t == DropLink(s, i)
             u == PutInode(s, i, l)
  <1>1. l \in Record /\ J \in Table /\ r.nlink \in Nat /\ r.nlink > 0 /\ Weak(J, s.entries) /\ r.kind # "none"
    BY LessIs DEF Loose
  <1>2. Step(s, u, J, s.entries)
    BY <1>1, PutInodeDoes DEF Good, Dropped
  <1>3. Good(u)
    BY <1>1, <1>2, StepGood
  <1>4. t = IF r.nlink - 1 > 0 THEN u ELSE IF u.ok THEN DeleteExtents(u, i) ELSE u
    BY <1>1 DEF DropLink, Then, Less
  <1> HIDE DEF u, J, t
  <1>5. /\ u.entries = s.entries /\ u.cache = s.cache /\ u.ok \in BOOLEAN
        /\ (u.torn = TRUE /\ u.inode = s.inode /\ u.ok = FALSE) \/ (u.inode = J /\ u.torn = s.torn /\ u.ok = TRUE)
    BY <1>2, <1>3 DEF Step, Good, Typed
  <1>6. Drops(s, u, i)
    BY <1>3, <1>5 DEF Drops, J
  <1>7. Drops(s, t, i)
    <2>1. CASE u.ok = TRUE /\ t = DeleteExtents(u, i)
      <3>1. Quiet(u, t)
        BY <1>3, <2>1, DeleteExtentsDoes DEF Good
      <3> QED
        BY <1>3, <1>5, <2>1, <3>1 DEF Drops, Quiet, Good, J
    <2>2. CASE t = u
      BY <1>6, <2>2
    <2> QED
      BY <1>4, <1>5, <2>1, <2>2
  <1>8. Drops(s, Unchecked(t), i) /\ Unchecked(t).ok = TRUE
    BY <1>7, UncheckedTyped DEF Drops, Good
  <1> QED
    BY <1>7, <1>8 DEF t

LEMMA DropTargetDoes ==
    ASSUME NEW s, Good(s), s.ok = TRUE, NEW i \in Inodes, Loose(s, i)
    PROVE  Drops(s, DropTarget(s, i), i) /\ DropTarget(s, i).ok = TRUE
  <1> DEFINE r == s.inode[i]
             J == Dropped(s.inode, i)
             t == DropTarget(s, i)
             u == PutInode(s, i, NoInode)
  <1>1. CASE r.nlink <= 1
    <2>1. Less(r) \in Record /\ J \in Table /\ r.nlink \in Nat /\ Weak(J, s.entries) /\ r.kind # "none"
      BY LessIs DEF Loose
    <2>2. Less(r) = NoInode
      BY <1>1, <2>1 DEF Less
    <2>3. Step(s, u, J, s.entries)
      BY <2>1, <2>2, PutInodeDoes DEF Good, Dropped
    <2>4. Good(u)
      BY <2>1, <2>3, StepGood
    <2>5. t = DeleteExtents(Unchecked(u), i)
      BY <1>1, <2>1 DEF DropTarget
    <2> HIDE DEF u, J, t
    <2>6. /\ u.entries = s.entries /\ u.cache = s.cache
          /\ (u.torn = TRUE /\ u.inode = s.inode) \/ (u.inode = J /\ u.torn = s.torn)
      BY <2>3 DEF Step
    <2>7. Typed(Unchecked(u)) /\ Unchecked(u).ok = TRUE /\ Unchecked(u).torn = u.torn
          /\ Unchecked(u).entries = u.entries /\ Unchecked(u).cache = u.cache /\ Unchecked(u).inode = u.inode
      BY <2>4, UncheckedTyped DEF Good
    <2>8. Quiet(Unchecked(u), t)
      BY <2>5, <2>7, DeleteExtentsDoes
    <2>9. t.ok = TRUE /\ t.entries = u.entries /\ t.inode = u.inode /\ t.cache = u.cache /\ Typed(t)
          /\ (t.torn = TRUE \/ t.torn = u.torn)
      BY <2>7, <2>8 DEF Quiet
    <2> QED
      BY <2>4, <2>6, <2>9 DEF Drops, Good, J, t
  <1>2. CASE ~(r.nlink <= 1)
    <2>1. t = Unchecked(DropLink(s, i))
      BY <1>2 DEF DropTarget
    <2> QED
      BY <2>1, DropLinkDoes
  <1> QED
    BY <1>1, <1>2

\* t is the result of removeEntry.
Removed(t, p, mustBeDir) ==
    LET d == Found(entries, pathCache, Front(p))
        n == Last(p)
        i == Look(entries, d, n)
    IN  /\ Good(t)
        /\ t.inode = inode \/ (i \in Inodes /\ t.inode = Dropped(inode, i))
        /\ t.torn = TRUE
           \/ /\ Within(t.cache, Cached(entries, pathCache, Front(p)))
              /\ \/ t.inode = inode /\ t.entries = entries
                 \/ /\ i # 0 /\ i \in Inodes /\ (IF mustBeDir THEN entries[i] = <<>> ELSE inode[i].kind # "dir")
                    /\ t.inode = Dropped(inode, i) /\ Differs(entries, t.entries, d, n, 0)
                    /\ p \notin DOMAIN t.cache

\* The entry goes.
LEMMA UnnameDoes ==
    ASSUME NEW s, Good(s), s.ok = TRUE, NEW d \in Inodes, NEW n \in Names, Look(s.entries, d, n) # 0
    PROVE  LET e == DeleteEntry(s, d, Find(s, d, n))
               i == Look(s.entries, d, n)
           IN  /\ Good(e) /\ e.cache = s.cache /\ e.inode = s.inode /\ i \in Inodes
               /\ \/ e.torn = TRUE /\ e.ok = FALSE
                  \/ /\ e.torn = s.torn /\ e.ok = TRUE /\ Differs(s.entries, e.entries, d, n, 0)
                     /\ Loose(e, i)
  <1> DEFINE e == DeleteEntry(s, d, Find(s, d, n))
             i == Look(s.entries, d, n)
  <1>1. Typed(s) /\ Weak(s.inode, s.entries) /\ NoDoubles(s.entries) /\ IsEntries(s.entries) /\ s.inode \in Table
    BY DEF Good, Weak, Typed
  <1>2. i \in Inodes /\ s.inode[i].kind # "none"
    BY <1>1, LookType DEF Weak
  <1>3. PICK F : Differs(s.entries, F, d, n, 0) /\ Step(s, e, s.inode, F)
    BY <1>1, DeleteEntryDoes
  <1>4. Weak(s.inode, F)
    BY <1>1, <1>3, WeakRemove
  <1>5. Good(e)
    BY <1>3, <1>4, StepGood
  <1> HIDE DEF e, i
  <1>6. Count(F, i) + 1 <= s.inode[i].nlink
    <2>1. Count(F, i) = Count(s.entries, i) - 1
      BY <1>2, <1>3, CountRemoved DEF i
    <2>2. Count(s.entries, i) <= s.inode[i].nlink /\ Count(s.entries, i) \in Nat
      BY <1>1, <1>2, CountType DEF Weak
    <2> QED
      BY <2>1, <2>2
  <1>7. /\ e.cache = s.cache /\ e.inode = s.inode
        /\ \/ e.torn = TRUE /\ e.ok = FALSE
           \/ e.torn = s.torn /\ e.ok = TRUE /\ e.entries = F
    BY <1>3 DEF Step
  <1>8. e.entries = F => Loose(e, i)
    BY <1>2, <1>6, <1>7 DEF Loose
  <1> QED
    BY <1>2, <1>3, <1>5, <1>7, <1>8 DEF e, i

LEMMA RemoveDoes ==
    ASSUME StateOK, Weak(inode, entries), NEW bad \in Nat, NEW p \in Paths, InDirectory(p),
           NEW mustBeDir \in BOOLEAN
    PROVE  Removed(removeEntry(Start(bad), p, mustBeDir), p, mustBeDir)
  <1> DEFINE s == Start(bad)
             C == pathCache
             d == Found(entries, C, Front(p))
             n == Last(p)
             i == Look(entries, d, n)
             w == resolvePath(s, Front(p))
             Refused == (inode[i].kind = "dir") # mustBeDir \/ (mustBeDir /\ entries[i] # <<>>)
             e == DeleteEntry(w, d, Find(w, d, n))
             g == DropLink(e, i)
             P == {p, Front(p)}
  <1>1. Typed(s) /\ s.ok = TRUE /\ s.torn = FALSE /\ s.inode = inode /\ s.entries = entries /\ s.cache = C
    BY StartTyped
  <1>2. Front(p) \in Paths /\ n \in Names /\ d \in Inodes /\ d # 0
    BY DirectoryIs
  <1>3. IsEntries(entries) /\ IsCache(C) /\ inode \in Table
    BY DEF StateOK
  <1> HIDE DEF s
  <1>4. Resolves(s, w, Front(p))
    BY <1>1, <1>2, ResolveDoes
  <1> HIDE DEF w
  <1>5. Typed(w) /\ w.ok = TRUE /\ w.torn = FALSE /\ w.inode = inode /\ w.entries = entries /\ w.ino = d
        /\ w.cache = Cached(entries, C, Front(p))
    BY <1>1, <1>2, <1>4 DEF Resolves
  <1>6. Good(w) /\ Within(w.cache, w.cache)
    BY <1>5, WithinItself DEF Good, Typed
  <1>7. Find(w, d, n) = Position(entries, d, n) /\ lookupDirEntry(w, d, n) = i
    BY <1>5, FindIsPosition
  <1>8. (Find(w, d, n) = 0) = (i = 0)
    BY <1>2, <1>3, <1>7, PositionFound, InodeFacts
  <1>9. removeEntry(s, p, mustBeDir) =
            IF i = 0 \/ Refused THEN Fail(w) ELSE IF e.ok THEN Forget(g, P) ELSE Forget(e, P)
    <2>1. removeEntry(s, p, mustBeDir) =
            IF w.ok THEN
                IF Find(w, w.ino, Last(p)) = 0 THEN Fail(w)
                ELSE LET j == lookupDirEntry(w, w.ino, Last(p))
                         f == DeleteEntry(w, w.ino, Find(w, w.ino, Last(p)))
                     IN  IF (w.inode[j].kind = "dir") # mustBeDir \/ (mustBeDir /\ w.entries[j] # <<>>) THEN Fail(w)
                         ELSE Forget(IF f.ok THEN DropLink(f, j) ELSE f, {p, Front(p)})
            ELSE w
      BY DEF removeEntry, Then, w
    <2> QED
      BY <1>5, <1>7, <1>8, <2>1
  <1>10. CASE i = 0 \/ Refused
    <2>1. Good(Fail(w)) /\ Fail(w).inode = inode /\ Fail(w).entries = entries /\ Fail(w).cache = w.cache
      BY <1>5, <1>6, FailTyped DEF Good
    <2> HIDE DEF Refused
    <2> QED
      BY <1>5, <1>6, <1>9, <1>10, <2>1 DEF Removed, s
  <1>11. CASE i # 0 /\ ~Refused
    <2>1. /\ Good(e) /\ e.cache = w.cache /\ e.inode = inode /\ i \in Inodes
          /\ \/ e.torn = TRUE /\ e.ok = FALSE
             \/ /\ e.torn = FALSE /\ e.ok = TRUE /\ Differs(entries, e.entries, d, n, 0)
                /\ Loose(e, i)
      <3> HIDE DEF Refused, d, n
      <3>1. Look(w.entries, d, n) # 0 /\ Look(w.entries, d, n) = i
        BY <1>5, <1>11
      <3>2. /\ Good(e) /\ e.cache = w.cache /\ e.inode = w.inode /\ Look(w.entries, d, n) \in Inodes
            /\ \/ e.torn = TRUE /\ e.ok = FALSE
               \/ /\ e.torn = w.torn /\ e.ok = TRUE /\ Differs(w.entries, e.entries, d, n, 0)
                  /\ Loose(e, Look(w.entries, d, n))
        BY <1>2, <1>5, <1>6, <3>1, UnnameDoes, ZenonT(60)
      <3> HIDE DEF e, i
      <3> QED
        BY <1>5, <3>1, <3>2
    <2>2. IF mustBeDir THEN entries[i] = <<>> ELSE inode[i].kind # "dir"
      BY <1>11
    <2> HIDE DEF e, Refused
    <2>3. CASE e.ok = FALSE
      <3>1. Forgets(e, Forget(e, P), P)
        BY <2>1, ForgetDoes DEF Good
      <3>2. Removed(Forget(e, P), p, mustBeDir)
        BY <2>1, <2>3, <3>1 DEF Removed, Forgets, Good
      <3> QED
        BY <1>9, <1>11, <2>3, <3>2 DEF s
    <2>4. CASE e.ok = TRUE
      <3>1. Drops(e, g, i)
        BY <2>1, <2>4, DropLinkDoes
      <3> HIDE DEF g
      <3>2. Forgets(g, Forget(g, P), P)
        BY <3>1, ForgetDoes DEF Drops, Good
      <3> DEFINE t == Forget(g, P)
      <3> HIDE DEF t
      <3>3. Good(t) /\ (t.inode = inode \/ t.inode = Dropped(inode, i))
        BY <2>1, <3>1, <3>2 DEF Drops, Forgets, Good, t
      <3>4. t.torn = TRUE
            \/ /\ Within(t.cache, Cached(entries, C, Front(p))) /\ t.inode = Dropped(inode, i)
               /\ Differs(entries, t.entries, d, n, 0) /\ p \notin DOMAIN t.cache
        <4>1. g.torn = TRUE \/ (g.ok = TRUE /\ g.inode = Dropped(inode, i) /\ g.entries = e.entries /\ g.cache = w.cache)
          BY <2>1, <3>1 DEF Drops
        <4>2. t.torn = g.torn /\ t.inode = g.inode /\ t.entries = g.entries /\ Within(t.cache, g.cache)
              /\ (g.ok => p \notin DOMAIN t.cache)
          BY <3>2 DEF Forgets, t
        <4> QED
          BY <1>5, <2>1, <2>4, <4>1, <4>2
      <3>5. Removed(t, p, mustBeDir)
        BY <1>11, <2>1, <2>2, <3>3, <3>4 DEF Removed
      <3> QED
        BY <1>9, <1>11, <2>4, <3>5 DEF s, t
    <2> QED
      BY <2>1, <2>3, <2>4
  <1> QED
    BY <1>10, <1>11

-----------------------------------------------------------------------------
(* Rename *)

\* Inodes J and entries F after the target of a rename, name m of e, is gone.
Cleared(J, F, e, m) ==
    LET j == Look(entries, e, m)
    IN  \/ j = 0 /\ J = inode /\ F = entries
        \/ j \in Inodes /\ J = Dropped(inode, j) /\ Differs(entries, F, e, m, 0)

\* t is the result of Rename from p to q.
Renamed(t, p, q) ==
    LET d == Found(entries, pathCache, Front(p))
        n == Last(p)
        e == Found(entries, pathCache, Front(q))
        m == Last(q)
        i == Look(entries, d, n)
        j == Look(entries, e, m)
    IN  /\ Good(t)
        /\ t.inode = inode \/ (j \in Inodes /\ t.inode = Dropped(inode, j))
        /\ t.torn = TRUE
           \/ /\ Within(t.cache, Cached(entries, Cached(entries, pathCache, Front(p)), Front(q)))
              /\ \/ t.inode = inode /\ t.entries = entries
                 \/ \E F :
                    /\ Cleared(t.inode, F, e, m) /\ i \in Inodes
                    /\ \/ Look(F, d, n) = 0 /\ t.entries = F
                       \/ \E G :
                          /\ Look(F, d, n) = i /\ Look(F, e, m) = 0
                          /\ Differs(F, G, d, n, 0) /\ Differs(G, t.entries, e, m, i)
                          /\ p \notin DOMAIN t.cache /\ q \notin DOMAIN t.cache

\* The old name goes and the new one comes, in a directory that does not have it.
LEMMA MoveDoes ==
    ASSUME NEW s, Good(s), s.ok = TRUE, NEW d \in Inodes, NEW n \in Names, NEW e \in Inodes, NEW m \in Names,
           NEW i \in Inodes, Look(s.entries, d, n) \in {0, i}, Look(s.entries, e, m) = 0
    PROVE  LET y == DeleteEntry(s, d, Find(s, d, n))
               z == AddEntry(y, e, m, i)
               t == IF y.ok THEN z ELSE y
           IN  /\ Good(t) /\ t.inode = s.inode /\ t.cache = s.cache /\ y.ok \in BOOLEAN
               /\ t.torn = TRUE
                  \/ /\ t.torn = s.torn
                     /\ \/ Look(s.entries, d, n) = 0 /\ t.entries = s.entries
                        \/ \E G :
                           /\ Look(s.entries, d, n) = i /\ t.ok = TRUE
                           /\ Differs(s.entries, G, d, n, 0) /\ Differs(G, t.entries, e, m, i)
  <1> DEFINE y == DeleteEntry(s, d, Find(s, d, n))
             z == AddEntry(y, e, m, i)
             t == IF y.ok THEN z ELSE y
  <1>1. Typed(s) /\ IsEntries(s.entries)
    BY DEF Good, Weak
  <1>2. CASE Look(s.entries, d, n) = 0
    <2>1. Find(s, d, n) = 0
      BY <1>1, <1>2, PositionFound, FindIsPosition, InodeFacts
    <2>2. y = Fail(s)
      BY <2>1 DEF DeleteEntry
    <2>3. Good(y) /\ y.ok = FALSE /\ y.inode = s.inode /\ y.cache = s.cache /\ y.torn = s.torn
          /\ y.entries = s.entries
      BY <1>1, <2>2, FailTyped DEF Good
    <2> HIDE DEF y, z
    <2>4. t = y
      BY <2>3
    <2> QED
      BY <1>2, <2>3, <2>4 DEF y, z
  <1>3. CASE Look(s.entries, d, n) = i /\ Look(s.entries, d, n) # 0
    <2>1. /\ Good(y) /\ y.cache = s.cache /\ y.inode = s.inode
          /\ \/ y.torn = TRUE /\ y.ok = FALSE
             \/ /\ y.torn = s.torn /\ y.ok = TRUE /\ Differs(s.entries, y.entries, d, n, 0)
                /\ Loose(y, i)
      BY <1>3, UnnameDoes
    <2> HIDE DEF y
    <2>2. CASE y.ok = FALSE
      <3>1. t = y /\ y.torn = TRUE
        BY <2>1, <2>2
      <3> HIDE DEF z
      <3> QED
        BY <2>1, <2>2, <3>1 DEF y, z
    <2>3. CASE y.ok = TRUE
      <3> DEFINE G == y.entries
      <3>1. y.torn = s.torn /\ Differs(s.entries, G, d, n, 0) /\ Loose(y, i)
        BY <2>1, <2>3
      <3>2. Look(G, e, m) = 0
        BY <3>1 DEF Differs
      <3>3. Typed(y) /\ NoDoubles(G) /\ Weak(y.inode, G) /\ y.inode \in Table
        BY <2>1 DEF Good, Typed, Weak
      <3>4. PICK H : Differs(G, H, e, m, i) /\ Step(y, z, y.inode, H)
        BY <3>2, <3>3, AddEntryDoes
      <3>5. Weak(y.inode, H)
        BY <3>1, <3>2, <3>3, <3>4, WeakAdd DEF Loose
      <3>6. Good(z)
        BY <2>1, <3>4, <3>5, StepGood
      <3> HIDE DEF z
      <3>7. /\ z.inode = s.inode /\ z.cache = s.cache
            /\ z.torn = TRUE \/ (z.torn = s.torn /\ z.ok = TRUE /\ z.entries = H)
        BY <2>1, <2>3, <3>1, <3>4 DEF Step
      <3>8. t = z
        BY <2>3
      <3> HIDE DEF t
      <3>9. /\ Good(t) /\ t.inode = s.inode /\ t.cache = s.cache /\ y.ok \in BOOLEAN
            /\ t.torn = TRUE
               \/ /\ t.torn = s.torn /\ Look(s.entries, d, n) = i /\ t.ok = TRUE
                  /\ Differs(s.entries, G, d, n, 0) /\ Differs(G, t.entries, e, m, i)
        BY <1>3, <2>3, <3>1, <3>4, <3>6, <3>7, <3>8
      <3> QED
        BY <3>9 DEF y, z, t
    <2> QED
      BY <2>1, <2>2, <2>3
  <1> QED
    BY <1>2, <1>3, InodeFacts

\* s after the target has gone, if there is one.
WithoutTarget(s, e, m) ==
    LET x == DeleteEntry(s, e, Find(s, e, m))
    IN  IF Look(entries, e, m) = 0 THEN s ELSE IF x.ok THEN DropTarget(x, Look(entries, e, m)) ELSE x

Clears(s, g, d, n, e, m) ==
    /\ Good(g) /\ g.cache = s.cache /\ g.ok \in BOOLEAN
    /\ g.inode = inode \/ (Look(entries, e, m) \in Inodes /\ g.inode = Dropped(inode, Look(entries, e, m)))
    /\ g.ok = TRUE => Look(g.entries, e, m) = 0 /\ Look(g.entries, d, n) \in {0, Look(entries, d, n)}
    /\ g.torn = TRUE \/ (g.ok = TRUE /\ g.torn = FALSE /\ Cleared(g.inode, g.entries, e, m))

LEMMA ClearDoes ==
    ASSUME Weak(inode, entries), NEW s, Good(s), s.ok = TRUE, s.torn = FALSE, s.inode = inode, s.entries = entries,
           NEW e \in Inodes, NEW m \in Names, NEW d \in Inodes, NEW n \in Names
    PROVE  Clears(s, WithoutTarget(s, e, m), d, n, e, m)
  <1> DEFINE j == Look(entries, e, m)
             x == DeleteEntry(s, e, Find(s, e, m))
             g == IF j = 0 THEN s ELSE IF x.ok THEN DropTarget(x, j) ELSE x
  <1>0. j \in Inodes \union {0} /\ IsEntries(entries)
    BY LookType DEF Weak
  <1> USE DEF WithoutTarget, Clears
  <1>1. CASE j = 0
    <2>1. g = s
      BY <1>1
    <2>2. Cleared(inode, entries, e, m)
      BY <1>1 DEF Cleared
    <2>3. x = Fail(s)
      <3>1. Find(s, e, m) = 0
        BY <1>0, <1>1, PositionFound, FindIsPosition, InodeFacts
      <3> QED
        BY <3>1 DEF DeleteEntry
    <2>4. x.ok = FALSE
      BY <2>3, FailTyped DEF Good
    <2> HIDE DEF g, x
    <2>5. /\ Good(g) /\ g.cache = s.cache /\ x.ok \in BOOLEAN /\ g.ok \in BOOLEAN
          /\ g.inode = inode \/ (j \in Inodes /\ g.inode = Dropped(inode, j))
          /\ g.ok = TRUE => Look(g.entries, e, m) = 0 /\ Look(g.entries, d, n) \in {0, Look(entries, d, n)}
          /\ g.torn = TRUE \/ (g.ok = TRUE /\ g.torn = FALSE /\ Cleared(g.inode, g.entries, e, m))
      BY <1>1, <2>1, <2>2, <2>4
    <2> QED
      BY <2>5 DEF g, x
  <1>2. CASE j # 0
    <2>1. /\ Good(x) /\ x.cache = s.cache /\ x.inode = inode /\ j \in Inodes
          /\ \/ x.torn = TRUE /\ x.ok = FALSE
             \/ /\ x.torn = FALSE /\ x.ok = TRUE /\ Differs(entries, x.entries, e, m, 0)
                /\ Loose(x, j)
      <3>1. Look(s.entries, e, m) # 0
        BY <1>2
      <3> QED
        BY <3>1, UnnameDoes
    <2> HIDE DEF x, j
    <2>2. CASE x.ok = FALSE
      <3>1. g = x
        BY <1>2, <2>2
      <3> HIDE DEF g
      <3>2. /\ Good(g) /\ g.cache = s.cache /\ x.ok \in BOOLEAN /\ g.ok = FALSE
            /\ g.inode = inode /\ g.torn = TRUE
        BY <2>1, <2>2, <3>1
      <3> QED
        BY <3>2 DEF g, x, j
    <2>3. CASE x.ok = TRUE
      <3>1. g = DropTarget(x, j)
        BY <1>2, <2>3
      <3>2. Drops(x, g, j) /\ g.ok = TRUE
        BY <2>1, <2>3, <3>1, DropTargetDoes
      <3>3. Differs(entries, x.entries, e, m, 0)
        BY <2>1, <2>3
      <3> HIDE DEF g
      <3>4. Look(g.entries, e, m) = 0 /\ Look(g.entries, d, n) \in {0, Look(entries, d, n)}
        BY <3>2, <3>3 DEF Differs, Drops
      <3>5. g.torn = TRUE \/ (g.torn = FALSE /\ g.inode = Dropped(inode, j) /\ Differs(entries, g.entries, e, m, 0))
        BY <2>1, <2>3, <3>2, <3>3 DEF Drops
      <3>6. Good(g) /\ g.cache = s.cache /\ (g.inode = inode \/ g.inode = Dropped(inode, j))
        BY <2>1, <3>2 DEF Drops
      <3>7. g.torn = TRUE \/ (g.torn = FALSE /\ Cleared(g.inode, g.entries, e, m))
        BY <2>1, <3>5 DEF Cleared, j
      <3> QED
        BY <2>1, <2>3, <3>2, <3>4, <3>6, <3>7 DEF g, x, j
    <2> QED
      BY <2>1, <2>2, <2>3
  <1> QED
    BY <1>1, <1>2

LEMMA RenameDoes ==
    ASSUME StateOK, Weak(inode, entries), NEW bad \in Nat, NEW p \in Paths, NEW q \in Paths,
           InDirectory(p), InDirectory(q)
    PROVE  Renamed(Rename(Start(bad), p, q), p, q)
  <1> DEFINE s == Start(bad)
             C == pathCache
             d == Found(entries, C, Front(p))
             n == Last(p)
             e == Found(entries, C, Front(q))
             m == Last(q)
             i == Look(entries, d, n)
             j == Look(entries, e, m)
             a == resolvePath(s, Front(p))
             w == resolvePath(a, Front(q))
             x == DeleteEntry(w, e, Find(w, e, m))
             g == IF j = 0 THEN w ELSE IF x.ok THEN DropTarget(x, j) ELSE x
             y == DeleteEntry(g, d, Find(g, d, n))
             z == AddEntry(y, e, m, i)
             v == IF y.ok THEN z ELSE y
             P == {p, q, Front(p), Front(q)}
             t == Rename(s, p, q)
  <1>1. Typed(s) /\ s.ok = TRUE /\ s.torn = FALSE /\ s.inode = inode /\ s.entries = entries /\ s.cache = C
    BY StartTyped
  <1>2. Front(p) \in Paths /\ n \in Names /\ d \in Inodes /\ d # 0
    BY DirectoryIs
  <1>3. Front(q) \in Paths /\ m \in Names /\ e \in Inodes /\ e # 0
    BY DirectoryIs
  <1>4. IsEntries(entries) /\ IsCache(C) /\ inode \in Table
    BY DEF StateOK
  <1> HIDE DEF s
  <1>5. Resolves(s, a, Front(p))
    BY <1>1, <1>2, ResolveDoes
  <1> HIDE DEF a
  <1>6. Typed(a) /\ a.ok = TRUE /\ a.torn = FALSE /\ a.inode = inode /\ a.entries = entries /\ a.ino = d
        /\ a.cache = Cached(entries, C, Front(p))
    BY <1>1, <1>2, <1>5 DEF Resolves
  <1>7. Resolves(a, w, Front(q))
    BY <1>3, <1>6, ResolveDoes
  <1>8. Found(entries, a.cache, Front(q)) = e
    BY <1>2, <1>3, <1>4, <1>6, CachedType
  <1> HIDE DEF w
  <1>9. Typed(w) /\ w.ok = TRUE /\ w.torn = FALSE /\ w.inode = inode /\ w.entries = entries /\ w.ino = e
        /\ w.cache = Cached(entries, Cached(entries, C, Front(p)), Front(q))
    BY <1>3, <1>6, <1>7, <1>8 DEF Resolves
  <1>10. Good(w) /\ Within(w.cache, w.cache)
    BY <1>9, WithinItself DEF Good, Typed
  <1>11. /\ lookupDirEntry(w, d, n) = i /\ lookupDirEntry(w, e, m) = j
         /\ (Find(w, e, m) = 0) = (j = 0)
    BY <1>3, <1>4, <1>9, FindIsPosition, PositionFound, InodeFacts
  <1> HIDE DEF i, j
  <1>12. t = IF i = 0 THEN Fail(w) ELSE IF g.ok THEN Forget(v, P) ELSE Forget(g, P)
    <2>1. t = IF a.ok THEN IF w.ok THEN
                LET k == Find(w, w.ino, Last(q))
                    o == lookupDirEntry(w, a.ino, Last(p))
                    f == DeleteEntry(w, w.ino, k)
                    h == IF k = 0 THEN w ELSE IF f.ok THEN DropTarget(f, lookupDirEntry(w, w.ino, Last(q))) ELSE f
                    b == DeleteEntry(h, a.ino, Find(h, a.ino, Last(p)))
                IN  IF o = 0 THEN Fail(w)
                    ELSE Forget(IF h.ok THEN IF b.ok THEN AddEntry(b, w.ino, Last(q), o) ELSE b ELSE h,
                                {p, q, Front(p), Front(q)})
              ELSE w ELSE a
      BY DEF Rename, Then, a, w
    <2>2. g = IF Find(w, e, m) = 0 THEN w ELSE IF x.ok THEN DropTarget(x, lookupDirEntry(w, e, m)) ELSE x
      BY <1>11
    <2> HIDE DEF t
    <2>3. t = IF i = 0 THEN Fail(w) ELSE Forget(IF g.ok THEN v ELSE g, P)
      <3> HIDE DEF d, e, n, m, g
      <3> QED
        BY <1>6, <1>9, <1>11, <2>1, <2>2 DEF n, m
    <2> HIDE DEF g, v, P
    <2> QED
      BY <2>3
  <1> HIDE DEF t
  <1>13. i \in Inodes \union {0}
    BY <1>2, <1>4, LookType DEF i
  <1>14. CASE i = 0
    <2>1. Good(Fail(w)) /\ Fail(w).inode = inode /\ Fail(w).entries = entries /\ Fail(w).cache = w.cache
      BY <1>9, <1>10, FailTyped DEF Good
    <2>2. t = Fail(w)
      BY <1>12, <1>14
    <2> QED
      BY <1>9, <1>10, <2>1, <2>2 DEF Renamed, t, s
  <1>15. CASE i # 0
    <2>1. /\ Good(g) /\ g.cache = w.cache /\ g.ok \in BOOLEAN
          /\ g.inode = inode \/ (j \in Inodes /\ g.inode = Dropped(inode, j))
          /\ g.ok = TRUE => Look(g.entries, e, m) = 0 /\ Look(g.entries, d, n) \in {0, i}
          /\ g.torn = TRUE \/ (g.ok = TRUE /\ g.torn = FALSE /\ Cleared(g.inode, g.entries, e, m))
      <3> HIDE DEF d, e, n, m
      <3>1. Clears(w, WithoutTarget(w, e, m), d, n, e, m)
        BY <1>2, <1>3, <1>9, <1>10, ClearDoes
      <3>2. g = WithoutTarget(w, e, m)
        BY DEF j, WithoutTarget
      <3> HIDE DEF g
      <3> QED
        BY <3>1, <3>2 DEF Clears, i, j
    <2> HIDE DEF g
    <2>2. CASE g.ok = FALSE
      <3>1. g.torn = TRUE /\ t = Forget(g, P)
        BY <1>12, <1>15, <2>1, <2>2
      <3>2. Forgets(g, t, P)
        BY <2>1, <3>1, ForgetDoes DEF Good
      <3>3. Good(t) /\ t.torn = TRUE /\ (t.inode = inode \/ (j \in Inodes /\ t.inode = Dropped(inode, j)))
        BY <2>1, <3>1, <3>2 DEF Forgets, Good
      <3> QED
        BY <3>3 DEF Renamed, j, t, s
    <2>3. CASE g.ok = TRUE
      <3>1. t = Forget(v, P)
        BY <1>12, <1>15, <2>3
      <3>2. i \in Inodes /\ Look(g.entries, d, n) \in {0, i} /\ Look(g.entries, e, m) = 0
        BY <1>13, <1>15, <2>1, <2>3
      <3>3. /\ Good(v) /\ v.inode = g.inode /\ v.cache = g.cache
            /\ v.torn = TRUE
               \/ /\ v.torn = g.torn
                  /\ \/ Look(g.entries, d, n) = 0 /\ v.entries = g.entries
                     \/ \E G :
                        /\ Look(g.entries, d, n) = i /\ v.ok = TRUE
                        /\ Differs(g.entries, G, d, n, 0) /\ Differs(G, v.entries, e, m, i)
        <4> HIDE DEF d, e, n, m
        <4> QED
          BY <1>2, <1>3, <2>1, <2>3, <3>2, MoveDoes, ZenonT(60)
      <3> HIDE DEF v
      <3>4. Forgets(v, t, P)
        BY <3>1, <3>3, ForgetDoes DEF Good
      <3>5. Good(t) /\ t.torn = v.torn /\ t.inode = g.inode /\ t.entries = v.entries /\ Within(t.cache, w.cache)
            /\ (v.ok => p \notin DOMAIN t.cache /\ q \notin DOMAIN t.cache)
        BY <2>1, <3>3, <3>4 DEF Forgets, Good
      <3>6. CASE t.torn = TRUE
        BY <2>1, <3>5, <3>6 DEF Renamed, j, t, s
      <3>7. CASE t.torn # TRUE
        <4> DEFINE F == g.entries
        <4>1. v.torn = g.torn /\ v.torn # TRUE /\ Cleared(t.inode, F, e, m)
          BY <2>1, <3>3, <3>5, <3>7
        <4>2. \/ Look(F, d, n) = 0 /\ t.entries = F
              \/ \E G :
                 /\ Look(F, d, n) = i /\ Look(F, e, m) = 0
                 /\ Differs(F, G, d, n, 0) /\ Differs(G, t.entries, e, m, i)
                 /\ p \notin DOMAIN t.cache /\ q \notin DOMAIN t.cache
          BY <3>2, <3>3, <3>5, <4>1
        <4> HIDE DEF F
        <4>3. \E H :
                 /\ Cleared(t.inode, H, e, m) /\ i \in Inodes
                 /\ \/ Look(H, d, n) = 0 /\ t.entries = H
                    \/ \E G :
                       /\ Look(H, d, n) = i /\ Look(H, e, m) = 0
                       /\ Differs(H, G, d, n, 0) /\ Differs(G, t.entries, e, m, i)
                       /\ p \notin DOMAIN t.cache /\ q \notin DOMAIN t.cache
          BY <3>2, <4>1, <4>2
        <4>4. Within(t.cache, Cached(entries, Cached(entries, pathCache, Front(p)), Front(q)))
          BY <1>9, <3>5
        <4>5. t.inode = inode \/ (j \in Inodes /\ t.inode = Dropped(inode, j))
          BY <2>1, <3>5
        <4> QED
          BY <3>5, <4>3, <4>4, <4>5 DEF Renamed, i, j, t, s
      <3> QED
        BY <3>6, <3>7
    <2> QED
      BY <2>1, <2>2, <2>3
  <1> QED
    BY <1>14, <1>15

-----------------------------------------------------------------------------
(* Operations that leave the names alone: Chmod, Write, Truncate *)

\* t is s after writes that change neither entries nor link counts nor kinds.
Plain(s, t) ==
    /\ Typed(t) /\ t.cache = s.cache /\ t.ino = s.ino /\ t.entries = s.entries
    /\ SameNodes(s.inode, t.inode)

LEMMA PlainSteps ==
    ASSUME NEW s, Typed(s)
    PROVE  /\ Plain(s, s)
           /\ \A t : Quiet(s, t) => Plain(s, t)
           /\ \A t : Step(s, t, s.inode, s.entries) => Plain(s, t)
           /\ \A t, u : Plain(s, t) /\ Plain(t, u) => Plain(s, u)
           /\ Plain(s, Unchecked(s)) /\ Unchecked(s).ok = TRUE
           /\ Plain(s, Torn(s))
  <1>1. Plain(s, s) /\ (\A t : Quiet(s, t) => Plain(s, t))
        /\ \A t : Step(s, t, s.inode, s.entries) => Plain(s, t)
    BY DEF Plain, Quiet, Step, SameNodes
  <1>2. \A t, u : Plain(s, t) /\ Plain(t, u) => Plain(s, u)
    BY DEF Plain, SameNodes
  <1>3. Plain(s, Unchecked(s)) /\ Unchecked(s).ok = TRUE
    BY UncheckedTyped DEF Plain, SameNodes
  <1>4. Plain(s, Torn(s))
    BY TornTyped DEF Plain, SameNodes
  <1> QED
    BY <1>1, <1>2, <1>3, <1>4

LEMMA PlainThen ==
    ASSUME NEW s, Typed(s), NEW t, Plain(s, t), NEW u, Plain(t, u)
    PROVE  Plain(s, u)
  BY PlainSteps

\* One write of the size of an inode.
LEMMA SizeDoes ==
    ASSUME NEW s, Typed(s), NEW i \in Inodes, NEW n \in 0 .. MaxSize
    PROVE  Plain(s, PutInode(s, i, [s.inode[i] EXCEPT !.size = n]))
  <1> DEFINE r == [s.inode[i] EXCEPT !.size = n]
             J == [s.inode EXCEPT ![i] = r]
             t == PutInode(s, i, r)
  <1>1. s.inode[i] \in Record /\ s.inode \in Table
    BY DEF Typed, Table
  <1>2. r \in Record /\ r.kind = s.inode[i].kind /\ r.nlink = s.inode[i].nlink
    BY <1>1 DEF Record
  <1> HIDE DEF r
  <1>3. Step(s, t, J, s.entries)
    BY <1>2, PutInodeDoes
  <1>4. J[i] = r /\ \A j \in Inodes : j # i => J[j] = s.inode[j]
    BY <1>1 DEF Table
  <1> HIDE DEF J, t
  <1>5. SameNodes(s.inode, J) /\ SameNodes(s.inode, s.inode)
    BY <1>2, <1>4 DEF SameNodes
  <1>6. Plain(s, t)
    BY <1>3, <1>5 DEF Step, Plain
  <1> QED
    BY <1>6 DEF t, r

LEMMA ExtentsDoes ==
    ASSUME NEW s, Typed(s), NEW i \in Inodes, NEW xs \in Seq(Extent)
    PROVE  Plain(s, TreeWrite(s, [s EXCEPT !.extents[i] = xs]))
  <1> DEFINE t == TreeWrite(s, [s EXCEPT !.extents[i] = xs])
  <1>1. Step(s, t, s.inode, s.entries)
    BY ExtentsWriteDoes
  <1> HIDE DEF t
  <1>2. Plain(s, t)
    BY <1>1, PlainSteps
  <1> QED
    BY <1>2 DEF t

\* An extent is allocated.
LEMMA NewExtentDoes ==
    ASSUME NEW s, Typed(s)
    PROVE  /\ Plain(s, NewExtent(s)) /\ NewExtent(s).ok \in BOOLEAN
           /\ NewExtent(s).ok => Min(FreeBlocks(s)) \in DataBlocks
  <1> DEFINE B == FreeBlocks(s)
             w == TreeWrite(s, s)
             v == [w EXCEPT !.taken = @ \union {Min(B)}]
             u == TreeWrite(w, v)
  <1>1. B \subseteq DataBlocks /\ DataBlocks \in SUBSET Nat
    BY WordsAssumption DEF FreeBlocks
  <1> HIDE DEF B
  <1>2. CASE B = {}
    <2>1. NewExtent(s) = Torn(s)
      BY <1>2 DEF NewExtent, B
    <2>2. Torn(s).ok = FALSE /\ Plain(s, Torn(s))
      BY TornTyped, PlainSteps
    <2> QED
      BY <2>1, <2>2
  <1>3. CASE B # {}
    <2>1. Min(B) \in DataBlocks
      <3>1. B \in SUBSET Nat
        BY <1>1
      <3> QED
        BY <1>1, <1>3, <3>1, MinIsSmallest
    <2>2. Plain(s, w) /\ Typed(w)
      <3>1. Step(s, w, s.inode, s.entries)
        BY TreeWriteDoes
      <3> QED
        BY <3>1, PlainSteps DEF Step
    <2>3. NewExtent(s) = IF w.ok THEN Unchecked(u) ELSE w
      BY <1>3 DEF NewExtent, Then, B
    <2> HIDE DEF w
    <2>4. Typed(v) /\ v.inode = w.inode /\ v.entries = w.entries /\ v.cache = w.cache /\ v.ino = w.ino
          /\ v.ok = w.ok /\ v.torn = w.torn
      BY <2>1, <2>2 DEF Typed, Fields
    <2> HIDE DEF v
    <2>5. Plain(w, u) /\ Typed(u)
      <3>1. Step(w, u, v.inode, v.entries)
        BY <2>2, <2>4, TreeWriteDoes
      <3> QED
        BY <2>2, <2>4, <3>1, PlainSteps, ZenonT(60) DEF Step
    <2> HIDE DEF u
    <2>6. Plain(u, Unchecked(u)) /\ Unchecked(u).ok = TRUE
      BY <2>5, PlainSteps
    <2>7. Plain(s, Unchecked(u))
      BY <2>2, <2>5, <2>6, PlainThen
    <2>8. w.ok \in BOOLEAN
      BY <2>2 DEF Typed
    <2> QED
      BY <2>1, <2>2, <2>3, <2>6, <2>7, <2>8 DEF B
  <1> QED
    BY <1>2, <1>3

\* Its item is added.
LEMMA AddExtentDoes ==
    ASSUME NEW s, Typed(s), NEW i \in Inodes, NEW b \in DataBlocks, NEW ws \in Seq(Word), NEW zip \in BOOLEAN
    PROVE  Plain(s, AddExtent(s, i, b, ws, zip))
  <1> DEFINE x == [at |-> b, zip |-> zip, words |-> ws]
             xs == <<x>> \o s.extents[i]
  <1>1. x \in Extent
    BY DEF Extent
  <1>2. s.extents[i] \in Seq(Extent)
    BY DEF Typed, ExtentMap
  <1> HIDE DEF x
  <1>3. <<x>> \in Seq(Extent)
    BY <1>1
  <1>4. xs \in Seq(Extent)
    BY <1>2, <1>3, ConcatProperties
  <1>5. AddExtent(s, i, b, ws, zip) = TreeWrite(s, [s EXCEPT !.extents[i] = xs])
    BY DEF AddExtent, x
  <1> HIDE DEF xs
  <1> QED
    BY <1>4, <1>5, ExtentsDoes

LEMMA MaxOfTwo ==
    ASSUME NEW b \in Nat, NEW x \in 0 .. b, NEW y \in 0 .. b
    PROVE  Max({x, y}) \in 0 .. b
  <1>1. {x, y} \in SUBSET Nat /\ {x, y} # {} /\ \A z \in {x, y} : z <= b
    OBVIOUS
  <1>2. Max({x, y}) \in {x, y}
    BY <1>1, MaxIsLargest
  <1> QED
    BY <1>2

LEMMA GrowDoes ==
    ASSUME NEW s, Typed(s), NEW i \in Inodes, NEW n \in 0 .. MaxSize
    PROVE  Plain(s, GrowInode(s, i, n))
  <1> DEFINE m == Max({s.inode[i].size, n})
             t == PutInode(s, i, [s.inode[i] EXCEPT !.size = m])
  <1>1. s.inode[i].size \in 0 .. MaxSize
    <2>1. s.inode[i] \in Record
      BY DEF Typed, Table
    <2> QED
      BY <2>1 DEF Record
  <1>2. m \in 0 .. MaxSize
    BY <1>1, MaxOfTwo, WordsAssumption
  <1>3. GrowInode(s, i, n) = IF s.inode[i].kind = "none" THEN s ELSE Unchecked(t)
    BY DEF GrowInode
  <1> HIDE DEF m
  <1>4. Plain(s, t)
    BY <1>2, SizeDoes
  <1> HIDE DEF t
  <1>5. Plain(s, Unchecked(t))
    <2>1. Plain(t, Unchecked(t))
      BY <1>4, PlainSteps DEF Plain
    <2> QED
      BY <1>4, <2>1, PlainThen
  <1> QED
    BY <1>3, <1>5, PlainSteps

LEMMA RawType ==
    ASSUME NEW x \in Extent
    PROVE  RawWords(x) \in Seq(Word)
  <1>1. x.words \in Seq(Word) /\ x.zip \in BOOLEAN
    BY DEF Extent
  <1>2. Junk \in Word
    BY DEF Word
  <1>3. DOMAIN x.words = 1 .. Len(x.words) /\ Len(x.words) \in Nat
    BY <1>1
  <1>4. [k \in DOMAIN x.words |-> Junk] \in Seq(Word)
    BY <1>2, <1>3
  <1> QED
    BY <1>1, <1>4 DEF RawWords

LEMMA ResizeType ==
    ASSUME NEW ws \in Seq(Word), NEW n \in Nat
    PROVE  Resize(ws, n) \in Seq(Word) /\ \A k \in 1 .. n : Resize(ws, n)[k] \in Word
  <1>1. ASSUME NEW k \in 1 .. n PROVE (IF k <= Len(ws) THEN ws[k] ELSE Zero) \in Word
    <2>1. CASE k <= Len(ws)
      <3>1. k \in 1 .. Len(ws)
        BY <2>1
      <3>2. ws[k] \in Word
        BY <3>1, ElementOfSeq
      <3> QED
        BY <2>1, <3>2
    <2>2. CASE ~(k <= Len(ws))
      BY <2>2 DEF Word
    <2> QED
      BY <2>1, <2>2
  <1>2. Resize(ws, n) \in [1 .. n -> Word]
    BY <1>1 DEF Resize
  <1> QED
    BY <1>2

LEMMA InlineType ==
    ASSUME NEW ws \in Seq(Word)
    PROVE  Inline(ws) \in Extent
  BY DEF Inline, Extent

\* t is the result of an operation on the data of the file p.
Touched(t, p) ==
    /\ Typed(t) /\ t.entries = entries /\ SameNodes(inode, t.inode)
    /\ Within(t.cache, Cached(entries, pathCache, p))

LEMMA FileIs ==
    ASSUME StateOK, NEW p \in Paths, IsFile(p)
    PROVE  /\ Found(entries, pathCache, p) \in Inodes /\ Found(entries, pathCache, p) # 0
           /\ inode[Found(entries, pathCache, p)].kind = "other"
  <1>1. Found(entries, pathCache, p) \in Inodes \union {0}
    BY FoundType DEF StateOK
  <1> QED
    BY <1>1, KindIs DEF IsFile

\* The path of an operation on a file is resolved.
LEMMA OpenDoes ==
    ASSUME StateOK, NEW bad \in Nat, NEW p \in Paths, Found(entries, pathCache, p) # 0
    PROVE  LET w == resolvePath(Start(bad), p)
           IN  /\ Typed(w) /\ w.ok = TRUE /\ w.torn = FALSE /\ w.ino = Found(entries, pathCache, p) /\ w.ino \in Inodes
               /\ w.inode = inode /\ w.entries = entries /\ w.cache = Cached(entries, pathCache, p)
               /\ w.extents = extents /\ w.taken = taken
  <1> DEFINE s == Start(bad)
             w == resolvePath(s, p)
  <1>1. /\ Typed(s) /\ s.ok = TRUE /\ s.torn = FALSE /\ s.inode = inode /\ s.entries = entries
        /\ s.cache = pathCache /\ s.extents = extents /\ s.taken = taken
    BY StartTyped
  <1> HIDE DEF s
  <1>2. Resolves(s, w, p)
    BY <1>1, ResolveDoes
  <1> HIDE DEF w
  <1>3. /\ Typed(w) /\ w.ok = TRUE /\ w.torn = FALSE /\ w.ino = Found(entries, pathCache, p) /\ w.ino \in Inodes
        /\ w.inode = inode /\ w.entries = entries /\ w.cache = Cached(entries, pathCache, p)
        /\ w.extents = extents /\ w.taken = taken
    BY <1>1, <1>2 DEF Resolves
  <1> QED
    BY <1>3 DEF w, s

\* What is plain after the path was resolved touches the file only.
LEMMA PlainTouches ==
    ASSUME NEW w, Typed(w), w.inode = inode, w.entries = entries, NEW p,
           w.cache = Cached(entries, pathCache, p), NEW t, Plain(w, t), NEW P
    PROVE  Touched(Forget(t, P), p) /\ Touched(t, p)
  <1>1. Forgets(t, Forget(t, P), P)
    BY ForgetDoes DEF Plain
  <1>2. Within(t.cache, t.cache)
    BY WithinItself DEF Plain, Typed
  <1> QED
    BY <1>1, <1>2 DEF Forgets, Plain, Touched

LEMMA WriteDoes ==
    ASSUME StateOK, NEW bad \in Nat, NEW p \in Paths, IsFile(p), NEW o \in Nat, NEW c \in Nat,
           o + c \in 0 .. MaxSize, NEW x \in Words, NEW zip \in BOOLEAN
    PROVE  Touched(Write(Start(bad), p, o, [k \in 1 .. c |-> x], zip), p)
  <1> DEFINE buf == [k \in 1 .. c |-> x]
             w == resolvePath(Start(bad), p)
             i == Found(entries, pathCache, p)
             xs == w.extents[i]
             old == IF xs = <<>> THEN <<>> ELSE RawWords(Last(xs))
             n == o + Len(buf)
             new == [k \in 1 .. n |-> IF k > o THEN buf[k - o] ELSE Resize(old, n)[k]]
             ys == IF xs = <<>> THEN <<Inline(new)>> ELSE [xs EXCEPT ![Len(xs)] = Inline(new)]
             inl == TreeWrite(w, [w EXCEPT !.extents[i] = ys])
             r == NewExtent(w)
             f == DeleteExtents(r, i)
             ext == IF r.ok THEN AddExtent(f, i, Min(FreeBlocks(w)), new, zip) ELSE r
             e == IF n <= InlineMax THEN inl ELSE ext
             t == IF e.ok THEN GrowInode(e, i, n) ELSE e
  <1>1. /\ Typed(w) /\ w.ok = TRUE /\ w.ino = i /\ i \in Inodes
        /\ w.inode = inode /\ w.entries = entries /\ w.cache = Cached(entries, pathCache, p)
    BY FileIs, OpenDoes
  <1>2. Len(buf) = c /\ n = o + c /\ n \in Nat /\ n \in 0 .. MaxSize
    BY WordsAssumption
  <1>3. xs \in Seq(Extent) /\ Len(xs) \in Nat
    BY <1>1 DEF Typed, ExtentMap
  <1> HIDE DEF w, i, n
  <1>4. Write(Start(bad), p, o, buf, zip) = Forget(t, {p})
    <2>1. Write(Start(bad), p, o, buf, zip) =
            IF w.ok THEN
                LET l == w.ino
                    zs == w.extents[l]
                    od == IF zs = <<>> THEN <<>> ELSE RawWords(Last(zs))
                    m == o + Len(buf)
                    nw == [k \in 1 .. m |-> IF k > o THEN buf[k - o] ELSE Resize(od, m)[k]]
                    il == TreeWrite(w, [w EXCEPT !.extents[l] =
                            IF zs = <<>> THEN <<Inline(nw)>> ELSE [zs EXCEPT ![Len(zs)] = Inline(nw)]])
                    g == IF m <= InlineMax THEN il
                         ELSE IF r.ok THEN AddExtent(DeleteExtents(r, l), l, Min(FreeBlocks(w)), nw, zip) ELSE r
                IN  Forget(IF g.ok THEN GrowInode(g, l, m) ELSE g, {p})
            ELSE w
      BY DEF Write, Then, w
    <2> HIDE DEF buf
    <2> QED
      BY <1>1, <2>1 DEF n
  <1>5. old \in Seq(Word)
    <2>1. ASSUME xs # <<>> PROVE RawWords(Last(xs)) \in Seq(Word)
      <3>1. Len(xs) \in 1 .. Len(xs)
        BY <1>3, <2>1
      <3>2. Last(xs) \in Extent
        BY <1>3, <3>1, ElementOfSeq DEF Last
      <3> QED
        BY <3>2, RawType
    <2> HIDE DEF xs
    <2> QED
      BY <2>1
  <1> HIDE DEF old
  <1>6. new \in Seq(Word)
    <2>1. ASSUME NEW k \in 1 .. n PROVE (IF k > o THEN buf[k - o] ELSE Resize(old, n)[k]) \in Word
      <3>1. CASE k > o
        <4>1. k - o \in 1 .. c
          BY <1>2, <3>1
        <4>2. buf[k - o] = x
          BY <4>1
        <4> QED
          BY <3>1, <4>2 DEF Word
      <3>2. CASE ~(k > o)
        BY <1>2, <1>5, <3>2, ResizeType
      <3> QED
        BY <3>1, <3>2
    <2> HIDE DEF buf
    <2>2. new \in [1 .. n -> Word]
      BY <2>1
    <2> HIDE DEF new
    <2> QED
      BY <1>2, <2>2
  <1> HIDE DEF new
  <1>7. ys \in Seq(Extent)
    <2>1. Inline(new) \in Extent
      BY <1>6, InlineType
    <2> HIDE DEF xs
    <2>2. CASE xs = <<>>
      BY <2>1, <2>2
    <2>3. CASE xs # <<>>
      <3>1. Len(xs) \in 1 .. Len(xs)
        BY <1>3, <2>3
      <3> QED
        BY <1>3, <2>1, <2>3, <3>1, ExceptSeq
    <2> QED
      BY <2>2, <2>3
  <1> HIDE DEF xs, ys
  <1>8. Plain(w, inl)
    BY <1>1, <1>7, ExtentsDoes
  <1> HIDE DEF inl
  <1>9. Plain(w, r) /\ (r.ok = TRUE => Min(FreeBlocks(w)) \in DataBlocks) /\ r.ok \in BOOLEAN
    BY <1>1, NewExtentDoes
  <1> HIDE DEF r
  <1>10. Plain(w, ext)
    <2>1. CASE r.ok = FALSE
      BY <1>9, <2>1
    <2>2. CASE r.ok = TRUE
      <3>1. Quiet(r, f)
        BY <1>1, <1>9, <2>2, DeleteExtentsDoes DEF Plain
      <3> HIDE DEF f
      <3>2. Plain(r, f) /\ Typed(f) /\ Typed(r)
        BY <1>9, <3>1, PlainSteps, ZenonT(60) DEF Plain
      <3> DEFINE b == Min(FreeBlocks(w))
                 g == AddExtent(f, i, b, new, zip)
      <3>3. b \in DataBlocks /\ ext = g
        BY <1>9, <2>2
      <3> HIDE DEF b
      <3>4. Plain(f, g)
        BY <1>1, <1>6, <3>2, <3>3, AddExtentDoes
      <3> HIDE DEF g
      <3>5. Plain(w, f)
        BY <1>1, <1>9, <3>2, PlainThen
      <3>6. Plain(w, g)
        BY <1>1, <3>4, <3>5, PlainThen
      <3> QED
        BY <3>3, <3>6
    <2> QED
      BY <1>9, <2>1, <2>2
  <1> HIDE DEF ext
  <1>11. Plain(w, e) /\ Typed(e)
    BY <1>8, <1>10 DEF Plain
  <1> HIDE DEF e
  <1>12. Plain(w, t)
    <2>1. Plain(e, GrowInode(e, i, n))
      BY <1>1, <1>2, <1>11, GrowDoes
    <2>2. Plain(w, GrowInode(e, i, n))
      BY <1>1, <1>11, <2>1, PlainThen
    <2> QED
      BY <1>11, <2>2
  <1> HIDE DEF t, buf
  <1>13. Touched(Forget(t, {p}), p)
    BY <1>1, <1>12, PlainTouches
  <1> QED
    BY <1>4, <1>13 DEF buf

LEMMA FrontType ==
    ASSUME NEW S, NEW xs \in Seq(S)
    PROVE  Front(xs) \in Seq(S)
  <1>1. PICK m \in Int : m = Len(xs) - 1
    OBVIOUS
  <1>2. \A k \in 1 .. m : xs[k] \in S
    <2>1. \A k \in 1 .. m : k \in 1 .. Len(xs)
      BY <1>1
    <2> QED
      BY <2>1, ElementOfSeq
  <1>3. SubSeq(xs, 1, m) \in Seq(S)
    <2>1. 1 \in Int
      OBVIOUS
    <2> QED
      BY <1>2, <2>1, SubSeqProperties
  <1> QED
    BY <1>1, <1>3 DEF Front

LEMMA TruncateDoes ==
    ASSUME StateOK, NEW bad \in Nat, NEW p \in Paths, IsFile(p), NEW n \in 0 .. MaxSize
    PROVE  Touched(Truncate(Start(bad), p, n), p)
  <1> DEFINE w == resolvePath(Start(bad), p)
             i == Found(entries, pathCache, p)
             z == PutInode(w, i, [w.inode[i] EXCEPT !.size = n])
             xs == z.extents[i]
             new == Resize(RawWords(Last(xs)), n)
             cut == Torn([z EXCEPT !.extents[i] = SubSeq(xs, 1, Len(xs) - z.bad + 1)])
             none == IF z.bad \in 1 .. Len(xs) THEN cut ELSE DeleteExtents(z, i)
             inl == TreeWrite(z, [z EXCEPT !.extents[i] = [xs EXCEPT ![Len(xs)] = Inline(new)]])
             r == NewExtent(z)
             f == Unchecked(TreeWrite(r, [r EXCEPT !.extents[i] = Front(r.extents[i])]))
             ext == IF r.ok THEN AddExtent(f, i, Min(FreeBlocks(z)), new, FALSE) ELSE r
             e == IF xs = <<>> THEN z ELSE IF n = 0 THEN none
                  ELSE IF Last(xs).at = 0 /\ n <= InlineMax THEN inl ELSE ext
             t == IF z.ok THEN e ELSE z
  <1>1. /\ Typed(w) /\ w.ok = TRUE /\ w.ino = i /\ i \in Inodes
        /\ w.inode = inode /\ w.entries = entries /\ w.cache = Cached(entries, pathCache, p)
    BY FileIs, OpenDoes
  <1>2. inode[i].kind # "none" /\ n \in Nat
    BY FileIs, WordsAssumption
  <1> HIDE DEF w, i
  <1>3. Truncate(Start(bad), p, n) = Forget(t, {p})
    <2>1. Truncate(Start(bad), p, n) =
            IF w.ok THEN
                LET l == w.ino
                    zd == PutInode(w, l, [w.inode[l] EXCEPT !.size = n])
                    nw == Resize(RawWords(Last(zd.extents[l])), n)
                    g == IF zd.extents[l] = <<>> THEN zd
                         ELSE IF n = 0
                         THEN IF zd.bad \in 1 .. Len(zd.extents[l])
                              THEN Torn([zd EXCEPT !.extents[l] = SubSeq(@, 1, Len(@) - zd.bad + 1)])
                              ELSE DeleteExtents(zd, l)
                         ELSE IF Last(zd.extents[l]).at = 0 /\ n <= InlineMax
                         THEN TreeWrite(zd, [zd EXCEPT !.extents[l][Len(zd.extents[l])] = Inline(nw)])
                         ELSE IF NewExtent(zd).ok
                         THEN AddExtent(Unchecked(TreeWrite(NewExtent(zd),
                                            [NewExtent(zd) EXCEPT !.extents[l] = Front(@)])),
                                        l, Min(FreeBlocks(zd)), nw, FALSE)
                         ELSE NewExtent(zd)
                IN  IF w.inode[l].kind = "none" THEN Fail(w)
                    ELSE Forget(IF zd.ok THEN g ELSE zd, {p})
            ELSE w
      BY DEF Truncate, Then, w
    <2>2. z.extents[i] \in Seq(Extent) /\ z.extents \in ExtentMap
      <3>1. Plain(w, z)
        BY <1>1, SizeDoes
      <3> HIDE DEF z
      <3> QED
        BY <1>1, <3>1 DEF Plain, Typed, ExtentMap
    <2> HIDE DEF z
    <2>3. [z EXCEPT !.extents[i][Len(xs)] = Inline(new)] = [z EXCEPT !.extents[i] = [xs EXCEPT ![Len(xs)] = Inline(new)]]
          /\ [z EXCEPT !.extents[i] = SubSeq(@, 1, Len(@) - z.bad + 1)]
                = [z EXCEPT !.extents[i] = SubSeq(xs, 1, Len(xs) - z.bad + 1)]
      OBVIOUS
    <2> QED
      BY <1>1, <1>2, <2>1, <2>3 DEF z
  <1>4. Plain(w, z) /\ Typed(z)
    <2>1. Plain(w, z)
      BY <1>1, SizeDoes
    <2> QED
      BY <2>1 DEF Plain
  <1> HIDE DEF z
  <1>5. xs \in Seq(Extent) /\ Len(xs) \in Nat
    BY <1>1, <1>4 DEF Typed, ExtentMap
  <1> HIDE DEF xs
  <1>6. ASSUME xs # <<>>, z.ok = TRUE PROVE Plain(z, e)
    <2>1. Len(xs) \in 1 .. Len(xs) /\ Len(xs) >= 1
      BY <1>5, <1>6
    <2>2. new \in Seq(Word)
      <3>1. Last(xs) \in Extent
        BY <1>5, <2>1, ElementOfSeq DEF Last
      <3> QED
        BY <1>2, <3>1, RawType, ResizeType
    <2> HIDE DEF new
    <2>3. Plain(z, none)
      <3>1. ASSUME z.bad \in 1 .. Len(xs) PROVE Plain(z, cut)
        <4> DEFINE m == Len(xs) - z.bad + 1
                   v == [z EXCEPT !.extents[i] = SubSeq(xs, 1, m)]
        <4>1. m \in 0 .. Len(xs)
          BY <1>5, <3>1
        <4>2. SubSeq(xs, 1, m) \in Seq(Extent)
          BY <1>5, <2>1, <4>1, FirstOnly
        <4> HIDE DEF m
        <4>3. Typed(v) /\ v.inode = z.inode /\ v.entries = z.entries /\ v.cache = z.cache /\ v.ino = z.ino
          BY <1>1, <1>4, <4>2 DEF Typed, Fields, ExtentMap
        <4> HIDE DEF v
        <4>4. Plain(z, v)
          BY <4>3 DEF Plain, SameNodes
        <4>5. Plain(v, Torn(v))
          BY <4>3, PlainSteps
        <4>6. Plain(z, Torn(v))
          BY <1>4, <4>4, <4>5, PlainThen
        <4> QED
          BY <4>6 DEF v, m
      <3>2. Plain(z, DeleteExtents(z, i))
        <4>1. Quiet(z, DeleteExtents(z, i))
          BY <1>1, <1>4, <1>6, DeleteExtentsDoes
        <4> QED
          BY <1>4, <4>1, PlainSteps
      <3> HIDE DEF cut
      <3> QED
        BY <3>1, <3>2
    <2> HIDE DEF none
    <2>4. Plain(z, inl)
      <3>1. Inline(new) \in Extent
        BY <2>2, InlineType
      <3>2. [xs EXCEPT ![Len(xs)] = Inline(new)] \in Seq(Extent)
        BY <1>5, <2>1, <3>1, ExceptSeq
      <3> QED
        BY <1>1, <1>4, <3>2, ExtentsDoes
    <2> HIDE DEF inl
    <2>5. Plain(z, ext)
      <3>1. Plain(z, r) /\ (r.ok = TRUE => Min(FreeBlocks(z)) \in DataBlocks) /\ r.ok \in BOOLEAN
        BY <1>4, NewExtentDoes
      <3> HIDE DEF r
      <3>2. CASE r.ok = FALSE
        BY <3>1, <3>2
      <3>3. CASE r.ok = TRUE
        <4> DEFINE ys == Front(r.extents[i])
                   u == TreeWrite(r, [r EXCEPT !.extents[i] = ys])
                   b == Min(FreeBlocks(z))
                   g == AddExtent(f, i, b, new, FALSE)
        <4>1. Typed(r) /\ r.extents[i] \in Seq(Extent)
          BY <1>1, <3>1 DEF Plain, Typed, ExtentMap
        <4>2. ys \in Seq(Extent)
          BY <4>1, FrontType
        <4> HIDE DEF ys
        <4>3. Plain(r, u) /\ Typed(u)
          <5>1. Plain(r, u)
            BY <1>1, <4>1, <4>2, ExtentsDoes
          <5> QED
            BY <5>1 DEF Plain
        <4>4. f = Unchecked(u)
          BY DEF ys
        <4> HIDE DEF u, f
        <4>5. Plain(u, f) /\ Typed(f)
          <5>1. Plain(u, f)
            BY <4>3, <4>4, PlainSteps
          <5> QED
            BY <5>1 DEF Plain
        <4>6. b \in DataBlocks /\ ext = g
          BY <3>1, <3>3
        <4> HIDE DEF b
        <4>7. Plain(f, g)
          BY <1>1, <2>2, <4>5, <4>6, AddExtentDoes
        <4> HIDE DEF g
        <4>8. Plain(z, u)
          BY <1>4, <3>1, <4>3, PlainThen
        <4>9. Plain(z, f)
          BY <1>4, <4>5, <4>8, PlainThen
        <4>10. Plain(z, g)
          BY <1>4, <4>7, <4>9, PlainThen
        <4> QED
          BY <4>6, <4>10
      <3> QED
        BY <3>1, <3>2, <3>3
    <2> HIDE DEF ext
    <2> QED
      BY <1>6, <2>3, <2>4, <2>5
  <1>7. CASE z.ok = TRUE /\ xs # <<>>
    <2> HIDE DEF e
    <2>1. Plain(w, e)
      BY <1>1, <1>4, <1>6, <1>7, PlainThen
    <2>2. t = e
      BY <1>7
    <2> HIDE DEF t
    <2>3. Touched(Forget(t, {p}), p)
      BY <1>1, <2>1, <2>2, PlainTouches
    <2> QED
      BY <1>3, <2>3
  <1>8. CASE ~(z.ok = TRUE /\ xs # <<>>)
    <2>1. z.ok \in BOOLEAN
      BY <1>4 DEF Typed
    <2>2. t = z
      BY <1>8, <2>1
    <2> HIDE DEF t
    <2>3. Touched(Forget(t, {p}), p)
      BY <1>1, <1>4, <2>2, PlainTouches
    <2> QED
      BY <1>3, <2>3
  <1> QED
    BY <1>7, <1>8

\* Chmod makes the inode of p one that is no directory.
LEMMA ChmodDoes ==
    ASSUME StateOK, Weak(inode, entries), NEW bad \in Nat, NEW p \in Paths
    PROVE  LET t == Chmod(Start(bad), p)
               i == Found(entries, pathCache, p)
           IN  /\ Good(t) /\ t.entries = entries /\ Within(t.cache, Cached(entries, pathCache, p))
               /\ \/ t.inode = inode
                  \/ /\ i \in Inodes /\ i # 0 /\ inode[i].kind # "none"
                     /\ t.inode = [inode EXCEPT ![i] = [inode[i] EXCEPT !.kind = "other"]]
  <1> DEFINE s == Start(bad)
             w == resolvePath(s, p)
             i == Found(entries, pathCache, p)
             r == [inode[i] EXCEPT !.kind = "other"]
             J == [inode EXCEPT ![i] = r]
             u == PutInode(w, i, r)
             t == Chmod(s, p)
  <1>1. /\ Typed(s) /\ s.ok = TRUE /\ s.torn = FALSE /\ s.inode = inode /\ s.entries = entries /\ s.cache = pathCache
    BY StartTyped
  <1> HIDE DEF s
  <1>2. Resolves(s, w, p)
    BY <1>1, ResolveDoes
  <1> HIDE DEF w
  <1>3. /\ Typed(w) /\ w.inode = inode /\ w.entries = entries /\ w.cache = Cached(entries, pathCache, p)
        /\ w.ok = (i # 0) /\ (i # 0 => w.ino = i /\ i \in Inodes)
    BY <1>1, <1>2 DEF Resolves
  <1>4. Within(w.cache, w.cache) /\ Good(w)
    BY <1>3, WithinItself DEF Typed, Good
  <1> HIDE DEF i
  <1>5. t = IF i = 0 THEN w ELSE IF inode[i].kind = "none" THEN Fail(w) ELSE u
    <2>1. t = IF w.ok THEN IF w.inode[w.ino].kind = "none" THEN Fail(w)
                           ELSE PutInode(w, w.ino, [w.inode[w.ino] EXCEPT !.kind = "other"])
              ELSE w
      BY DEF Chmod, Then, w
    <2> QED
      BY <1>3, <2>1
  <1> HIDE DEF t
  <1>6. CASE t = w
    BY <1>3, <1>4, <1>6 DEF t, s, i
  <1>7. CASE t = Fail(w)
    <2>1. Good(t) /\ t.inode = inode /\ t.entries = entries /\ t.cache = w.cache
      BY <1>3, <1>4, <1>7, FailTyped DEF Good
    <2> QED
      BY <1>3, <1>4, <2>1 DEF t, s, i
  <1>8. CASE i # 0 /\ inode[i].kind # "none" /\ t = u
    <2>1. inode \in Table /\ inode[i] \in Record /\ i \in Inodes
      BY <1>3, <1>8 DEF StateOK, Table
    <2>2. r \in Record /\ r.kind = "other" /\ r.nlink = inode[i].nlink
      BY <2>1 DEF Record
    <2>3. Weak(J, entries)
      <3>1. Count(entries, i) <= r.nlink
        BY <2>1, <2>2 DEF Weak
      <3> HIDE DEF r
      <3> QED
        BY <2>1, <2>2, <3>1, WeakPut
    <2>4. Step(w, u, J, entries)
      <3> HIDE DEF r
      <3> QED
        BY <1>3, <2>1, <2>2, PutInodeDoes
    <2> HIDE DEF r, J, u
    <2>5. Good(t) /\ t.entries = entries /\ t.cache = w.cache /\ (t.inode = inode \/ t.inode = J)
      <3>1. Good(u)
        BY <1>4, <2>3, <2>4, StepGood
      <3> QED
        BY <1>3, <1>8, <2>4, <3>1 DEF Step
    <2> QED
      BY <1>3, <1>4, <1>8, <2>1, <2>5 DEF t, s, i, J, r
  <1> QED
    BY <1>5, <1>6, <1>7, <1>8

-----------------------------------------------------------------------------
(* What the operations keep while no write has failed *)

\* Strong, but for the count of inode i.
Nearly(I, E, i) ==
    /\ \A d \in Inodes, n \in Names : Look(E, d, n) # 0 => I[d].kind = "dir" /\ Look(E, d, n) # Root
    /\ \A j \in Inodes : I[j].kind = "dir" => I[j].nlink <= 1
    /\ I[Root].kind = "dir"
    /\ \A j \in Inodes : j # i => Count(E, j) \in {0, I[j].nlink}

LEMMA StrongSame ==
    ASSUME NEW I, NEW J, SameNodes(I, J), NEW E, Strong(I, E)
    PROVE  Strong(J, E)
  BY InodeFacts DEF Strong, SameNodes

\* A name for an inode that lacks one.
LEMMA StrongNamed ==
    ASSUME NEW I, NEW E, NEW i \in Inodes, Nearly(I, E, i), i # Root, Count(E, i) + 1 = I[i].nlink,
           NEW d \in Inodes, NEW n \in Names, Look(E, d, n) = 0, I[d].kind = "dir",
           NEW F, Differs(E, F, d, n, i)
    PROVE  Strong(I, F)
  <1>1. \A x \in Inodes, y \in Names : Look(F, x, y) # 0 => I[x].kind = "dir" /\ Look(F, x, y) # Root
    BY DEF Differs, Nearly
  <1>2. ASSUME NEW j \in Inodes PROVE Count(F, j) \in {0, I[j].nlink}
    <2>1. Count(F, j) = IF j = i THEN Count(E, j) + 1 ELSE Count(E, j)
      BY CountAdded
    <2> QED
      BY <2>1 DEF Nearly
  <1> QED
    BY <1>1, <1>2 DEF Strong, Nearly

\* Inodes J have, next to inodes I, an inode i of that kind with one name to come.
Grown(I, J, i, kind) ==
    /\ J[i].kind = kind /\ J[i].nlink = 1
    /\ \A j \in Inodes : j # i => J[j].kind = I[j].kind /\ J[j].nlink = I[j].nlink

\* A new inode.
LEMMA StrongNew ==
    ASSUME NEW I \in Table, NEW E, Weak(I, E), Strong(I, E), NEW i \in Inodes, I[i].kind = "none",
           NEW kind \in {"dir", "other"}, NEW J, Grown(I, J, i, kind)
    PROVE  Strong(J, E) /\ Nearly(J, E, i) /\ Count(E, i) + 1 = J[i].nlink /\ i # Root
           /\ \A d \in Inodes : I[d].kind = "dir" => J[d].kind = "dir"
  <1>1. i # Root
    BY DEF Strong
  <1>2. J[i].kind = kind /\ J[i].nlink = 1 /\ \A j \in Inodes : j # i => J[j].kind = I[j].kind /\ J[j].nlink = I[j].nlink
    BY DEF Grown
  <1>3. Count(E, i) = 0
    BY UnusedHasNoNames
  <1>4. \A d \in Inodes : I[d].kind = "dir" => d # i /\ J[d].kind = "dir"
    BY <1>2
  <1>5. \A d \in Inodes, n \in Names : Look(E, d, n) # 0 => J[d].kind = "dir" /\ Look(E, d, n) # Root
    BY <1>4 DEF Strong
  <1>6. \A j \in Inodes : J[j].kind = "dir" => J[j].nlink <= 1
    BY <1>2 DEF Strong
  <1>7. J[Root].kind = "dir"
    BY <1>1, <1>2, InodeFacts DEF Strong
  <1>8. \A j \in Inodes : Count(E, j) \in {0, J[j].nlink}
    BY <1>2, <1>3 DEF Strong
  <1> QED
    BY <1>1, <1>2, <1>3, <1>4, <1>5, <1>6, <1>7, <1>8 DEF Strong, Nearly

LEMMA LessOf ==
    ASSUME NEW r \in Record, r.nlink # 0
    PROVE  /\ Less(r) \in Record /\ Less(r).nlink = r.nlink - 1 /\ r.nlink \in Nat /\ Less(r).nlink \in Nat
           /\ Less(r).kind = IF r.nlink > 1 THEN r.kind ELSE "none"
  <1>1. r.nlink \in Nat /\ r.nlink > 0
    BY DEF Record
  <1>2. CASE r.nlink - 1 > 0
    BY <1>1, <1>2 DEF Less, Record
  <1>3. CASE ~(r.nlink - 1 > 0)
    BY <1>1, <1>3, WordsAssumption DEF Less, Record, NoInode
  <1> QED
    BY <1>2, <1>3

\* Inode i leads nowhere.
Leaf(E, i) == \A z \in Names : Look(E, i, z) = 0

LEMMA LeafIs ==
    ASSUME NEW I, NEW E, Strong(I, E), NEW i \in Inodes, I[i].kind # "dir"
    PROVE  Leaf(E, i)
  BY DEF Strong, Leaf

\* A name goes, and with the last one the inode.
LEMMA StrongDropped ==
    ASSUME NEW I \in Table, NEW E, Weak(I, E), Strong(I, E), NEW d \in Inodes, NEW n \in Names,
           Look(E, d, n) # 0, Leaf(E, Look(E, d, n)), NEW F, Differs(E, F, d, n, 0)
    PROVE  LET J == Dropped(I, Look(E, d, n))
           IN  /\ Strong(J, F) /\ J \in Table
               /\ \A x \in Inodes : x # Look(E, d, n) => J[x] = I[x]
  <1> DEFINE i == Look(E, d, n)
             J == Dropped(I, i)
  <1>1. i \in Inodes /\ i # Root /\ Count(E, i) # 0 /\ I[i] \in Record
    BY NamedCounts DEF Weak, Strong, Table
  <1>2. Count(E, i) = I[i].nlink /\ Count(E, i) \in Nat
    BY <1>1, CountType DEF Strong
  <1>3. /\ Less(I[i]) \in Record /\ Less(I[i]).nlink = I[i].nlink - 1
        /\ Less(I[i]).kind = IF I[i].nlink > 1 THEN I[i].kind ELSE "none"
    BY <1>1, <1>2, LessOf
  <1>4. J[i] = Less(I[i]) /\ (\A j \in Inodes : j # i => J[j] = I[j]) /\ J \in Table
    BY <1>1, <1>3 DEF Dropped, Table
  <1>5. \A j \in Inodes : Count(F, j) = IF j = i THEN Count(E, j) - 1 ELSE Count(E, j)
    BY CountRemoved
  <1> HIDE DEF J
  <1>6. ASSUME NEW x \in Inodes, NEW y \in Names, Look(F, x, y) # 0
        PROVE  J[x].kind = "dir" /\ Look(F, x, y) # Root
    <2>1. Look(F, x, y) = Look(E, x, y)
      BY <1>6 DEF Differs
    <2>2. x # i
      BY <1>6, <2>1 DEF Leaf
    <2> QED
      BY <1>4, <1>6, <2>1, <2>2 DEF Strong
  <1> HIDE DEF i
  <1>7. ASSUME NEW j \in Inodes, J[j].kind = "dir" PROVE J[j].nlink <= 1
    <2>1. CASE j = i
      <3>1. I[i].nlink > 1 /\ I[i].kind = "dir"
        BY <1>3, <1>4, <1>7, <2>1
      <3>2. I[i].nlink <= 1 /\ I[i].nlink \in Nat
        BY <1>1, <1>2, <3>1 DEF Strong
      <3> QED
        BY <3>1, <3>2
    <2>2. CASE j # i
      BY <1>4, <1>7, <2>2 DEF Strong
    <2> QED
      BY <2>1, <2>2
  <1>8. J[Root].kind = "dir"
    BY <1>1, <1>4, InodeFacts DEF Strong
  <1>9. ASSUME NEW j \in Inodes PROVE Count(F, j) \in {0, J[j].nlink}
    <2>1. CASE j = i
      BY <1>2, <1>3, <1>4, <1>5, <2>1
    <2>2. CASE j # i
      BY <1>4, <1>5, <2>2 DEF Strong
    <2> QED
      BY <2>1, <2>2
  <1>10. Strong(J, F)
    BY <1>6, <1>7, <1>8, <1>9 DEF Strong
  <1> QED
    BY <1>4, <1>10 DEF i, J

\* A name moves.
LEMMA StrongMoved ==
    ASSUME NEW I \in Table, NEW E, Weak(I, E), Strong(I, E), NEW d \in Inodes, NEW n \in Names, NEW e \in Inodes,
           NEW m \in Names, Look(E, d, n) # 0, Look(E, e, m) = 0, I[e].kind = "dir",
           NEW F, Differs(E, F, d, n, 0), NEW G, Differs(F, G, e, m, Look(E, d, n))
    PROVE  Strong(I, G)
  <1> DEFINE i == Look(E, d, n)
  <1>1. i \in Inodes /\ i # Root /\ Count(E, i) # 0
    BY NamedCounts DEF Weak, Strong
  <1>2. Count(E, i) = I[i].nlink /\ Count(E, i) \in Nat
    BY <1>1, CountType DEF Strong
  <1>3. \A j \in Inodes : Count(F, j) = IF j = i THEN Count(E, j) - 1 ELSE Count(E, j)
    BY CountRemoved
  <1>4. \A x \in Inodes, y \in Names : Look(F, x, y) # 0 => Look(F, x, y) = Look(E, x, y)
    BY DEF Differs
  <1>5. Look(F, e, m) = 0
    BY DEF Differs
  <1> HIDE DEF i
  <1>6. Nearly(I, F, i)
    <2>1. \A x \in Inodes, y \in Names : Look(F, x, y) # 0 => I[x].kind = "dir" /\ Look(F, x, y) # Root
      BY <1>4 DEF Strong
    <2>2. \A j \in Inodes : j # i => Count(F, j) \in {0, I[j].nlink}
      BY <1>3 DEF Strong
    <2> QED
      BY <2>1, <2>2 DEF Strong, Nearly
  <1>7. Count(F, i) + 1 = I[i].nlink
    BY <1>1, <1>2, <1>3
  <1>8. Differs(F, G, e, m, i)
    BY DEF i
  <1> QED
    BY <1>1, <1>5, <1>6, <1>7, <1>8, StrongNamed

\* A new name leaves cached paths current.
LEMMA CurrentAdded ==
    ASSUME NEW E, IsEntries(E), NEW d \in Inodes, NEW n \in Names, NEW i, Look(E, d, n) = 0,
           NEW F, Differs(E, F, d, n, i), NEW C, IsCache(C), Current(E, C), NEW D, Within(D, C)
    PROVE  Current(F, D)
  <1> DEFINE X == {<<d, n>>}
  <1>1. LeafChange(E, F, X)
    BY DEF LeafChange, Differs
  <1>2. ASSUME NEW p \in DOMAIN D, p # <<>>, <<Walk(E, Front(p)), Last(p)>> \in X PROVE FALSE
    <2>1. p \in Paths /\ Walk(E, p) = C[p] /\ C[p] \in Inodes
      BY DEF Within, IsCache, Current
    <2>2. Walk(E, Front(p)) = d /\ Last(p) = n
      BY <1>2
    <2>3. Walk(E, p) = IF Walk(E, Front(p)) = 0 THEN 0 ELSE Look(E, Walk(E, Front(p)), Last(p))
      BY <1>2, <2>1, WalkLast
    <2>4. Walk(E, p) = 0
      BY <2>2, <2>3
    <2> QED
      BY <2>1, <2>4, InodeFacts
  <1> HIDE DEF X
  <1> QED
    BY <1>1, <1>2, CurrentAfter

\* So does the end of a name that leads to no directory with names, if its path is forgotten.
LEMMA CurrentRemoved ==
    ASSUME NEW I \in Table, NEW E, Weak(I, E), Strong(I, E), NEW p \in Paths, p # <<>>,
           NEW d \in Inodes, d = Walk(E, Front(p)), I[d].kind = "dir", NEW n \in Names, n = Last(p),
           Look(E, d, n) # 0 => Leaf(E, Look(E, d, n)),
           NEW F, Differs(E, F, d, n, 0), NEW C, IsCache(C), Current(E, C), NEW D, Within(D, C), p \notin DOMAIN D
    PROVE  Current(F, D)
  <1> DEFINE X == {<<d, n>>}
  <1>1. LeafChange(E, F, X)
    BY DEF LeafChange, Differs, Leaf, Weak
  <1>2. ASSUME NEW q \in DOMAIN D, q # <<>>, <<Walk(E, Front(q)), Last(q)>> \in X PROVE FALSE
    <2>1. q \in Paths
      BY DEF Within, IsCache
    <2>2. Walk(E, Front(q)) = d /\ Last(q) = n
      BY <1>2
    <2>3. Front(q) \in Paths /\ Front(p) \in Paths
      BY <1>2, <2>1, PathParts
    <2>4. Front(q) = Front(p)
      BY <2>2, <2>3, UniquePath, InodeFacts
    <2>5. q = p
      BY <1>2, <2>1, <2>2, <2>4, SameParts
    <2> QED
      BY <1>2, <2>5
  <1> HIDE DEF X
  <1> QED
    BY <1>1, <1>2, CurrentAfter

-----------------------------------------------------------------------------
(* The inductive invariant *)

Bounded(I) == \A i \in Inodes : I[i].nlink <= MaxLinks

\* No calls beyond those the driver handles, as far as names are concerned.
Handled == "rename" \notin Beyond /\ "chmod" \notin Beyond

\* What holds until a write fails.
Whole == Strong(inode, entries) /\ Current(entries, pathCache)

Inv ==
    /\ StateOK /\ Bounded(inode) /\ Weak(inode, entries) /\ failed \in BOOLEAN /\ lost = FALSE
    /\ Handled /\ ~failed => Whole

\* What is left when a split was cut short.
Ruin == StateOK /\ Bounded(inode) /\ failed = TRUE /\ lost = TRUE

\* Entries F are E after one step of NameMaps.
Named(E, F, d, n, i) ==
    Look(E, d, n) = 0 /\ i # Root /\ i # d /\ Leaf(E, i) /\ Differs(E, F, d, n, i)
Unnamed(E, F, d, n) ==
    Look(E, d, n) # 0 /\ Leaf(E, Look(E, d, n)) /\ Differs(E, F, d, n, 0)
Moved(E, F, d, n, e, m) ==
    /\ Look(E, d, n) # 0 /\ <<d, n>> # <<e, m>>
    /\ Look(E, e, m) # 0 => Leaf(E, Look(E, e, m))
    /\ IsEntries(F) /\ NoDoubles(F)
    /\ \A x \in Inodes, y \in Names :
            Look(F, x, y) = IF x = e /\ y = m THEN Look(E, d, n)
                            ELSE IF x = d /\ y = n THEN 0 ELSE Look(E, x, y)
MapStep(E, F) ==
    \/ E = F
    \/ \E d \in Inodes, n \in Names :
        \/ \E i \in Inodes : Named(E, F, d, n, i)
        \/ Unnamed(E, F, d, n)
        \/ \E e \in Inodes, m \in Names : Moved(E, F, d, n, e, m)

\* s is the result of an operation that keeps the invariant.
After(s) ==
    /\ Good(s) /\ Bounded(s.inode)
    /\ Handled /\ ~failed /\ s.torn = FALSE =>
            Strong(s.inode, s.entries) /\ Current(s.entries, s.cache) /\ MapStep(entries, s.entries)

LEMMA CutRuin ==
    ASSUME StateOK, NEW s, Typed(s), Bounded(s.inode), Cut(s),
           taken' = s.taken, pathCache' = s.cache, listed' = listed
    PROVE  Ruin'
  <1>1. PICK i \in Inodes, j \in Inodes :
            /\ inode' = [k \in Inodes |-> IF k \in i + 1 .. j THEN NoInode ELSE s.inode[k]]
            /\ entries' = [k \in Inodes |-> IF k \in i .. j THEN <<>> ELSE s.entries[k]]
            /\ extents' = [k \in Inodes |-> IF k \in i .. j THEN <<>> ELSE s.extents[k]]
    BY DEF Cut
  <1>2. s.inode \in Table /\ IsEntries(s.entries) /\ s.extents \in ExtentMap /\ s.taken \subseteq DataBlocks
        /\ IsCache(s.cache)
    BY DEF Typed
  <1>3. NoInode \in Record /\ NoInode.nlink <= MaxLinks
    BY RootAssumption, WordsAssumption DEF Record, NoInode
  <1>4. inode' \in Table
    BY <1>1, <1>2, <1>3 DEF Table
  <1>5. Bounded(inode')
    <2>1. ASSUME NEW k \in Inodes PROVE inode'[k] = NoInode \/ inode'[k] = s.inode[k]
      BY <1>1
    <2> QED
      BY <1>3, <2>1 DEF Bounded
  <1>6. IsEntries(entries')
    BY <1>1, <1>2 DEF IsEntries
  <1>7. extents' \in ExtentMap
    BY <1>1, <1>2 DEF ExtentMap
  <1>8. taken' \subseteq DataBlocks /\ IsCache(pathCache') /\ DOMAIN listed' \subseteq Names
    BY <1>2 DEF StateOK
  <1>9. StateOK'
    BY <1>4, <1>6, <1>7, <1>8 DEF StateOK, IsEntries, IsCache, Table, Record, ExtentMap, Extent, Entry, Word, Paths
  <1>10. Bounded(inode)'
    BY <1>5 DEF Bounded
  <1> QED
    BY <1>9, <1>10 DEF Ruin, Cut

LEMMA FinishInv ==
    ASSUME Inv, NEW s, After(s), Finish(s)
    PROVE  (Inv' \/ Ruin') /\ (Handled /\ ~failed' => MapStep(entries, entries'))
  <1>0. StateOK /\ lost = FALSE
    BY DEF Inv
  <1>2. Typed(s) /\ Weak(s.inode, s.entries) /\ Bounded(s.inode) /\ s.torn \in BOOLEAN
    BY DEF After, Good, Typed
  <1>a. CASE Cut(s)
    <2>1. Ruin' /\ failed' = TRUE
      BY <1>0, <1>2, <1>a, CutRuin DEF Finish, Ruin
    <2> QED
      BY <2>1
  <1>b. CASE /\ inode' = s.inode /\ entries' = s.entries /\ extents' = s.extents
             /\ failed' = (failed \/ s.torn) /\ lost' = lost
    <2>1. /\ inode' = s.inode /\ entries' = s.entries /\ extents' = s.extents /\ taken' = s.taken
          /\ pathCache' = s.cache /\ listed' = listed /\ failed' = (failed \/ s.torn) /\ lost' = FALSE
      BY <1>0, <1>b DEF Finish
    <2>3. StateOK'
      BY <1>0, <1>2, <2>1 DEF StateOK, Typed, IsEntries, IsCache, Table, Record, ExtentMap, Extent, Entry, Word, Paths
    <2>4. Weak(inode, entries)'
      BY <1>2, <2>1
    <2>5. Bounded(inode)'
      BY <1>2, <2>1 DEF Bounded
    <2>6. failed' \in BOOLEAN /\ (~failed' => ~failed /\ s.torn = FALSE)
      BY <1>2, <2>1 DEF Inv
    <2>7. ASSUME Handled, ~failed' PROVE Whole' /\ MapStep(entries, entries')
      <3>1. Strong(s.inode, s.entries) /\ Current(s.entries, s.cache) /\ MapStep(entries, s.entries)
        BY <2>6, <2>7 DEF After
      <3> QED
        BY <2>1, <3>1 DEF Whole
    <2> QED
      BY <2>1, <2>3, <2>4, <2>5, <2>6, <2>7 DEF Inv, Handled
  <1> QED
    BY <1>a, <1>b DEF Finish

LEMMA InitInv ==
    ASSUME Init
    PROVE  Inv
  <1>1. inode = [i \in Inodes |-> IF i = Root THEN [kind |-> "dir", nlink |-> 1, size |-> 0] ELSE NoInode]
        /\ entries = [i \in Inodes |-> <<>>] /\ extents = [i \in Inodes |-> <<>>] /\ taken = {}
        /\ pathCache = <<>> /\ listed = <<>> /\ failed = FALSE /\ lost = FALSE
    BY DEF Init
  <1>2. DOMAIN pathCache = {} /\ DOMAIN listed = {}
    BY <1>1
  <1>3. inode \in Table /\ Bounded(inode)
    BY <1>1, RootAssumption, WordsAssumption DEF Table, Record, NoInode, Bounded
  <1>4. IsEntries(entries) /\ extents \in ExtentMap
    BY <1>1 DEF IsEntries, ExtentMap
  <1>5. StateOK
    BY <1>1, <1>2, <1>3, <1>4 DEF StateOK, IsCache
  <1>6. NoDoubles(entries)
    BY <1>1 DEF NoDoubles
  <1>7. \A d \in Inodes, n \in Names : Look(entries, d, n) = 0
    BY <1>1, <1>4, EmptyLooks
  <1>8. ASSUME NEW i \in Inodes PROVE Count(entries, i) = 0
    <2>1. NamesIn(entries, i) = {}
      <3>1. ASSUME NEW x \in NamesIn(entries, i) PROVE FALSE
        BY <1>7, <3>1, InodeFacts DEF NamesIn
      <3> QED
        BY <3>1
    <2> QED
      BY <2>1, CountType
  <1>9. Weak(inode, entries)
    BY <1>3, <1>4, <1>6, <1>7, <1>8 DEF Weak, Table, Record
  <1>10. Strong(inode, entries)
    BY <1>1, <1>7, <1>8, InodeFacts DEF Strong, NoInode
  <1>11. Current(entries, pathCache)
    BY <1>2 DEF Current
  <1> QED
    BY <1>1, <1>3, <1>5, <1>9, <1>10, <1>11 DEF Inv, Whole

\* What a path leads to before a write has failed.
LEMMA WholeFacts ==
    ASSUME Inv
    PROVE  /\ StateOK /\ Weak(inode, entries) /\ IsEntries(entries) /\ NoDoubles(entries) /\ inode \in Table
           /\ IsCache(pathCache) /\ Bounded(inode)
           /\ Handled /\ ~failed =>
                /\ Strong(inode, entries) /\ Current(entries, pathCache)
                /\ \A p \in Paths : Found(entries, pathCache, p) = Walk(entries, p)
                /\ \A p \in Paths : /\ IsCache(Cached(entries, pathCache, p))
                                    /\ Current(entries, Cached(entries, pathCache, p))
                /\ \A p, q \in Paths :
                        /\ IsCache(Cached(entries, Cached(entries, pathCache, p), q))
                        /\ Current(entries, Cached(entries, Cached(entries, pathCache, p), q))
  <1>1. StateOK /\ Weak(inode, entries) /\ IsEntries(entries) /\ NoDoubles(entries) /\ inode \in Table
        /\ IsCache(pathCache) /\ Bounded(inode)
    BY DEF Inv, Weak, StateOK
  <1>2. ASSUME Handled, ~failed
        PROVE  /\ Strong(inode, entries) /\ Current(entries, pathCache)
               /\ \A p \in Paths : Found(entries, pathCache, p) = Walk(entries, p)
               /\ \A p \in Paths : /\ IsCache(Cached(entries, pathCache, p))
                                   /\ Current(entries, Cached(entries, pathCache, p))
    BY <1>1, <1>2, CachedType DEF Inv, Whole
  <1>3. ASSUME Handled, ~failed, NEW p \in Paths, NEW q \in Paths
        PROVE  /\ IsCache(Cached(entries, Cached(entries, pathCache, p), q))
               /\ Current(entries, Cached(entries, Cached(entries, pathCache, p), q))
    BY <1>1, <1>2, <1>3, CachedType
  <1> QED
    BY <1>1, <1>2, <1>3

LEMMA CurrentWithin ==
    ASSUME NEW E, NEW C, Current(E, C), NEW D, Within(D, C)
    PROVE  Current(E, D)
  BY DEF Current, Within

LEMMA BoundedSame ==
    ASSUME NEW I, NEW J, SameNodes(I, J), Bounded(I)
    PROVE  Bounded(J)
  BY DEF SameNodes, Bounded

LEMMA BoundedDropped ==
    ASSUME NEW I \in Table, Bounded(I), NEW i \in Inodes
    PROVE  Bounded(Dropped(I, i))
  <1>1. I[i] \in Record /\ I[i].nlink \in Nat /\ I[i].nlink <= MaxLinks /\ MaxLinks \in Nat
    BY RootAssumption DEF Table, Record, Bounded
  <1>2. Less(I[i]).nlink <= MaxLinks
    <2>1. CASE I[i].nlink - 1 > 0
      <3>1. Less(I[i]) = [I[i] EXCEPT !.nlink = I[i].nlink - 1]
        BY <2>1 DEF Less
      <3>2. Less(I[i]).nlink = I[i].nlink - 1
        BY <1>1, <3>1 DEF Record
      <3> QED
        BY <1>1, <3>2
    <2>2. CASE ~(I[i].nlink - 1 > 0)
      BY <1>1, <2>2 DEF Less, NoInode
    <2> QED
      BY <2>1, <2>2
  <1>3. Dropped(I, i)[i] = Less(I[i]) /\ \A j \in Inodes : j # i => Dropped(I, i)[j] = I[j]
    BY DEF Dropped, Table
  <1> HIDE DEF Dropped
  <1> QED
    BY <1>2, <1>3 DEF Bounded

-----------------------------------------------------------------------------
(* Each operation keeps it *)

LEMMA MadeAfter ==
    ASSUME Inv, NEW p \in Paths, InDirectory(p), New \in Inodes, NEW kind \in {"dir", "other"},
           NEW t, Made(t, p, kind)
    PROVE  After(t)
  <1> DEFINE d == Found(entries, pathCache, Front(p))
             n == Last(p)
             J == [inode EXCEPT ![New] = NewRecord(kind)]
             C == Cached(entries, pathCache, Front(p))
  <1>1. /\ StateOK /\ Weak(inode, entries) /\ IsEntries(entries) /\ inode \in Table /\ Bounded(inode)
        /\ Handled /\ ~failed => /\ Strong(inode, entries) /\ Current(entries, pathCache)
                                 /\ \A q \in Paths : IsCache(Cached(entries, pathCache, q))
                                                     /\ Current(entries, Cached(entries, pathCache, q))
    BY WholeFacts
  <1>2. Front(p) \in Paths /\ n \in Names /\ d \in Inodes /\ inode[d].kind = "dir"
    BY <1>1, DirectoryIs
  <1>3. inode[New].kind = "none"
    <2>1. Typed(Start(0)) /\ Start(0).inode = inode
      BY <1>1, StartTyped
    <2>2. inode[d].kind # "none"
      BY <1>2
    <2> HIDE DEF d
    <2> QED
      BY <1>2, <2>1, <2>2, NewIsUnused DEF New
  <1>4. /\ Good(t)
        /\ (t.torn = TRUE /\ t.inode = inode) \/ SameNodes(J, t.inode)
        /\ t.torn = TRUE
           \/ /\ SameNodes(J, t.inode) /\ Within(t.cache, C)
              /\ t.entries = entries \/ (Look(entries, d, n) = 0 /\ Differs(entries, t.entries, d, n, New))
    BY DEF Made
  <1> HIDE DEF d, n, C
  <1>5. Bounded(t.inode)
    <2>1. Bounded(J)
      BY <1>1, RootAssumption DEF Bounded, NewRecord, Table
    <2> HIDE DEF J
    <2> QED
      BY <1>1, <1>4, <2>1, BoundedSame
  <1>6. ASSUME Handled, ~failed, t.torn = FALSE
        PROVE  Strong(t.inode, t.entries) /\ Current(t.entries, t.cache) /\ MapStep(entries, t.entries)
    <2>1. SameNodes(J, t.inode) /\ Within(t.cache, C) /\ Strong(inode, entries) /\ IsCache(C) /\ Current(entries, C)
      BY <1>1, <1>2, <1>4, <1>6 DEF C
    <2>2. /\ Strong(t.inode, entries) /\ Nearly(t.inode, entries, New) /\ Count(entries, New) + 1 = t.inode[New].nlink
          /\ New # Root /\ \A x \in Inodes : inode[x].kind = "dir" => t.inode[x].kind = "dir"
      <3>1. Grown(inode, t.inode, New, kind)
        BY <1>1, <2>1 DEF SameNodes, Table, NewRecord, Grown
      <3>2. inode \in Table /\ Weak(inode, entries) /\ Strong(inode, entries) /\ SameNodes(J, t.inode)
        BY <1>1, <2>1
      <3> HIDE DEF J
      <3> QED
        BY <1>3, <3>1, <3>2, StrongNew
    <2>3. CASE t.entries = entries
      BY <2>1, <2>2, <2>3, CurrentWithin DEF MapStep
    <2>4. CASE Look(entries, d, n) = 0 /\ Differs(entries, t.entries, d, n, New)
      <3>1. Strong(t.inode, t.entries)
        BY <1>2, <2>2, <2>4, StrongNamed
      <3>2. Current(t.entries, t.cache)
        BY <1>1, <1>2, <2>1, <2>4, CurrentAdded
      <3>3. New # d /\ Leaf(entries, New)
        BY <1>2, <1>3, <2>1, LeafIs
      <3>4. Named(entries, t.entries, d, n, New)
        BY <2>2, <2>4, <3>3 DEF Named
      <3> QED
        BY <1>2, <3>1, <3>2, <3>4 DEF MapStep
    <2> QED
      BY <1>4, <1>6, <2>3, <2>4
  <1> QED
    BY <1>4, <1>5, <1>6 DEF After

LEMMA LinkedAfter ==
    ASSUME Inv, NEW q \in Paths, NEW p \in Paths, Kind(q) # "none", InDirectory(p),
           NEW t, Linked(t, q, p), Bounded(t.inode)
    PROVE  After(t)
  <1> DEFINE i == Found(entries, pathCache, q)
             d == Found(entries, pathCache, Front(p))
             n == Last(p)
             J == [inode EXCEPT ![i] = OneMore(inode[i])]
             C == Cached(entries, pathCache, q)
             D == Cached(entries, C, Front(p))
  <1>1. /\ StateOK /\ Weak(inode, entries) /\ IsEntries(entries) /\ inode \in Table
    BY WholeFacts
  <1>2. Front(p) \in Paths /\ n \in Names /\ d \in Inodes /\ inode[d].kind = "dir"
    BY <1>1, DirectoryIs
  <1>3. i \in Inodes \union {0} /\ i # 0
    BY <1>1, FoundType, KindIs DEF StateOK
  <1>4. /\ Good(t)
        /\ t.torn = TRUE
           \/ /\ Within(t.cache, D) \/ Within(t.cache, C)
              /\ \/ t.inode = inode /\ t.entries = entries
                 \/ /\ inode[i].kind # "dir" /\ t.inode = J
                    /\ Look(entries, d, n) = 0 /\ Differs(entries, t.entries, d, n, i)
    BY DEF Linked
  <1>5. ASSUME Handled, ~failed, t.torn = FALSE
        PROVE  Strong(t.inode, t.entries) /\ Current(t.entries, t.cache) /\ MapStep(entries, t.entries)
    <2>1. Strong(inode, entries) /\ IsCache(C) /\ Current(entries, C) /\ IsCache(D) /\ Current(entries, D)
          /\ i = Walk(entries, q)
      BY <1>2, <1>5, WholeFacts
    <2> HIDE DEF C, D
    <2>2. CASE t.inode = inode /\ t.entries = entries
      BY <1>4, <1>5, <2>1, <2>2, CurrentWithin DEF MapStep
    <2>3. CASE /\ inode[i].kind # "dir" /\ t.inode = J
               /\ Look(entries, d, n) = 0 /\ Differs(entries, t.entries, d, n, i)
      <3>1. i \in Inodes /\ inode[i] \in Record /\ i # Root /\ i # d
        BY <1>1, <1>2, <1>3, <2>1, <2>3 DEF Strong, Table
      <3>2. q # <<>>
        BY <1>1, <2>1, <3>1, WalkEmpty
      <3>3. Front(q) \in Paths /\ Last(q) \in Names
        BY <3>2, PathParts
      <3>4. Walk(entries, Front(q)) \in Inodes /\ i = Look(entries, Walk(entries, Front(q)), Last(q))
        <4>1. Walk(entries, q) = IF Walk(entries, Front(q)) = 0 THEN 0
                                 ELSE Look(entries, Walk(entries, Front(q)), Last(q))
          BY <1>1, <3>2, WalkLast
        <4>2. Walk(entries, Front(q)) \in Inodes \union {0}
          BY <1>1, <3>3, WalkType
        <4> QED
          BY <1>3, <2>1, <4>1, <4>2
      <3>5. Count(entries, i) # 0
        BY <1>1, <1>3, <3>4, NamedCounts
      <3>6. Count(entries, i) = inode[i].nlink /\ inode[i].nlink \in Nat
        BY <2>1, <3>1, <3>5 DEF Strong, Record
      <3>7. /\ t.inode[i].nlink = inode[i].nlink + 1 /\ t.inode[i].kind = inode[i].kind
            /\ \A j \in Inodes : j # i => t.inode[j] = inode[j]
        BY <1>1, <2>3, <3>1 DEF OneMore, Table, Record
      <3> HIDE DEF i, d, n, J
      <3>8. Nearly(t.inode, entries, i)
        <4>1. \A x \in Inodes : t.inode[x].kind = inode[x].kind
          BY <3>7
        <4>2. \A x \in Inodes : t.inode[x].kind = "dir" => t.inode[x].nlink <= 1
          BY <2>1, <2>3, <3>7 DEF Strong
        <4>3. \A j \in Inodes : j # i => Count(entries, j) \in {0, t.inode[j].nlink}
          BY <2>1, <3>7 DEF Strong
        <4> QED
          BY <2>1, <4>1, <4>2, <4>3, InodeFacts DEF Nearly, Strong
      <3>9. Strong(t.inode, t.entries)
        <4>1. t.inode[d].kind = "dir"
          BY <1>2, <3>1, <3>7
        <4> QED
          BY <1>2, <2>3, <3>1, <3>6, <3>7, <3>8, <4>1, StrongNamed
      <3>10. Current(t.entries, t.cache)
        BY <1>1, <1>2, <1>4, <1>5, <2>1, <2>3, CurrentAdded
      <3>11. Leaf(entries, i)
        BY <2>1, <2>3, <3>1, LeafIs
      <3>12. Named(entries, t.entries, d, n, i)
        BY <2>3, <3>1, <3>11 DEF Named
      <3> QED
        BY <1>2, <3>1, <3>9, <3>10, <3>12 DEF MapStep
    <2> QED
      BY <1>4, <1>5, <2>2, <2>3
  <1> QED
    BY <1>4, <1>5 DEF After

LEMMA RemovedAfter ==
    ASSUME Inv, NEW p \in Paths, InDirectory(p), NEW mustBeDir \in BOOLEAN, NEW t, Removed(t, p, mustBeDir)
    PROVE  After(t)
  <1> DEFINE d == Found(entries, pathCache, Front(p))
             n == Last(p)
             i == Look(entries, d, n)
             C == Cached(entries, pathCache, Front(p))
  <1>1. /\ StateOK /\ Weak(inode, entries) /\ IsEntries(entries) /\ inode \in Table /\ Bounded(inode)
    BY WholeFacts
  <1>2. p # <<>> /\ Front(p) \in Paths /\ n \in Names /\ d \in Inodes /\ inode[d].kind = "dir"
    BY <1>1, DirectoryIs
  <1>3. /\ Good(t)
        /\ t.inode = inode \/ (i \in Inodes /\ t.inode = Dropped(inode, i))
        /\ t.torn = TRUE
           \/ /\ Within(t.cache, C)
              /\ \/ t.inode = inode /\ t.entries = entries
                 \/ /\ i # 0 /\ i \in Inodes /\ (IF mustBeDir THEN entries[i] = <<>> ELSE inode[i].kind # "dir")
                    /\ t.inode = Dropped(inode, i) /\ Differs(entries, t.entries, d, n, 0)
                    /\ p \notin DOMAIN t.cache
    BY DEF Removed
  <1>4. Bounded(t.inode)
    BY <1>1, <1>3, BoundedDropped
  <1>5. ASSUME Handled, ~failed, t.torn = FALSE
        PROVE  Strong(t.inode, t.entries) /\ Current(t.entries, t.cache) /\ MapStep(entries, t.entries)
    <2>1. Strong(inode, entries) /\ IsCache(C) /\ Current(entries, C) /\ d = Walk(entries, Front(p))
      BY <1>2, <1>5, WholeFacts
    <2> HIDE DEF C, d
    <2>2. CASE t.inode = inode /\ t.entries = entries
      BY <1>3, <1>5, <2>1, <2>2, CurrentWithin DEF MapStep
    <2>3. CASE /\ i # 0 /\ i \in Inodes /\ (IF mustBeDir THEN entries[i] = <<>> ELSE inode[i].kind # "dir")
               /\ t.inode = Dropped(inode, i) /\ Differs(entries, t.entries, d, n, 0)
               /\ p \notin DOMAIN t.cache
      <3>1. Leaf(entries, i)
        <4>1. CASE mustBeDir
          BY <1>1, <2>3, <4>1, EmptyLooks DEF Leaf
        <4>2. CASE ~mustBeDir
          BY <2>1, <2>3, <4>2, LeafIs
        <4> QED
          BY <4>1, <4>2
      <3>2. Strong(t.inode, t.entries)
        BY <1>1, <1>2, <2>1, <2>3, <3>1, StrongDropped
      <3>3. Current(t.entries, t.cache)
        BY <1>1, <1>2, <1>3, <1>5, <2>1, <2>3, <3>1, CurrentRemoved
      <3>4. Unnamed(entries, t.entries, d, n)
        BY <2>3, <3>1 DEF Unnamed
      <3> QED
        BY <1>2, <3>2, <3>3, <3>4 DEF MapStep
    <2> QED
      BY <1>3, <1>5, <2>2, <2>3
  <1> QED
    BY <1>3, <1>4, <1>5 DEF After

LEMMA WeakDropped ==
    ASSUME NEW I \in Table, NEW E, Weak(I, E), NEW d \in Inodes, NEW n \in Names,
           Look(E, d, n) # 0, NEW F, Differs(E, F, d, n, 0)
    PROVE  Weak(Dropped(I, Look(E, d, n)), F)
  <1> DEFINE i == Look(E, d, n)
             r == Less(I[i])
  <1>1. i \in Inodes /\ Count(E, i) # 0 /\ Count(E, i) \in Nat /\ I[i] \in Record /\ Count(E, i) <= I[i].nlink
    BY NamedCounts, CountType DEF Weak, Table
  <1>2. I[i].nlink \in Nat /\ I[i].nlink # 0
    BY <1>1 DEF Record
  <1>3. r \in Record /\ r.nlink = I[i].nlink - 1 /\ r.kind = IF I[i].nlink > 1 THEN I[i].kind ELSE "none"
    BY <1>1, <1>2, LessOf
  <1>4. Count(F, i) = Count(E, i) - 1
    BY <1>1, CountRemoved
  <1>5. I[i].kind # "none"
    BY <1>1, InodeFacts DEF Weak
  <1>6. Count(F, i) <= r.nlink /\ (r.kind # "none" \/ Count(F, i) = 0)
    <2> HIDE DEF r, i
    <2> QED
      BY <1>1, <1>2, <1>3, <1>4, <1>5
  <1>7. Weak(I, F)
    BY WeakRemove
  <1> HIDE DEF r, i
  <1>8. Weak([I EXCEPT ![i] = r], F)
    BY <1>1, <1>6, <1>7, WeakPut
  <1> QED
    BY <1>8 DEF Dropped, r, i

\* What is left once the target of a rename is gone: no directory was lost with it.
LEMMA ClearedKeeps ==
    ASSUME Weak(inode, entries), Strong(inode, entries), inode \in Table,
           NEW q \in Paths, q # <<>>, NEW e \in Inodes, e = Walk(entries, Front(q)), inode[e].kind = "dir",
           NEW m \in Names, m = Last(q),
           Look(entries, e, m) # 0 => inode[Look(entries, e, m)].kind # "dir",
           NEW J, NEW F, Cleared(J, F, e, m),
           NEW C, IsCache(C), Current(entries, C), NEW D, Within(D, C), q \notin DOMAIN D
    PROVE  /\ J \in Table /\ Weak(J, F) /\ Strong(J, F) /\ Current(F, D) /\ Look(F, e, m) = 0
           /\ \A x \in Inodes : inode[x].kind = "dir" => J[x].kind = "dir"
           /\ \A x \in Inodes, y \in Names : <<x, y>> # <<e, m>> => Look(F, x, y) = Look(entries, x, y)
           /\ \A p \in Paths : Walk(entries, p) # 0 /\ inode[Walk(entries, p)].kind = "dir" =>
                                    Walk(F, p) = Walk(entries, p)
  <1> DEFINE j == Look(entries, e, m)
  <1>1. IsEntries(entries) /\ j \in Inodes \union {0}
    BY LookType DEF Weak
  <1>2. CASE j = 0 /\ J = inode /\ F = entries
    BY <1>2, CurrentWithin
  <1>3. CASE j \in Inodes /\ J = Dropped(inode, j) /\ Differs(entries, F, e, m, 0)
    <2>1. j # 0 /\ Leaf(entries, j) /\ inode[j].kind # "dir"
      BY <1>3, InodeFacts, LeafIs
    <2>2. J \in Table /\ Strong(J, F) /\ \A x \in Inodes : x # j => J[x] = inode[x]
      BY <1>3, <2>1, StrongDropped
    <2>3. Weak(J, F)
      BY <1>3, <2>1, WeakDropped
    <2>4. Current(F, D)
      BY <1>3, <2>1, CurrentRemoved
    <2>5. Look(F, e, m) = 0
          /\ \A x \in Inodes, y \in Names : <<x, y>> # <<e, m>> => Look(F, x, y) = Look(entries, x, y)
      BY <1>3 DEF Differs
    <2>6. ASSUME NEW p \in Paths, Walk(entries, p) # 0, inode[Walk(entries, p)].kind = "dir"
          PROVE  Walk(F, p) = Walk(entries, p)
      <3> DEFINE X == {<<e, m>>}
      <3>1. LeafChange(entries, F, X)
        BY <1>3, <2>1 DEF LeafChange, Differs, Leaf, Weak
      <3>2. Walk(F, p) = Walk(entries, p) \/ (p # <<>> /\ <<Walk(entries, Front(p)), Last(p)>> \in X)
        BY <2>6, <3>1, WalkChange
      <3>3. ASSUME p # <<>>, <<Walk(entries, Front(p)), Last(p)>> \in X PROVE FALSE
        <4>1. Walk(entries, Front(p)) = e /\ Last(p) = m
          BY <3>3
        <4>2. Walk(entries, p) = j
          BY <1>1, <2>6, <3>3, <4>1, WalkLast
        <4> QED
          BY <2>1, <2>6, <4>2
      <3> QED
        BY <3>2, <3>3
    <2> HIDE DEF j
    <2> QED
      BY <2>1, <2>2, <2>3, <2>4, <2>5, <2>6
  <1> QED
    BY <1>2, <1>3 DEF Cleared

LEMMA RenamedAfter ==
    ASSUME Inv, NEW p \in Paths, NEW q \in Paths, InDirectory(p), InDirectory(q),
           Kind(q) # "dir", ~IsPrefix(p, q), "rename" \in Beyond \/ Kind(p) # "dir",
           NEW t, Renamed(t, p, q)
    PROVE  After(t)
  <1> DEFINE E == entries
             d == Found(E, pathCache, Front(p))
             n == Last(p)
             e == Found(E, pathCache, Front(q))
             m == Last(q)
             i == Look(E, d, n)
             j == Look(E, e, m)
             C == Cached(E, Cached(E, pathCache, Front(p)), Front(q))
  <1>1. /\ StateOK /\ Weak(inode, E) /\ IsEntries(E) /\ inode \in Table /\ Bounded(inode)
    BY WholeFacts
  <1>2. /\ p # <<>> /\ Front(p) \in Paths /\ n \in Names /\ d \in Inodes /\ inode[d].kind = "dir"
        /\ q # <<>> /\ Front(q) \in Paths /\ m \in Names /\ e \in Inodes /\ inode[e].kind = "dir"
    BY <1>1, DirectoryIs
  <1>3. /\ Good(t)
        /\ t.inode = inode \/ (j \in Inodes /\ t.inode = Dropped(inode, j))
        /\ t.torn = TRUE
           \/ /\ Within(t.cache, C)
              /\ \/ t.inode = inode /\ t.entries = E
                 \/ \E F :
                    /\ Cleared(t.inode, F, e, m) /\ i \in Inodes
                    /\ \/ Look(F, d, n) = 0 /\ t.entries = F
                       \/ \E G :
                          /\ Look(F, d, n) = i /\ Look(F, e, m) = 0
                          /\ Differs(F, G, d, n, 0) /\ Differs(G, t.entries, e, m, i)
                          /\ p \notin DOMAIN t.cache /\ q \notin DOMAIN t.cache
    BY DEF Renamed
  <1>4. Bounded(t.inode)
    BY <1>1, <1>3, BoundedDropped
  <1>5. ASSUME Handled, ~failed, t.torn = FALSE
        PROVE  Strong(t.inode, t.entries) /\ Current(t.entries, t.cache) /\ MapStep(E, t.entries)
    <2>1. /\ Strong(inode, E) /\ IsCache(C) /\ Current(E, C) /\ d = Walk(E, Front(p)) /\ e = Walk(E, Front(q))
          /\ Found(E, pathCache, p) = Walk(E, p) /\ Found(E, pathCache, q) = Walk(E, q)
      BY <1>2, <1>5, WholeFacts
    <2>2. i = Walk(E, p) /\ j = Walk(E, q)
      BY <1>1, <1>2, <2>1, WalkLast, InodeFacts
    <2>3. (i # 0 => inode[i].kind # "dir") /\ (j # 0 => inode[j].kind # "dir")
      BY <1>1, <1>5, <2>1, <2>2, KindIs DEF Handled
    <2>4. <<d, n>> # <<e, m>>
      <3>1. SUFFICES ASSUME d = e, n = m PROVE FALSE
        OBVIOUS
      <3>2. Front(p) = Front(q)
        BY <1>1, <1>2, <2>1, <3>1, UniquePath, InodeFacts
      <3>3. p = q
        BY <1>2, <3>1, <3>2, SameParts
      <3>4. IsPrefix(p, p)
        BY DEF IsPrefix
      <3> QED
        BY <3>3, <3>4
    <2>5. i \in Inodes => Leaf(E, i)
      BY <2>1, <2>3, LeafIs, InodeFacts
    <2>6. j \in Inodes => Leaf(E, j)
      BY <2>1, <2>3, LeafIs, InodeFacts
    <2>7. j \in Inodes \union {0} /\ i \in Inodes \union {0}
      BY <1>1, <1>2, LookType
    <2> HIDE DEF C, d, e, n, m
    <2>8. CASE t.inode = inode /\ t.entries = E
      BY <1>3, <1>5, <2>1, <2>8, CurrentWithin DEF MapStep
    <2>9. ASSUME NEW F, Cleared(t.inode, F, e, m), i \in Inodes, Look(F, d, n) = 0 PROVE FALSE
      <3>1. (j = 0 /\ F = E) \/ Differs(E, F, e, m, 0)
        BY <2>9 DEF Cleared
      <3>2. Look(F, d, n) = i
        BY <1>2, <2>4, <3>1 DEF Differs
      <3> QED
        BY <2>9, <3>2, InodeFacts
    <2>10. ASSUME NEW F, Cleared(t.inode, F, e, m), i \in Inodes, Within(t.cache, C),
                  NEW G, Look(F, d, n) = i, Look(F, e, m) = 0,
                  Differs(F, G, d, n, 0), Differs(G, t.entries, e, m, i),
                  p \notin DOMAIN t.cache, q \notin DOMAIN t.cache
           PROVE  Strong(t.inode, t.entries) /\ Current(t.entries, t.cache) /\ MapStep(E, t.entries)
      <3>1. m = Last(q) /\ n = Last(p) /\ i # 0 /\ IsCache(t.cache)
        BY <2>10, InodeFacts DEF m, n, Within
      <3>2. /\ t.inode \in Table /\ Weak(t.inode, F) /\ Strong(t.inode, F) /\ Current(F, t.cache)
            /\ \A x \in Inodes : inode[x].kind = "dir" => t.inode[x].kind = "dir"
            /\ \A x \in Inodes, y \in Names : <<x, y>> # <<e, m>> => Look(F, x, y) = Look(E, x, y)
            /\ \A r \in Paths : Walk(E, r) # 0 /\ inode[Walk(E, r)].kind = "dir" => Walk(F, r) = Walk(E, r)
        BY <1>1, <1>2, <2>1, <2>3, <2>10, <3>1, ClearedKeeps
      <3>3. d = Walk(F, Front(p)) /\ t.inode[d].kind = "dir" /\ t.inode[e].kind = "dir"
        BY <1>2, <2>1, <3>2, InodeFacts
      <3>4. Leaf(F, i)
        <4>1. ASSUME NEW z \in Names PROVE Look(F, i, z) = 0
          BY <2>5, <2>10, <3>2 DEF Leaf
        <4> QED
          BY <4>1 DEF Leaf
      <3>5. IsEntries(G) /\ Look(G, e, m) = 0 /\ Within(t.cache, t.cache)
        BY <1>2, <2>10, <3>1, WithinItself DEF Differs
      <3> HIDE DEF i, j
      <3>6. Current(G, t.cache)
        BY <1>2, <2>10, <3>1, <3>2, <3>3, <3>4, <3>5, CurrentRemoved
      <3>7. Current(t.entries, t.cache)
        BY <1>2, <2>10, <3>1, <3>5, <3>6, CurrentAdded
      <3>8. Strong(t.inode, t.entries)
        BY <1>2, <2>10, <3>1, <3>2, <3>3, StrongMoved
      <3>9. Moved(E, t.entries, d, n, e, m)
        <4>1. \A x \in Inodes, y \in Names :
                Look(t.entries, x, y) = IF x = e /\ y = m THEN i
                                        ELSE IF x = d /\ y = n THEN 0 ELSE Look(E, x, y)
          BY <2>10, <3>2 DEF Differs
        <4>2. j # 0 => Leaf(E, j)
          BY <2>6, <2>7
        <4> QED
          BY <2>4, <2>10, <3>1, <4>1, <4>2 DEF Moved, Differs, i, j
      <3> QED
        BY <1>2, <3>7, <3>8, <3>9 DEF MapStep
    <2> QED
      BY <1>3, <1>5, <2>8, <2>9, <2>10
  <1> QED
    BY <1>3, <1>4, <1>5 DEF After

LEMMA TouchedAfter ==
    ASSUME Inv, NEW p \in Paths, NEW t, Touched(t, p)
    PROVE  After(t)
  <1>1. /\ StateOK /\ Weak(inode, entries) /\ Bounded(inode)
        /\ Typed(t) /\ t.entries = entries /\ SameNodes(inode, t.inode)
        /\ Within(t.cache, Cached(entries, pathCache, p))
    BY WholeFacts DEF Touched
  <1>2. Weak(t.inode, entries) /\ Bounded(t.inode)
    BY <1>1, WeakSame, BoundedSame
  <1>3. ASSUME Handled, ~failed
        PROVE  Strong(t.inode, entries) /\ Current(entries, t.cache)
    <2>1. Strong(inode, entries) /\ Current(entries, Cached(entries, pathCache, p))
      BY <1>3, WholeFacts
    <2> QED
      BY <1>1, <2>1, StrongSame, CurrentWithin
  <1> QED
    BY <1>1, <1>2, <1>3 DEF After, Good, MapStep

LEMMA ChmodAfter ==
    ASSUME Inv, NEW bad \in Nat, NEW p \in Paths, "chmod" \in Beyond \/ Kind(p) # "dir"
    PROVE  After(Chmod(Start(bad), p))
  <1> DEFINE t == Chmod(Start(bad), p)
             i == Found(entries, pathCache, p)
             C == Cached(entries, pathCache, p)
  <1>1. /\ StateOK /\ Weak(inode, entries) /\ Bounded(inode) /\ inode \in Table
    BY WholeFacts
  <1>2. /\ Good(t) /\ t.entries = entries /\ Within(t.cache, C)
        /\ \/ t.inode = inode
           \/ /\ i \in Inodes /\ i # 0 /\ inode[i].kind # "none"
              /\ t.inode = [inode EXCEPT ![i] = [inode[i] EXCEPT !.kind = "other"]]
    BY <1>1, ChmodDoes
  <1>3. Kind(p) = IF i = 0 THEN "none" ELSE inode[i].kind
    BY <1>1, KindIs
  <1> HIDE DEF t, i
  <1>4. \A x \in Inodes : t.inode[x].nlink = inode[x].nlink
    <2>1. CASE t.inode = inode
      BY <2>1
    <2>2. CASE i \in Inodes /\ t.inode = [inode EXCEPT ![i] = [inode[i] EXCEPT !.kind = "other"]]
      <3>1. inode[i] \in Record
        BY <1>1, <2>2 DEF Table
      <3>2. t.inode[i].nlink = inode[i].nlink /\ \A x \in Inodes : x # i => t.inode[x] = inode[x]
        BY <1>1, <2>2, <3>1 DEF Table, Record
      <3> QED
        BY <3>2
    <2> QED
      BY <1>2, <2>1, <2>2
  <1>5. Bounded(t.inode)
    BY <1>1, <1>4 DEF Bounded
  <1>6. ASSUME Handled, ~failed
        PROVE  Strong(t.inode, entries) /\ Current(entries, t.cache)
    <2>1. Strong(inode, entries) /\ Current(entries, C)
      BY <1>6, WholeFacts
    <2>2. \A x \in Inodes : t.inode[x].kind = inode[x].kind
      <3>1. CASE t.inode = inode
        BY <3>1
      <3>2. CASE /\ i \in Inodes /\ i # 0 /\ inode[i].kind # "none"
                 /\ t.inode = [inode EXCEPT ![i] = [inode[i] EXCEPT !.kind = "other"]]
        <4>1. inode[i] \in Record /\ inode[i].kind # "dir"
          BY <1>1, <1>3, <1>6, <3>2 DEF Handled, Table
        <4>2. inode[i].kind = "other"
          BY <3>2, <4>1 DEF Record
        <4> QED
          BY <1>1, <3>2, <4>1, <4>2 DEF Table, Record
      <3> QED
        BY <1>2, <3>1, <3>2
    <2>3. SameNodes(inode, t.inode)
      BY <1>4, <2>2 DEF SameNodes
    <2> QED
      BY <1>2, <2>1, <2>3, StrongSame, CurrentWithin
  <1>7. After(t)
    BY <1>2, <1>5, <1>6 DEF After, MapStep
  <1> QED
    BY <1>7 DEF t

LEMMA CacheInv ==
    ASSUME Inv, UNCHANGED <<inode, entries, extents, taken, failed, lost, content>>, IsCache(pathCache'),
           DOMAIN listed' \subseteq Names, Handled /\ ~failed => Current(entries, pathCache')
    PROVE  Inv' /\ (Handled /\ ~failed' => MapStep(entries, entries'))
  <1>1. StateOK'
    BY DEF Inv, StateOK, IsEntries, IsCache, Table, Record, ExtentMap, Extent, Entry, Word, Paths
  <1>2. Weak(inode, entries)' /\ Bounded(inode)' /\ failed' \in BOOLEAN /\ lost' = FALSE
    BY DEF Inv, Bounded
  <1>3. ASSUME Handled, ~failed' PROVE Whole' /\ MapStep(entries, entries')
    <2>1. Strong(inode, entries) /\ Current(entries, pathCache') /\ MapStep(entries, entries)
      BY <1>3 DEF Inv, Whole, MapStep
    <2> QED
      BY <2>1 DEF Whole
  <1> QED
    BY <1>1, <1>2, <1>3 DEF Inv, Handled

\* What every step keeps, and what it does to the names.
LEMMA StepInv ==
    ASSUME Inv, [Next]_vars
    PROVE  (Inv' \/ Ruin') /\ (Handled /\ ~failed' => MapStep(entries, entries'))
  <1>0. StateOK /\ Weak(inode, entries) /\ Bounded(inode) /\ IsEntries(entries) /\ IsCache(pathCache)
    BY WholeFacts
  <1>1. Faults \subseteq Nat
    BY FaultsAssumption DEF Faults
  <1>2. CASE Create
    <2>1. PICK p \in Paths, bad \in Faults :
            InDirectory(p) /\ New \in Inodes /\ Finish(createFile(Start(bad), p, "other"))
      BY <1>2 DEF Create
    <2>2. Made(createFile(Start(bad), p, "other"), p, "other")
      BY <1>0, <1>1, <2>1, CreateDoes
    <2>3. After(createFile(Start(bad), p, "other"))
      BY <2>1, <2>2, MadeAfter
    <2> QED
      BY <2>1, <2>3, FinishInv
  <1>3. CASE Mkdir
    <2>1. PICK p \in Paths, bad \in Faults :
            InDirectory(p) /\ New \in Inodes /\ Finish(createFile(Start(bad), p, "dir"))
      BY <1>3 DEF Mkdir
    <2>2. Made(createFile(Start(bad), p, "dir"), p, "dir")
      BY <1>0, <1>1, <2>1, CreateDoes
    <2>3. After(createFile(Start(bad), p, "dir"))
      BY <2>1, <2>2, MadeAfter
    <2> QED
      BY <2>1, <2>3, FinishInv
  <1>4. CASE DoSymlink
    <2>1. PICK p \in Paths, w \in Words, bad \in Faults :
            InDirectory(p) /\ New \in Inodes /\ Finish(Symlink(Start(bad), p, <<w>>))
      BY <1>4 DEF DoSymlink
    <2>2. Made(Symlink(Start(bad), p, <<w>>), p, "other")
      BY <1>0, <1>1, <2>1, SymlinkDoes
    <2>3. After(Symlink(Start(bad), p, <<w>>))
      BY <2>1, <2>2, MadeAfter
    <2> QED
      BY <2>1, <2>3, FinishInv
  <1>5. CASE DoLink
    <2>1. PICK q \in Paths, p \in Paths, bad \in Faults :
            /\ Kind(q) # "none" /\ InDirectory(p) /\ Finish(Link(Start(bad), q, p))
            /\ \A i \in Inodes : Link(Start(bad), q, p).inode[i].nlink <= MaxLinks
      BY <1>5 DEF DoLink
    <2>2. Linked(Link(Start(bad), q, p), q, p)
      BY <1>0, <1>1, <2>1, LinkDoes
    <2>4. Bounded(Link(Start(bad), q, p).inode)
      BY <2>1 DEF Bounded
    <2>5. After(Link(Start(bad), q, p))
      BY <2>1, <2>2, <2>4, LinkedAfter
    <2> QED
      BY <2>1, <2>5, FinishInv
  <1>6. CASE Unlink
    <2>1. PICK p \in Paths, bad \in Faults : InDirectory(p) /\ Finish(removeEntry(Start(bad), p, FALSE))
      BY <1>6 DEF Unlink
    <2>2. Removed(removeEntry(Start(bad), p, FALSE), p, FALSE)
      BY <1>0, <1>1, <2>1, RemoveDoes
    <2>3. After(removeEntry(Start(bad), p, FALSE))
      BY <2>1, <2>2, RemovedAfter
    <2> QED
      BY <2>1, <2>3, FinishInv
  <1>7. CASE Rmdir
    <2>1. PICK p \in Paths, bad \in Faults : InDirectory(p) /\ Finish(removeEntry(Start(bad), p, TRUE))
      BY <1>7 DEF Rmdir
    <2>2. Removed(removeEntry(Start(bad), p, TRUE), p, TRUE)
      BY <1>0, <1>1, <2>1, RemoveDoes
    <2>3. After(removeEntry(Start(bad), p, TRUE))
      BY <2>1, <2>2, RemovedAfter
    <2> QED
      BY <2>1, <2>3, FinishInv
  <1>8. CASE DoRename
    <2>1. PICK p \in Paths, q \in Paths, bad \in Faults :
            /\ InDirectory(p) /\ InDirectory(q) /\ Kind(q) # "dir" /\ ~IsPrefix(p, q)
            /\ "rename" \in Beyond \/ Kind(p) # "dir"
            /\ Finish(Rename(Start(bad), p, q))
      BY <1>8 DEF DoRename
    <2>2. Renamed(Rename(Start(bad), p, q), p, q)
      BY <1>0, <1>1, <2>1, RenameDoes
    <2>3. After(Rename(Start(bad), p, q))
      BY <2>1, <2>2, RenamedAfter
    <2> QED
      BY <2>1, <2>3, FinishInv
  <1>9. CASE DoChmod
    <2>1. PICK p \in Paths, bad \in Faults :
            ("chmod" \in Beyond \/ Kind(p) # "dir") /\ Finish(Chmod(Start(bad), p))
      BY <1>9 DEF DoChmod
    <2>2. After(Chmod(Start(bad), p))
      BY <1>1, <2>1, ChmodAfter
    <2> QED
      BY <2>1, <2>2, FinishInv
  <1>10. CASE DoWrite
    <2>0. PICK p \in Paths, o \in 0 .. MaxSize - 1, n \in 1 .. MaxSize, w \in Words, zip \in BOOLEAN, bad \in Faults :
            /\ IsFile(p) /\ o + n <= MaxSize /\ (zip => o + n > InlineMax)
            /\ "write" \in Beyond \/ (o + n >= Length(p) /\ (Zipped(p) => o = 0))
            /\ LET s == Write(Start(bad), p, o, [k \in 1 .. n |-> w], zip)
               IN  Finish(s) /\ Changed(s.ok, p, LAMBDA old :
                        [k \in 1 .. Max({Len(old), o + n}) |->
                            IF k \in o + 1 .. o + n THEN w ELSE Resize(old, o + n)[k]])
      BY <1>10, Zenon DEF DoWrite
    <2>1. IsFile(p) /\ o + n <= MaxSize /\ Finish(Write(Start(bad), p, o, [k \in 1 .. n |-> w], zip))
      BY <2>0
    <2>2. o \in Nat /\ n \in Nat /\ o + n \in 0 .. MaxSize
      BY <2>1, WordsAssumption
    <2>3. Touched(Write(Start(bad), p, o, [k \in 1 .. n |-> w], zip), p)
      BY <1>0, <1>1, <2>1, <2>2, WriteDoes
    <2> DEFINE s == Write(Start(bad), p, o, [k \in 1 .. n |-> w], zip)
    <2>4. Touched(s, p) /\ Finish(s)
      BY <2>1, <2>3
    <2> HIDE DEF s
    <2>5. After(s)
      BY <2>4, TouchedAfter
    <2> QED
      BY <2>4, <2>5, FinishInv
  <1>11. CASE DoTruncate
    <2>1. PICK p \in Paths, n \in 0 .. MaxSize, bad \in Faults :
            IsFile(p) /\ Finish(Truncate(Start(bad), p, n))
      BY <1>11 DEF DoTruncate
    <2>2. Touched(Truncate(Start(bad), p, n), p)
      BY <1>0, <1>1, <2>1, TruncateDoes
    <2>3. After(Truncate(Start(bad), p, n))
      BY <2>2, TouchedAfter
    <2> QED
      BY <2>1, <2>3, FinishInv
  <1>12. CASE Getattr
    <2>1. PICK p \in Paths : pathCache' = resolvePath(Start(0), p).cache
                             /\ UNCHANGED <<inode, entries, extents, taken, listed, failed, lost, content>>
      BY <1>12 DEF Getattr
    <2>2. Typed(Start(0)) /\ Start(0).ok = TRUE /\ Start(0).entries = entries /\ Start(0).cache = pathCache
      BY <1>0, StartTyped
    <2> DEFINE s == Start(0)
    <2>3. Resolves(s, resolvePath(s, p), p)
      BY <2>2, ResolveDoes
    <2>4. pathCache' = Cached(entries, pathCache, p)
      BY <2>1, <2>2, <2>3 DEF Resolves
    <2>5. IsCache(pathCache') /\ (Handled /\ ~failed => Current(entries, pathCache'))
      BY <1>0, <2>4, CachedType, WholeFacts
    <2> QED
      BY <1>0, <2>1, <2>5, CacheInv DEF StateOK
  <1>13. CASE Mount
    <2>1. pathCache' = <<>> /\ listed' = <<>> /\ UNCHANGED <<inode, entries, extents, taken, failed, lost, content>>
      BY <1>13 DEF Mount
    <2>2. DOMAIN pathCache' = {} /\ DOMAIN listed' = {}
      BY <2>1
    <2>3. IsCache(pathCache') /\ Current(entries, pathCache')
      BY <2>2 DEF IsCache, Current
    <2> QED
      BY <2>1, <2>2, <2>3, CacheInv
  <1>14. CASE UNCHANGED vars
    <2>1. UNCHANGED <<inode, entries, extents, taken, failed, lost, content>> /\ pathCache' = pathCache /\ listed' = listed
      BY <1>14 DEF vars
    <2>2. IsCache(pathCache') /\ (Handled /\ ~failed => Current(entries, pathCache'))
      BY <1>0, <2>1, WholeFacts
    <2> QED
      BY <1>0, <2>1, <2>2, CacheInv DEF StateOK
  <1>15. CASE ListRoot
    <2>1. /\ DOMAIN listed' = DOMAIN listed \union {entries[Root][k].name : k \in DOMAIN entries[Root]}
          /\ UNCHANGED <<inode, entries, extents, taken, failed, lost, content>> /\ pathCache' = pathCache
      BY <1>15 DEF ListRoot
    <2>2. entries[Root] \in Seq(Entry)
      BY <1>0, InodeFacts DEF IsEntries
    <2>3. ASSUME NEW k \in DOMAIN entries[Root] PROVE entries[Root][k].name \in Names
      <3>1. entries[Root][k] \in Entry
        BY <2>2
      <3> QED
        BY <3>1 DEF Entry
    <2>4. DOMAIN listed' \subseteq Names
      BY <1>0, <2>1, <2>3 DEF StateOK
    <2>5. IsCache(pathCache') /\ (Handled /\ ~failed => Current(entries, pathCache'))
      BY <1>0, <2>1, WholeFacts
    <2> QED
      BY <2>1, <2>4, <2>5, CacheInv
  <1> QED
    BY <1>2, <1>3, <1>4, <1>5, <1>6, <1>7, <1>8, <1>9, <1>10, <1>11, <1>12, <1>13, <1>14, <1>15 DEF Next, Operation

LEMMA RuinStays ==
    ASSUME Ruin, [Next]_vars
    PROVE  Ruin'
  <1>0. StateOK /\ Bounded(inode) /\ failed = TRUE /\ lost = TRUE
    BY DEF Ruin
  <1>1. /\ UNCHANGED <<inode, entries, extents, taken, failed, lost, content>>
        /\ (pathCache' = <<>> /\ listed' = <<>>) \/ UNCHANGED <<pathCache, listed>>
    BY <1>0 DEF Next, Mount, vars
  <1>2. IsCache(pathCache') /\ DOMAIN listed' \subseteq Names
    <2>1. CASE pathCache' = <<>> /\ listed' = <<>>
      <3>1. DOMAIN pathCache' = {} /\ DOMAIN listed' = {}
        BY <2>1
      <3> QED
        BY <3>1 DEF IsCache
    <2>2. CASE UNCHANGED <<pathCache, listed>>
      BY <1>0, <2>2 DEF StateOK
    <2> QED
      BY <1>1, <2>1, <2>2
  <1>3. StateOK'
    BY <1>0, <1>1, <1>2 DEF StateOK, IsEntries, IsCache, Table, Record, ExtentMap, Extent, Entry, Word, Paths
  <1>4. Bounded(inode)'
    BY <1>0, <1>1 DEF Bounded
  <1> QED
    BY <1>0, <1>1, <1>3, <1>4 DEF Ruin

\* Every operation, wherever a write of it fails, keeps the invariant, but for a failure
\* that cuts a leaf split short.
THEOREM InvCorrect == Spec => [](Inv \/ Ruin)
  <1>1. Init => Inv
    BY InitInv
  <1>2. Inv /\ [Next]_vars => Inv' \/ Ruin'
    BY StepInv
  <1>3. Ruin /\ [Next]_vars => Ruin'
    BY RuinStays
  <1> QED
    BY <1>1, <1>2, <1>3, PTL DEF Spec

-----------------------------------------------------------------------------
(* The properties *)

\* The names of an inode are where its directories lead to it.
LEMMA NamesOfIs ==
    ASSUME IsEntries(entries), NoDoubles(entries), NEW i \in Inodes
    PROVE  NamesOf(i) = NamesIn(entries, i)
  <1>1. ASSUME NEW x \in Inodes \X Names
        PROVE  (\E k \in DOMAIN entries[x[1]] : entries[x[1]][k] = [name |-> x[2], ino |-> i])
               <=> Look(entries, x[1], x[2]) = i
    <2>1. PICK d \in Inodes, n \in Names : x = <<d, n>>
      OBVIOUS
    <2>2. entries[d] \in Seq(Entry) /\ DOMAIN entries[d] = 1 .. Len(entries[d])
      BY DEF IsEntries
    <2>3. ASSUME NEW k \in 1 .. Len(entries[d]), entries[d][k] = [name |-> n, ino |-> i]
          PROVE  Look(entries, d, n) = i
      <3>1. Look(entries, d, entries[d][k].name) = entries[d][k].ino
        BY LookIs
      <3> QED
        BY <2>3, <3>1
    <2>4. ASSUME Look(entries, d, n) = i
          PROVE  \E k \in 1 .. Len(entries[d]) : entries[d][k] = [name |-> n, ino |-> i]
      <3>1. PICK k \in 1 .. Len(entries[d]) : entries[d][k].name = n /\ entries[d][k].ino = i
        BY <2>4, PositionFound, InodeFacts, SMTT(30)
      <3>2. entries[d][k] \in Entry
        BY <2>2
      <3>3. entries[d][k] = [name |-> n, ino |-> i]
        BY <3>1, <3>2 DEF Entry
      <3> QED
        BY <3>3
    <2> QED
      BY <2>1, <2>2, <2>3, <2>4
  <1> QED
    BY <1>1 DEF NamesOf, NamesIn

\* The state has its types, whichever calls callers make and whichever writes fail.
THEOREM TypeCorrect == Spec => []TypeOK
  <1>1. Inv \/ Ruin => TypeOK
    <2> SUFFICES ASSUME Inv \/ Ruin PROVE TypeOK
      OBVIOUS
    <2>1. StateOK /\ Bounded(inode)
      BY DEF Inv, Ruin
    <2>2. ASSUME NEW i \in Inodes
          PROVE  inode[i] \in [kind : {"none", "dir", "other"}, nlink : 0 .. MaxLinks, size : 0 .. MaxSize]
      <3>1. inode[i] \in Record /\ inode[i].nlink <= MaxLinks
        BY <2>1 DEF StateOK, Table, Bounded
      <3>2. inode[i].nlink \in 0 .. MaxLinks
        BY <3>1, RootAssumption DEF Record
      <3> QED
        BY <3>1, <3>2 DEF Record
    <2>3. inode \in [Inodes -> [kind : {"none", "dir", "other"}, nlink : 0 .. MaxLinks, size : 0 .. MaxSize]]
      BY <2>1, <2>2 DEF StateOK, Table
    <2>4. \A d \in Inodes : entries[d] \in Seq([name : Names, ino : Inodes])
      BY <2>1 DEF StateOK, IsEntries, Entry
    <2>5. ASSUME NEW i \in Inodes, NEW k \in DOMAIN extents[i] PROVE extents[i][k].at \in DataBlocks \union {0}
      <3>1. extents[i] \in Seq(Extent)
        BY <2>1 DEF StateOK, ExtentMap
      <3>2. extents[i][k] \in Extent
        BY <3>1
      <3> QED
        BY <3>2 DEF Extent
    <2> QED
      BY <2>1, <2>3, <2>4, <2>5 DEF TypeOK, StateOK, IsCache
  <1> QED
    BY <1>1, InvCorrect, PTL

\* removeEntry, Rename and Link write in an order that leaves no entry without an inode and
\* no link count below the number of names, whichever write they stop at; nothing is said of
\* a volume where that write cut the split of a leaf short.
THEOREM NamesSoundCorrect ==
    ASSUME Handled
    PROVE  Spec => []NamesSound
  <1>1. Inv => NamesSound
    <2> SUFFICES ASSUME Inv PROVE NamesSound
      OBVIOUS
    <2>1. Weak(inode, entries) /\ IsEntries(entries) /\ NoDoubles(entries)
          /\ (~failed => Strong(inode, entries))
      BY WholeFacts
    <2>2. ASSUME NEW d \in Inodes, NEW j \in DOMAIN entries[d], NEW k \in DOMAIN entries[d]
          PROVE  /\ inode[entries[d][j].ino].kind # "none"
                 /\ entries[d][j].name = entries[d][k].name => j = k
      <3>1. DOMAIN entries[d] = 1 .. Len(entries[d])
        BY <2>1 DEF IsEntries
      <3>2. Look(entries, d, entries[d][j].name) = entries[d][j].ino
            /\ entries[d][j].ino \in Inodes /\ entries[d][j].name \in Names
        BY <2>1, <3>1, LookIs
      <3>3. inode[entries[d][j].ino].kind # "none"
        BY <2>1, <3>2, InodeFacts DEF Weak
      <3> QED
        BY <2>1, <3>1, <3>3 DEF NoDoubles
    <2>3. ASSUME NEW i \in Inodes
          PROVE  /\ Cardinality(NamesOf(i)) <= inode[i].nlink
                 /\ failed \/ Cardinality(NamesOf(i)) \in {0, inode[i].nlink}
      <3>1. Cardinality(NamesOf(i)) = Count(entries, i)
        BY <2>1, NamesOfIs DEF Count
      <3> QED
        BY <2>1, <3>1 DEF Weak, Strong
    <2> QED
      BY <2>2, <2>3 DEF NamesSound
  <1>2. Ruin => NamesSound
    BY DEF Ruin, NamesSound
  <1> QED
    BY <1>1, <1>2, InvCorrect, PTL

\* Forgetting the paths of a call is enough for what pathCache keeps of paths with single
\* slashes, as long as no directory is moved and no write fails.
THEOREM PathCacheCurrentCorrect ==
    ASSUME Handled
    PROVE  Spec => []PathCacheCurrent
  <1>1. Inv => PathCacheCurrent
    <2> SUFFICES ASSUME Inv, ~failed, NEW p \in DOMAIN pathCache
                 PROVE  Resolved(Start(0), p) = pathCache[p]
      BY DEF PathCacheCurrent
    <2>1. Current(entries, pathCache) /\ IsEntries(entries) /\ p \in Paths /\ Start(0).entries = entries
      BY WholeFacts, StartTyped DEF IsCache
    <2>2. Resolved(Start(0), p) = Walk(Start(0).entries, p)
      BY <2>1, ResolvedIsWalk
    <2> QED
      BY <2>1, <2>2 DEF Current
  <1>2. Ruin => PathCacheCurrent
    BY DEF Ruin, PathCacheCurrent
  <1> QED
    BY <1>1, <1>2, InvCorrect, PTL

-----------------------------------------------------------------------------
(* The directories as maps *)

Map(E, d) == [n \in {y \in Names : Look(E, d, y) # 0} |-> Look(E, d, n)]
MapsOf(E) == [d \in Inodes |-> Map(E, d)]

LEMMA HeldIs == IsEntries(entries) => Held = MapsOf(entries)
  <1> SUFFICES ASSUME IsEntries(entries) PROVE Held = MapsOf(entries)
    OBVIOUS
  <1>1. ASSUME NEW d \in Inodes
        PROVE  [n \in {entries[d][k].name : k \in DOMAIN entries[d]} |-> lookupDirEntry(Start(0), d, n)]
               = Map(entries, d)
    <2>1. Start(0).entries = entries
      BY DEF Start
    <2>2. \A n : lookupDirEntry(Start(0), d, n) = Look(entries, d, n)
      BY <2>1, FindIsPosition
    <2>3. {entries[d][k].name : k \in DOMAIN entries[d]} = {y \in Names : Look(entries, d, y) # 0}
      <3>0. entries[d] \in Seq(Entry) /\ DOMAIN entries[d] = 1 .. Len(entries[d])
        BY DEF IsEntries
      <3>1. ASSUME NEW k \in 1 .. Len(entries[d])
            PROVE  entries[d][k].name \in Names /\ Look(entries, d, entries[d][k].name) # 0
        <4>1. entries[d][k] \in Entry
          BY <3>0
        <4>2. entries[d][k].name \in Names
          BY <4>1 DEF Entry
        <4> QED
          BY <4>2, PositionFound, InodeFacts
      <3>2. ASSUME NEW y \in Names, Look(entries, d, y) # 0
            PROVE  \E k \in 1 .. Len(entries[d]) : entries[d][k].name = y
        BY <3>2, PositionFound
      <3> QED
        BY <3>0, <3>1, <3>2
    <2> QED
      BY <2>2, <2>3 DEF Map
  <1> QED
    BY <1>1 DEF Held, MapsOf

LEMMA LeafMap ==
    ASSUME NEW E, NEW i, Leaf(E, i)
    PROVE  Map(E, i) = <<>>
  <1>1. {y \in Names : Look(E, i, y) # 0} = {}
    BY DEF Leaf
  <1> QED
    BY <1>1 DEF Map

LEMMA MapDomain ==
    ASSUME NEW E, NEW d
    PROVE  /\ DOMAIN Map(E, d) = {y \in Names : Look(E, d, y) # 0}
           /\ \A n \in DOMAIN Map(E, d) : Map(E, d)[n] = Look(E, d, n)
  BY DEF Map

\* A name comes or goes.
LEMMA MapDiffers ==
    ASSUME NEW E, NEW F, NEW d \in Inodes, NEW n \in Names, NEW i, Differs(E, F, d, n, i)
    PROVE  /\ \A x \in Inodes : x # d => Map(F, x) = Map(E, x)
           /\ i # 0 => Map(F, d) = Maps!With(Map(E, d), n, i)
           /\ i = 0 => Map(F, d) = Maps!Without(Map(E, d), n)
  <1>1. \A x \in Inodes, y \in Names : Look(F, x, y) = IF x = d /\ y = n THEN i ELSE Look(E, x, y)
    BY DEF Differs
  <1>2. ASSUME NEW x \in Inodes, x # d PROVE Map(F, x) = Map(E, x)
    BY <1>1, <1>2 DEF Map
  <1>3. ASSUME i # 0 PROVE Map(F, d) = Maps!With(Map(E, d), n, i)
    <2>1. {y \in Names : Look(F, d, y) # 0} = {y \in Names : Look(E, d, y) # 0} \union {n}
      BY <1>1, <1>3
    <2>2. \A y \in {y \in Names : Look(F, d, y) # 0} :
            Look(F, d, y) = IF y = n THEN i ELSE Map(E, d)[y]
      BY <1>1, MapDomain, ZenonT(60)
    <2> QED
      BY <2>1, <2>2, MapDomain DEF Map, Maps!With
  <1>4. ASSUME i = 0 PROVE Map(F, d) = Maps!Without(Map(E, d), n)
    <2>1. {y \in Names : Look(F, d, y) # 0} = {y \in Names : Look(E, d, y) # 0} \ {n}
      BY <1>1, <1>4
    <2>2. \A y \in {y \in Names : Look(F, d, y) # 0} : Look(F, d, y) = Map(E, d)[y]
      BY <1>1, <2>1, MapDomain, ZenonT(60)
    <2> QED
      BY <2>1, <2>2, MapDomain DEF Map, Maps!Without
  <1> QED
    BY <1>2, <1>3, <1>4

\* A name moves.
LEMMA MapMoved ==
    ASSUME NEW E, NEW F, NEW d \in Inodes, NEW n \in Names, NEW e \in Inodes, NEW m \in Names,
           Moved(E, F, d, n, e, m)
    PROVE  /\ \A x \in Inodes : x # d /\ x # e => Map(F, x) = Map(E, x)
           /\ d = e => Map(F, d) = Maps!With(Maps!Without(Map(E, d), n), m, Map(E, d)[n])
           /\ d # e => /\ Map(F, d) = Maps!Without(Map(E, d), n)
                       /\ Map(F, e) = Maps!With(Map(E, e), m, Map(E, d)[n])
  <1> DEFINE i == Look(E, d, n)
  <1>1. /\ i # 0 /\ <<d, n>> # <<e, m>>
        /\ \A x \in Inodes, y \in Names :
            Look(F, x, y) = IF x = e /\ y = m THEN i ELSE IF x = d /\ y = n THEN 0 ELSE Look(E, x, y)
    BY DEF Moved
  <1>2. Map(E, d)[n] = i
    BY <1>1, MapDomain
  <1> HIDE DEF i
  <1>3. ASSUME NEW x \in Inodes, x # d, x # e PROVE Map(F, x) = Map(E, x)
    BY <1>1, <1>3 DEF Map
  <1>4. ASSUME d = e PROVE Map(F, d) = Maps!With(Maps!Without(Map(E, d), n), m, i)
    <2> DEFINE U == Maps!Without(Map(E, d), n)
    <2>0. DOMAIN U = {y \in Names : Look(E, d, y) # 0} \ {n} /\ \A y \in DOMAIN U : U[y] = Look(E, d, y)
      BY MapDomain DEF Maps!Without
    <2>1. {y \in Names : Look(F, d, y) # 0} = DOMAIN U \union {m}
      BY <1>1, <1>4, <2>0
    <2>2. \A y \in {y \in Names : Look(F, d, y) # 0} : Look(F, d, y) = IF y = m THEN i ELSE U[y]
      BY <1>1, <1>4, <2>0, <2>1
    <2> HIDE DEF U
    <2>3. Map(F, d) = Maps!With(U, m, i)
      BY <2>1, <2>2 DEF Map, Maps!With
    <2> QED
      BY <2>3 DEF U
  <1>5. ASSUME d # e PROVE Map(F, d) = Maps!Without(Map(E, d), n)
    <2>1. {y \in Names : Look(F, d, y) # 0} = {y \in Names : Look(E, d, y) # 0} \ {n}
      BY <1>1, <1>5
    <2>2. ASSUME NEW y \in {y \in Names : Look(F, d, y) # 0} PROVE Look(F, d, y) = Map(E, d)[y]
      <3>1. y \in Names /\ y # n /\ Look(E, d, y) # 0
        BY <2>1
      <3>2. Look(F, d, y) = Look(E, d, y)
        BY <1>1, <1>5, <3>1
      <3>3. Map(E, d)[y] = Look(E, d, y)
        BY <3>1, MapDomain
      <3> QED
        BY <3>2, <3>3
    <2>3. PICK f : f = Map(E, d)
      OBVIOUS
    <2>4. Map(F, d) = [y \in DOMAIN f \ {n} |-> f[y]]
      <3>1. DOMAIN f = {y \in Names : Look(E, d, y) # 0}
        BY <2>3, MapDomain
      <3> QED
        BY <2>1, <2>2, <2>3, <3>1 DEF Map
    <2> QED
      BY <2>3, <2>4 DEF Maps!Without
  <1>6. ASSUME d # e PROVE Map(F, e) = Maps!With(Map(E, e), m, i)
    <2>1. {y \in Names : Look(F, e, y) # 0} = {y \in Names : Look(E, e, y) # 0} \union {m}
      BY <1>1, <1>6
    <2>2. \A y \in {y \in Names : Look(F, e, y) # 0} : Look(F, e, y) = IF y = m THEN i ELSE Map(E, e)[y]
      BY <1>1, <1>6, <2>1, MapDomain, ZenonT(60)
    <2> QED
      BY <2>1, <2>2, MapDomain DEF Map, Maps!With
  <1> QED
    BY <1>2, <1>3, <1>4, <1>5, <1>6

\* A step on entries is a step on their maps.
LEMMA MapStepIsNext ==
    ASSUME Held = MapsOf(entries), Held' = MapsOf(entries'), IsEntries(entries), MapStep(entries, entries')
    PROVE  [Maps!Next]_Held
  <1> DEFINE E == entries
             F == entries'
  <1>0. \A x \in Inodes : Held[x] = Map(E, x) /\ Held'[x] = Map(F, x)
    BY DEF MapsOf
  <1>1. Held = [x \in Inodes |-> Map(E, x)] /\ Held' = [x \in Inodes |-> Map(F, x)]
    BY DEF MapsOf
  <1>2. CASE E = F
    BY <1>2
  <1>3. ASSUME NEW d \in Inodes, NEW n \in Names, NEW i \in Inodes, Named(E, F, d, n, i)
        PROVE  Maps!Enter(d, n, i)
    <2>1. /\ Look(E, d, n) = 0 /\ i # Root /\ i # d /\ Leaf(E, i) /\ Differs(E, F, d, n, i) /\ i # 0
      BY <1>3, InodeFacts DEF Named
    <2>2. n \notin DOMAIN Held[d] /\ Held[i] = <<>>
      BY <1>0, <2>1, MapDomain, LeafMap
    <2>3. Map(F, d) = Maps!With(Held[d], n, i) /\ \A x \in Inodes : x # d => Map(F, x) = Held[x]
      BY <1>0, <2>1, MapDiffers
    <2>4. Held' = [Held EXCEPT ![d] = Maps!With(Held[d], n, i)]
      BY <1>1, <2>3
    <2> QED
      BY <2>1, <2>2, <2>4 DEF Maps!Enter
  <1>4. ASSUME NEW d \in Inodes, NEW n \in Names, Unnamed(E, F, d, n)
        PROVE  Maps!Remove(d, n)
    <2>1. Look(E, d, n) # 0 /\ Leaf(E, Look(E, d, n)) /\ Differs(E, F, d, n, 0) /\ Look(E, d, n) \in Inodes
      BY <1>4, LookType DEF Unnamed
    <2>2. n \in DOMAIN Held[d] /\ Held[d][n] = Look(E, d, n)
      BY <1>0, <2>1, MapDomain
    <2>3. Held[Held[d][n]] = <<>>
      BY <1>0, <2>1, <2>2, LeafMap
    <2>4. Map(F, d) = Maps!Without(Held[d], n) /\ \A x \in Inodes : x # d => Map(F, x) = Held[x]
      BY <1>0, <2>1, MapDiffers
    <2>5. Held' = [Held EXCEPT ![d] = Maps!Without(Held[d], n)]
      BY <1>1, <2>4
    <2> QED
      BY <2>2, <2>3, <2>5 DEF Maps!Remove
  <1>5. ASSUME NEW d \in Inodes, NEW n \in Names, NEW e \in Inodes, NEW m \in Names, Moved(E, F, d, n, e, m)
        PROVE  Maps!Move(d, n, e, m)
    <2>1. Look(E, d, n) # 0 /\ <<d, n>> # <<e, m>> /\ (Look(E, e, m) # 0 => Leaf(E, Look(E, e, m)))
      BY <1>5 DEF Moved
    <2>2. n \in DOMAIN Held[d]
      BY <1>0, <2>1, MapDomain
    <2>3. ASSUME m \in DOMAIN Held[e] PROVE Held[Held[e][m]] = <<>>
      <3>1. Held[e][m] = Look(E, e, m) /\ Look(E, e, m) # 0
        BY <1>0, <2>3, MapDomain
      <3>2. Look(E, e, m) \in Inodes
        BY <3>1, LookType
      <3> QED
        BY <1>0, <2>1, <3>1, <3>2, LeafMap
    <2>4. /\ \A x \in Inodes : x # d /\ x # e => Map(F, x) = Held[x]
          /\ d = e => Map(F, d) = Maps!With(Maps!Without(Held[d], n), m, Held[d][n])
          /\ d # e => /\ Map(F, d) = Maps!Without(Held[d], n)
                      /\ Map(F, e) = Maps!With(Held[e], m, Held[d][n])
      BY <1>0, <1>5, MapMoved
    <2>5. Held' = IF d = e THEN [Held EXCEPT ![d] = Maps!With(Maps!Without(Held[d], n), m, Held[d][n])]
                  ELSE [Held EXCEPT ![d] = Maps!Without(Held[d], n), ![e] = Maps!With(Held[e], m, Held[d][n])]
      BY <1>1, <2>4
    <2>6. Held' = IF d = e THEN [Held EXCEPT ![d] = Maps!With(Maps!Without(@, n), m, Held[d][n])]
                  ELSE [Held EXCEPT ![d] = Maps!Without(@, n), ![e] = Maps!With(@, m, Held[d][n])]
      BY <1>1, <2>5
    <2> QED
      BY <2>1, <2>2, <2>3, <2>6 DEF Maps!Move
  <1> QED
    BY <1>2, <1>3, <1>4, <1>5 DEF MapStep, Maps!Next

\* The directories are the maps they are taken for, until a write fails.
Mapped == failed \/ Held = MapsOf(entries)

\* An operation that no failed write cut short enters, removes or moves one name, at once, or
\* changes no name; with a name never goes a directory that still has names.
THEOREM NameMapsCorrect ==
    ASSUME Handled
    PROVE  Spec => ImplementsNameMaps
  <1>1. Init => Maps!Init
    <2> SUFFICES ASSUME Init PROVE Maps!Init
      OBVIOUS
    <2>1. entries = [i \in Inodes |-> <<>>] /\ IsEntries(entries)
      BY InitInv, WholeFacts DEF Init
    <2>2. \A i \in Inodes : Leaf(entries, i)
      BY <2>1, EmptyLooks DEF Leaf
    <2>3. Held = MapsOf(entries)
      BY <2>1, HeldIs
    <2> QED
      BY <2>2, <2>3, LeafMap DEF Maps!Init, MapsOf
  <1>2. Inv \/ Ruin => Mapped
    BY WholeFacts, HeldIs DEF Ruin, Mapped
  <1>3. (Inv \/ Ruin) /\ Mapped' /\ [Next]_vars => [failed' \/ Maps!Next]_Held
    <2> SUFFICES ASSUME Inv \/ Ruin, Mapped', [Next]_vars, ~failed'
                 PROVE  [Maps!Next]_Held
      OBVIOUS
    <2>0. Inv /\ Held = MapsOf(entries) /\ IsEntries(entries) /\ (Held = MapsOf(entries))'
      BY RuinStays, WholeFacts, HeldIs DEF Ruin, Mapped
    <2>1. MapStep(entries, entries')
      BY <2>0, StepInv
    <2>2. Held' = MapsOf(entries')
      BY <2>0
    <2> QED
      BY <2>0, <2>1, <2>2, MapStepIsNext
  <1> QED
    BY <1>1, <1>2, <1>3, InvCorrect, PTL DEF Spec, ImplementsNameMaps

-----------------------------------------------------------------------------
(* File data *)

\* What holds of a file as long as no write fails: it has at most one extent item, which
\* holds what callers have left in it; an unused inode number has none.
Fits(r, xs, ws) ==
    IF r.kind = "none" THEN xs = <<>>
    ELSE r.size = Len(ws) /\ ((xs = <<>> /\ ws = <<>>) \/ (Len(xs) = 1 /\ xs[1].words = ws))
Sound(I, X, c) == \A i \in Inodes : Fits(I[i], X[i], c[i])

\* The places of the extents of inode i, and that no two inodes share one.
Places(X, i) == {X[i][k].at : k \in DOMAIN X[i]} \ {0}
Alone(X) == \A i, j \in Inodes : i # j => Places(X, i) \cap Places(X, j) = {}
Fewer(X, Y) == \A i \in Inodes : Places(Y, i) \subseteq Places(X, i)

\* Callers make only calls that the driver handles, and no write has failed.
Trusted == Handled /\ "write" \notin Beyond /\ ~failed

\* Result s, with the contents c of the files.
Shape(s) ==
    /\ DOMAIN s = Fields /\ DOMAIN s.inode = Inodes /\ s.extents \in ExtentMap
    /\ \A i \in Inodes : DOMAIN s.inode[i] = {"kind", "nlink", "size"}
Sane(s, c) ==
    /\ Shape(s) /\ Alone(s.extents)
    /\ Trusted /\ s.torn # TRUE => Sound(s.inode, s.extents, c)

LEMMA AloneFewer ==
    ASSUME NEW X, NEW Y, Alone(X), Fewer(X, Y)
    PROVE  Alone(Y)
  BY Zenon DEF Alone, Fewer

LEMMA SaneSame ==
    ASSUME NEW s, NEW c, Sane(s, c), NEW t, DOMAIN t = Fields, t.inode = s.inode, t.extents = s.extents,
           t.torn = s.torn \/ t.torn = TRUE
    PROVE  Sane(t, c)
  BY DEF Sane, Shape

LEMMA SaneFail ==
    ASSUME NEW s, NEW c, Sane(s, c)
    PROVE  Sane(Fail(s), c) /\ Sane(Torn(s), c) /\ Sane(Unchecked(s), c)
  <1>0. DOMAIN s = Fields
    BY DEF Sane, Shape
  <1>1. /\ DOMAIN Fail(s) = Fields /\ Fail(s).inode = s.inode /\ Fail(s).extents = s.extents /\ Fail(s).torn = s.torn
        /\ DOMAIN Torn(s) = Fields /\ Torn(s).inode = s.inode /\ Torn(s).extents = s.extents /\ Torn(s).torn = TRUE
        /\ DOMAIN Unchecked(s) = Fields /\ Unchecked(s).inode = s.inode /\ Unchecked(s).extents = s.extents
        /\ Unchecked(s).torn = s.torn
    BY <1>0 DEF Fail, Torn, Unchecked, Fields
  <1>2. Sane(Fail(s), c)
    BY <1>1, SaneSame
  <1>3. Sane(Torn(s), c)
    BY <1>1, SaneSame
  <1>4. Sane(Unchecked(s), c)
    BY <1>1, SaneSame
  <1> QED
    BY <1>2, <1>3, <1>4

LEMMA SaneForget ==
    ASSUME NEW s, NEW c, Sane(s, c), NEW P
    PROVE  Sane(Forget(s, P), c)
  <1> DEFINE t == [s EXCEPT !.cache = [p \in DOMAIN s.cache \ P |-> s.cache[p]]]
  <1>1. Forget(s, P) = IF s.ok THEN t ELSE s
    BY DEF Forget, Then
  <1>2. DOMAIN t = Fields /\ t.inode = s.inode /\ t.extents = s.extents /\ t.torn = s.torn
    BY DEF Sane, Shape, Fields
  <1> HIDE DEF t
  <1>3. Sane(t, c)
    BY <1>2, SaneSame
  <1> QED
    BY <1>1, <1>3

LEMMA SaneResolve ==
    ASSUME NEW s, NEW c, Sane(s, c), NEW p
    PROVE  Sane(resolvePath(s, p), c)
  <1>1. DOMAIN s = Fields
    BY DEF Sane, Shape
  <1>2. ASSUME NEW i, NEW C PROVE Sane([s EXCEPT !.ino = i, !.cache = C], c)
    <2> DEFINE t == [s EXCEPT !.ino = i, !.cache = C]
    <2>1. DOMAIN t = Fields /\ t.inode = s.inode /\ t.extents = s.extents /\ t.torn = s.torn
      BY <1>1 DEF Fields
    <2> HIDE DEF t
    <2>2. Sane(t, c)
      BY <2>1, SaneSame
    <2> QED
      BY <2>2 DEF t
  <1>3. ASSUME NEW i PROVE Sane([s EXCEPT !.ino = i], c)
    <2> DEFINE t == [s EXCEPT !.ino = i]
    <2>1. DOMAIN t = Fields /\ t.inode = s.inode /\ t.extents = s.extents /\ t.torn = s.torn
      BY <1>1 DEF Fields
    <2> HIDE DEF t
    <2>2. Sane(t, c)
      BY <2>1, SaneSame
    <2> QED
      BY <2>2 DEF t
  <1> DEFINE i == Resolved(s, p)
             D == Store(s.cache, p, i)
  <1>4. resolvePath(s, p) = IF p = <<>> THEN [s EXCEPT !.ino = Root]
                            ELSE IF p \in DOMAIN s.cache THEN [s EXCEPT !.ino = s.cache[p]]
                            ELSE IF i = 0 THEN Fail(s)
                            ELSE [s EXCEPT !.ino = i, !.cache = D]
    BY DEF resolvePath
  <1> HIDE DEF i, D
  <1>5. Sane([s EXCEPT !.ino = Root], c) /\ Sane([s EXCEPT !.ino = s.cache[p]], c)
    BY <1>3
  <1>6. Sane([s EXCEPT !.ino = i, !.cache = D], c) /\ Sane(Fail(s), c)
    BY <1>2, SaneFail
  <1> QED
    BY <1>4, <1>5, <1>6

\* What a tree write leaves.
LEMMA WriteIs ==
    ASSUME NEW s, DOMAIN s = Fields, NEW new, DOMAIN new = Fields, new.torn = s.torn, new.ok = s.ok
    PROVE  LET t == TreeWrite(s, new)
           IN  /\ DOMAIN t = Fields
               /\ \/ t.torn = TRUE /\ t.ok = FALSE /\ t.inode = s.inode /\ t.extents = s.extents /\ t.taken = s.taken
                  \/ t.torn = s.torn /\ t.ok = s.ok /\ t.inode = new.inode /\ t.extents = new.extents
  <1> DEFINE t == [new EXCEPT !.bad = IF s.bad = 0 THEN 0 ELSE s.bad - 1]
  <1>1. TreeWrite(s, new) = IF s.bad = 1 THEN Torn(s) ELSE t
    BY DEF TreeWrite
  <1>2. DOMAIN t = Fields /\ t.torn = s.torn /\ t.ok = s.ok /\ t.inode = new.inode /\ t.extents = new.extents
    BY DEF Fields
  <1>3. DOMAIN Torn(s) = Fields /\ Torn(s).torn = TRUE /\ Torn(s).ok = FALSE /\ Torn(s).inode = s.inode
        /\ Torn(s).extents = s.extents /\ Torn(s).taken = s.taken
    BY DEF Torn, Fields
  <1> HIDE DEF t
  <1> QED
    BY <1>1, <1>2, <1>3

LEMMA SaneWrite ==
    ASSUME NEW s, NEW c, Sane(s, c), NEW new, Sane(new, c), new.torn = s.torn, new.ok = s.ok
    PROVE  Sane(TreeWrite(s, new), c)
  <1> DEFINE t == TreeWrite(s, new)
  <1>1. DOMAIN s = Fields /\ DOMAIN new = Fields
    BY DEF Sane, Shape
  <1>2. /\ DOMAIN t = Fields
        /\ \/ t.torn = TRUE /\ t.inode = s.inode /\ t.extents = s.extents
           \/ t.torn = new.torn /\ t.inode = new.inode /\ t.extents = new.extents
    BY <1>1, WriteIs
  <1> HIDE DEF t
  <1>3. Sane(t, c)
    BY <1>2, SaneSame
  <1> QED
    BY <1>3 DEF t

LEMMA SaneEntries ==
    ASSUME NEW s, NEW c, Sane(s, c), NEW d, NEW x, NEW y
    PROVE  Sane(AddEntry(s, d, x, y), c) /\ Sane(DeleteEntry(s, d, x), c)
  <1>1. ASSUME NEW es PROVE Sane(TreeWrite(s, [s EXCEPT !.entries[d] = es]), c)
    <2> DEFINE new == [s EXCEPT !.entries[d] = es]
    <2>1. DOMAIN new = Fields /\ new.inode = s.inode /\ new.extents = s.extents /\ new.torn = s.torn /\ new.ok = s.ok
      BY DEF Sane, Shape, Fields
    <2> HIDE DEF new
    <2>2. Sane(new, c)
      BY <2>1, SaneSame
    <2>3. Sane(TreeWrite(s, new), c)
      BY <2>1, <2>2, SaneWrite
    <2> QED
      BY <2>3 DEF new
  <1>2. AddEntry(s, d, x, y) = TreeWrite(s, [s EXCEPT !.entries[d] = Append(s.entries[d], [name |-> x, ino |-> y])])
    BY DEF AddEntry
  <1>3. DeleteEntry(s, d, x) = IF x = 0 THEN Fail(s)
                               ELSE TreeWrite(s, [s EXCEPT !.entries[d] = RemoveAt(s.entries[d], x)])
    BY DEF DeleteEntry
  <1>4. Sane(AddEntry(s, d, x, y), c)
    BY <1>1, <1>2
  <1>5. Sane(DeleteEntry(s, d, x), c)
    BY <1>1, <1>3, SaneFail
  <1> QED
    BY <1>4, <1>5

\* A write of an inode that leaves the size alone.
LEMMA SaneLinks ==
    ASSUME NEW s, NEW c, Sane(s, c), NEW i, NEW r,
           i \in Inodes => /\ DOMAIN r = {"kind", "nlink", "size"} /\ r.size = s.inode[i].size
                           /\ (r.kind = "none") <=> (s.inode[i].kind = "none")
    PROVE  Sane(PutInode(s, i, r), c)
  <1> DEFINE new == [s EXCEPT !.inode[i] = r]
             J == [s.inode EXCEPT ![i] = r]
  <1>1. DOMAIN s.inode = Inodes /\ Shape(s)
    BY DEF Sane, Shape
  <1>2. DOMAIN new = Fields /\ new.inode = J /\ new.extents = s.extents /\ new.torn = s.torn /\ new.ok = s.ok
    BY <1>1 DEF Shape, Fields
  <1>3. DOMAIN J = Inodes /\ \A j \in Inodes : J[j] = IF j = i THEN r ELSE s.inode[j]
    BY <1>1
  <1> HIDE DEF new, J
  <1>4. Shape(new)
    BY <1>1, <1>2, <1>3 DEF Shape
  <1>5. ASSUME Sound(s.inode, s.extents, c) PROVE Sound(J, s.extents, c)
    <2> SUFFICES ASSUME NEW j \in Inodes PROVE Fits(J[j], s.extents[j], c[j])
      BY DEF Sound
    <2>1. Fits(s.inode[j], s.extents[j], c[j])
      BY <1>5 DEF Sound
    <2> QED
      BY <1>3, <2>1 DEF Fits
  <1>6. Sane(new, c)
    BY <1>2, <1>4, <1>5 DEF Sane
  <1>7. Sane(TreeWrite(s, new), c)
    BY <1>2, <1>6, SaneWrite
  <1> QED
    BY <1>7 DEF PutInode, new

\* Y is X but for the extents xs of inode i, which are at places where it had some.
Shrunk(X, Y, i, xs) ==
    Y \in ExtentMap /\ Fewer(X, Y) /\ \A j \in Inodes : Y[j] = IF j = i THEN xs ELSE X[j]

LEMMA FewerOne ==
    ASSUME NEW X \in ExtentMap, NEW i, NEW xs,
           i \in Inodes => xs \in Seq(Extent) /\ \A k \in DOMAIN xs : \E m \in DOMAIN X[i] : xs[k].at = X[i][m].at
    PROVE  Shrunk(X, [X EXCEPT ![i] = xs], i, xs)
  <1> DEFINE Y == [X EXCEPT ![i] = xs]
  <1>1. \A j \in Inodes : Y[j] = IF j = i THEN xs ELSE X[j]
    BY DEF ExtentMap
  <1>2. Y \in ExtentMap
    BY DEF ExtentMap
  <1> HIDE DEF Y
  <1>3. ASSUME NEW j \in Inodes PROVE Places(Y, j) \subseteq Places(X, j)
    <2>1. CASE j = i
      <3>1. Y[j] = xs /\ i \in Inodes
        BY <1>1, <2>1
      <3> QED
        BY <2>1, <3>1 DEF Places
    <2>2. CASE j # i
      BY <1>1, <2>2 DEF Places
    <2> QED
      BY <2>1, <2>2
  <1>4. Fewer(X, Y)
    BY <1>3 DEF Fewer
  <1> QED
    BY <1>1, <1>2, <1>4 DEF Y, Shrunk

\* The extents of an inode that is gone are deleted.
LEMMA SaneDelete ==
    ASSUME NEW s, NEW c, Shape(s), Alone(s.extents), NEW i,
           i \in Inodes /\ s.torn # TRUE => s.inode[i].kind = "none",
           Trusted /\ s.torn # TRUE => \A j \in Inodes : j # i => Fits(s.inode[j], s.extents[j], c[j])
    PROVE  Sane(DeleteExtents(s, i), c)
  <1> DEFINE xs == s.extents[i]
             n == Len(xs)
             ys == SubSeq(xs, 1, 1)
             X == [s.extents EXCEPT ![i] = ys]
             Y == [s.extents EXCEPT ![i] = <<>>]
             a == [s EXCEPT !.extents[i] = ys]
             u == Unchecked(Torn(a))
             b == [s EXCEPT !.extents[i] = <<>>, !.bad = IF @ = 0 THEN 0 ELSE @ - n]
  <1>1. DeleteExtents(s, i) = IF s.bad \in 1 .. n THEN u ELSE b
    BY DEF DeleteExtents
  <1>2. s.extents \in ExtentMap /\ DOMAIN s = Fields
    BY DEF Shape
  <1>3. DOMAIN b = Fields /\ b.extents = Y /\ b.inode = s.inode /\ b.torn = s.torn
    BY <1>2 DEF Fields
  <1>4. DOMAIN a = Fields /\ a.extents = X /\ a.inode = s.inode
    BY <1>2 DEF Fields
  <1> HIDE DEF b, a
  <1>5. DOMAIN u = Fields /\ u.extents = X /\ u.inode = s.inode /\ u.torn = TRUE
    BY <1>4 DEF Torn, Unchecked, Fields
  <1> HIDE DEF u
  <1>6. /\ Y \in ExtentMap /\ Fewer(s.extents, Y) /\ \A j \in Inodes : Y[j] = IF j = i THEN <<>> ELSE s.extents[j]
    <2>0. <<>> \in Seq(Extent) /\ DOMAIN <<>> = {}
      OBVIOUS
    <2>1. PICK e : e = <<>> /\ e \in Seq(Extent) /\ DOMAIN e = {}
      BY <2>0, Zenon
    <2>2. \A k \in DOMAIN e : \E m \in DOMAIN s.extents[i] : e[k].at = s.extents[i][m].at
      BY <2>1
    <2> DEFINE Z == [s.extents EXCEPT ![i] = e]
    <2>3. Shrunk(s.extents, Z, i, e)
      <3>1. i \in Inodes => e \in Seq(Extent) /\ \A k \in DOMAIN e : \E m \in DOMAIN s.extents[i] : e[k].at = s.extents[i][m].at
        BY <2>1, <2>2
      <3> QED
        BY <1>2, <3>1, FewerOne
    <2> QED
      BY <2>1, <2>3 DEF Shrunk
  <1>7. Sane(b, c)
    <2>1. Shape(b) /\ Alone(b.extents)
      <3> HIDE DEF Y
      <3> QED
        BY <1>3, <1>6, AloneFewer DEF Shape
    <2>2. ASSUME Trusted, b.torn # TRUE PROVE Sound(b.inode, b.extents, c)
      <3> HIDE DEF Y
      <3> SUFFICES ASSUME NEW j \in Inodes PROVE Fits(b.inode[j], b.extents[j], c[j])
        BY DEF Sound
      <3>1. CASE j = i
        BY <1>3, <1>6, <2>2, <3>1 DEF Fits
      <3>2. CASE j # i
        BY <1>3, <1>6, <2>2, <3>2
      <3> QED
        BY <3>1, <3>2
    <2> QED
      BY <2>1, <2>2 DEF Sane
  <1>8. ASSUME s.bad \in 1 .. n PROVE Sane(u, c)
    <2>1. ASSUME i \in Inodes
          PROVE  ys \in Seq(Extent) /\ \A k \in DOMAIN ys : \E m \in DOMAIN xs : ys[k].at = xs[m].at
      <3>1. xs \in Seq(Extent) /\ n \in Nat
        BY <1>2, <2>1 DEF ExtentMap
      <3>2. n >= 1 /\ 1 \in 0 .. n
        BY <1>8, <3>1
      <3> HIDE DEF xs
      <3>3. ys \in Seq(Extent)
        BY <3>1, <3>2, FirstOnly
      <3>4. DOMAIN ys = 1 .. 1 /\ ys[1] = xs[1] /\ 1 \in DOMAIN xs
        BY <3>1, <3>2
      <3> QED
        BY <3>3, <3>4
    <2> HIDE DEF ys
    <2>2. X \in ExtentMap /\ Fewer(s.extents, X)
      BY <1>2, <2>1, FewerOne DEF Shrunk
    <2> HIDE DEF X
    <2>3. Shape(u) /\ Alone(u.extents)
      BY <1>5, <2>2, AloneFewer DEF Shape
    <2> QED
      BY <1>5, <2>3 DEF Sane
  <1> QED
    BY <1>1, <1>7, <1>8

\* The inode goes, then its extents.
LEMMA SaneGone ==
    ASSUME NEW s, NEW c, Sane(s, c), NEW i
    PROVE  LET d == PutInode(s, i, NoInode)
           IN  /\ Sane(DeleteExtents(Unchecked(d), i), c)
               /\ s.ok => Sane(IF d.ok THEN DeleteExtents(d, i) ELSE d, c)
  <1> DEFINE J == [s.inode EXCEPT ![i] = NoInode]
             new == [s EXCEPT !.inode[i] = NoInode]
             d == PutInode(s, i, NoInode)
  <1>1. DOMAIN s.inode = Inodes /\ Shape(s) /\ DOMAIN s = Fields
    BY DEF Sane, Shape
  <1>2. DOMAIN new = Fields /\ new.inode = J /\ new.extents = s.extents /\ new.torn = s.torn /\ new.ok = s.ok
    BY <1>1 DEF Fields
  <1>3. DOMAIN J = Inodes /\ \A j \in Inodes : J[j] = IF j = i THEN NoInode ELSE s.inode[j]
    BY <1>1
  <1>4. d = TreeWrite(s, new)
    BY DEF PutInode
  <1> HIDE DEF new, J, d
  <1>5. /\ DOMAIN d = Fields /\ d.extents = s.extents
        /\ \/ d.torn = TRUE /\ d.ok = FALSE /\ d.inode = s.inode
           \/ d.torn = s.torn /\ d.ok = s.ok /\ d.inode = J
    BY <1>1, <1>2, <1>4, WriteIs
  <1>6. NoInode.kind = "none" /\ DOMAIN NoInode = {"kind", "nlink", "size"}
    BY DEF NoInode
  <1>7. Shape(d) /\ Alone(d.extents)
    BY <1>1, <1>3, <1>5, <1>6 DEF Sane, Shape
  <1>8. i \in Inodes /\ d.torn # TRUE => d.inode[i].kind = "none"
    BY <1>3, <1>5, <1>6
  <1>9. Trusted /\ d.torn # TRUE => \A j \in Inodes : j # i => Fits(d.inode[j], d.extents[j], c[j])
    BY <1>3, <1>5 DEF Sane, Sound
  <1>10. Sane(DeleteExtents(d, i), c)
    BY <1>7, <1>8, <1>9, SaneDelete
  <1> DEFINE v == Unchecked(d)
  <1>11. DOMAIN v = Fields /\ v.inode = d.inode /\ v.extents = d.extents /\ v.torn = d.torn
    BY <1>5 DEF Unchecked, Fields
  <1> HIDE DEF v
  <1>12. Shape(v) /\ Alone(v.extents)
    BY <1>7, <1>11 DEF Shape
  <1>13. Sane(DeleteExtents(v, i), c)
    BY <1>8, <1>9, <1>11, <1>12, SaneDelete
  <1>14. ASSUME s.ok, ~d.ok PROVE Sane(d, c)
    <2>1. d.torn = TRUE /\ d.inode = s.inode
      BY <1>5, <1>14
    <2> QED
      BY <1>5, <2>1, SaneSame
  <1> QED
    BY <1>10, <1>13, <1>14 DEF d, v

LEMMA SaneDrop ==
    ASSUME NEW s, NEW c, Sane(s, c), s.ok, NEW i
    PROVE  Sane(DropLink(s, i), c) /\ Sane(DropTarget(s, i), c)
  <1> DEFINE r == s.inode[i]
             n == IF r.nlink > 0 THEN r.nlink - 1 ELSE 0
             d == PutInode(s, i, NoInode)
             l == [r EXCEPT !.nlink = n]
             g == IF d.ok THEN DeleteExtents(d, i) ELSE d
             h == DeleteExtents(Unchecked(d), i)
             t == DropLink(s, i)
  <1>1. t = IF r.kind = "none" THEN s ELSE IF n > 0 THEN PutInode(s, i, l) ELSE g
    BY DEF DropLink, Then
  <1>2. DropTarget(s, i) = IF r.kind # "none" /\ r.nlink <= 1 THEN h ELSE Unchecked(t)
    BY DEF DropTarget
  <1>3. Sane(h, c) /\ Sane(g, c)
    BY SaneGone
  <1> HIDE DEF g, h, t, n
  <1>4. ASSUME i \in Inodes
        PROVE  DOMAIN l = {"kind", "nlink", "size"} /\ l.size = r.size /\ l.kind = r.kind
    <2>1. DOMAIN r = {"kind", "nlink", "size"}
      BY <1>4 DEF Sane, Shape
    <2> HIDE DEF r
    <2> QED
      BY <2>1
  <1> HIDE DEF l
  <1>5. Sane(PutInode(s, i, l), c)
    BY <1>4, SaneLinks
  <1>6. Sane(t, c)
    BY <1>1, <1>3, <1>5
  <1>7. Sane(Unchecked(t), c)
    BY <1>6, SaneFail
  <1> QED
    BY <1>2, <1>3, <1>6, <1>7 DEF t

\* Chmod, Link, Unlink, Rmdir and Rename.
LEMMA SaneChmod ==
    ASSUME NEW s, NEW c, Sane(s, c), NEW p
    PROVE  Sane(Chmod(s, p), c)
  <1> DEFINE w == resolvePath(s, p)
             r == [w.inode[w.ino] EXCEPT !.kind = "other"]
  <1>1. Chmod(s, p) = IF w.ok THEN IF w.inode[w.ino].kind = "none" THEN Fail(w) ELSE PutInode(w, w.ino, r) ELSE w
    BY DEF Chmod, Then
  <1>2. Sane(w, c)
    BY SaneResolve
  <1> HIDE DEF w
  <1>3. ASSUME w.ino \in Inodes, w.inode[w.ino].kind # "none"
        PROVE  DOMAIN r = {"kind", "nlink", "size"} /\ r.size = w.inode[w.ino].size /\ r.kind = "other"
    BY <1>2, <1>3 DEF Sane, Shape
  <1> HIDE DEF r
  <1>4. w.inode[w.ino].kind # "none" => Sane(PutInode(w, w.ino, r), c)
    BY <1>2, <1>3, SaneLinks
  <1>5. Sane(Fail(w), c)
    BY <1>2, SaneFail
  <1> QED
    BY <1>1, <1>2, <1>4, <1>5

LEMMA SaneLink ==
    ASSUME NEW s, NEW c, Sane(s, c), NEW q, NEW p
    PROVE  Sane(Link(s, q, p), c)
  <1> DEFINE a == resolvePath(s, q)
             w == resolvePath(a, Front(p))
             r == [w.inode[a.ino] EXCEPT !.nlink = @ + 1]
             y == PutInode(w, a.ino, r)
             e == AddEntry(y, w.ino, Last(p), a.ino)
             t == Forget(e, {Front(p), q})
  <1>1. Link(s, q, p) =
            IF a.ok THEN
                IF a.inode[a.ino].kind = "dir" THEN Fail(a)
                ELSE IF w.ok THEN
                    IF lookupDirEntry(w, w.ino, Last(p)) # 0 \/ w.inode[a.ino].kind = "none" THEN Fail(w)
                    ELSE IF y.ok THEN t ELSE y
                ELSE w
            ELSE a
    BY DEF Link, Then
  <1>2. Sane(a, c) /\ Sane(Fail(a), c)
    BY SaneResolve, SaneFail
  <1>3. Sane(w, c) /\ Sane(Fail(w), c)
    BY <1>2, SaneResolve, SaneFail
  <1> HIDE DEF w, a
  <1>4. ASSUME a.ino \in Inodes
        PROVE  DOMAIN r = {"kind", "nlink", "size"} /\ r.size = w.inode[a.ino].size /\ r.kind = w.inode[a.ino].kind
    BY <1>3, <1>4 DEF Sane, Shape
  <1> HIDE DEF r
  <1>5. Sane(y, c)
    BY <1>3, <1>4, SaneLinks
  <1> HIDE DEF y
  <1>6. Sane(e, c)
    BY <1>5, SaneEntries
  <1> HIDE DEF e
  <1>7. Sane(t, c)
    BY <1>6, SaneForget
  <1> HIDE DEF t
  <1> QED
    BY <1>1, <1>2, <1>3, <1>5, <1>7

LEMMA SaneRemove ==
    ASSUME NEW s, NEW c, Sane(s, c), NEW p, NEW mustBeDir
    PROVE  Sane(removeEntry(s, p, mustBeDir), c)
  <1> DEFINE w == resolvePath(s, Front(p))
             k == Find(w, w.ino, Last(p))
             i == lookupDirEntry(w, w.ino, Last(p))
             Refused == (w.inode[i].kind = "dir") # mustBeDir \/ (mustBeDir /\ w.entries[i] # <<>>)
             e == DeleteEntry(w, w.ino, k)
             g == IF e.ok THEN DropLink(e, i) ELSE e
             t == Forget(g, {p, Front(p)})
  <1>1. removeEntry(s, p, mustBeDir) = IF w.ok THEN IF k = 0 THEN Fail(w) ELSE IF Refused THEN Fail(w) ELSE t ELSE w
    BY DEF removeEntry, Then
  <1>2. Sane(w, c) /\ Sane(Fail(w), c)
    BY SaneResolve, SaneFail
  <1> HIDE DEF w, k, i, Refused
  <1>3. Sane(e, c)
    BY <1>2, SaneEntries
  <1> HIDE DEF e
  <1>4. Sane(g, c)
    BY <1>3, SaneDrop
  <1> HIDE DEF g
  <1>5. Sane(t, c)
    BY <1>4, SaneForget
  <1> HIDE DEF t
  <1> QED
    BY <1>1, <1>2, <1>5

LEMMA SaneRename ==
    ASSUME NEW s, NEW c, Sane(s, c), NEW p, NEW q
    PROVE  Sane(Rename(s, p, q), c)
  <1> DEFINE a == resolvePath(s, Front(p))
             w == resolvePath(a, Front(q))
             k == Find(w, w.ino, Last(q))
             i == lookupDirEntry(w, a.ino, Last(p))
             j == lookupDirEntry(w, w.ino, Last(q))
             x == DeleteEntry(w, w.ino, k)
             g == IF k = 0 THEN w ELSE IF x.ok THEN DropTarget(x, j) ELSE x
             y == DeleteEntry(g, a.ino, Find(g, a.ino, Last(p)))
             z == AddEntry(y, w.ino, Last(q), i)
             v == IF g.ok THEN IF y.ok THEN z ELSE y ELSE g
             t == Forget(v, {p, q, Front(p), Front(q)})
  <1>1. Rename(s, p, q) = IF a.ok THEN IF w.ok THEN IF i = 0 THEN Fail(w) ELSE t ELSE w ELSE a
    BY DEF Rename, Then
  <1>2. Sane(a, c)
    BY SaneResolve
  <1>3. Sane(w, c) /\ Sane(Fail(w), c)
    BY <1>2, SaneResolve, SaneFail
  <1> HIDE DEF w, a, k, i, j
  <1>4. Sane(x, c)
    BY <1>3, SaneEntries
  <1> HIDE DEF x
  <1>5. Sane(g, c)
    BY <1>3, <1>4, SaneDrop
  <1> HIDE DEF g
  <1>6. Sane(y, c)
    BY <1>5, SaneEntries
  <1> HIDE DEF y
  <1>7. Sane(z, c)
    BY <1>6, SaneEntries
  <1> HIDE DEF z
  <1>8. Sane(t, c)
    <2>1. Sane(v, c)
      BY <1>5, <1>6, <1>7
    <2> HIDE DEF v
    <2> QED
      BY <2>1, SaneForget
  <1> HIDE DEF t
  <1> QED
    BY <1>1, <1>2, <1>3, <1>8

\* Everything but file i.
Half(s, c, i) ==
    /\ Shape(s) /\ Alone(s.extents)
    /\ Trusted /\ s.torn # TRUE => \A j \in Inodes : j # i => Fits(s.inode[j], s.extents[j], c[j])

LEMMA HalfOfSane ==
    ASSUME NEW s, NEW c, Sane(s, c), NEW i
    PROVE  Half(s, c, i)
  BY DEF Half, Sane, Sound

LEMMA HalfSame ==
    ASSUME NEW s, NEW c, NEW i, Half(s, c, i), NEW t, DOMAIN t = Fields, t.inode = s.inode, t.extents = s.extents,
           t.torn = s.torn \/ t.torn = TRUE
    PROVE  Half(t, c, i)
  BY DEF Half, Shape

\* The file holds ws now.
LEMMA SaneOfHalf ==
    ASSUME NEW s, NEW c, DOMAIN c = Inodes, NEW i \in Inodes, Half(s, c, i), NEW ws,
           Trusted /\ s.torn # TRUE => Fits(s.inode[i], s.extents[i], ws)
    PROVE  Sane(s, [c EXCEPT ![i] = ws])
  <1> DEFINE e == [c EXCEPT ![i] = ws]
  <1>1. \A j \in Inodes : e[j] = IF j = i THEN ws ELSE c[j]
    OBVIOUS
  <1> HIDE DEF e
  <1>2. ASSUME Trusted, s.torn # TRUE PROVE Sound(s.inode, s.extents, e)
    <2> SUFFICES ASSUME NEW j \in Inodes PROVE Fits(s.inode[j], s.extents[j], e[j])
      BY DEF Sound
    <2> QED
      BY <1>1, <1>2 DEF Half
  <1>3. Sane(s, e)
    BY <1>2 DEF Sane, Half
  <1> QED
    BY <1>3 DEF e

\* A write of the inode of file i.
Sizes(s, t, c, i, r) ==
    /\ Half(t, c, i) /\ t.extents = s.extents /\ DOMAIN t = Fields
    /\ (t.torn = TRUE /\ t.ok = FALSE) \/ (t.torn = s.torn /\ t.ok = s.ok /\ t.inode[i] = r)

LEMMA HalfSize ==
    ASSUME NEW s, NEW c, NEW i \in Inodes, Half(s, c, i), NEW r, DOMAIN r = {"kind", "nlink", "size"}
    PROVE  Sizes(s, PutInode(s, i, r), c, i, r)
  <1> DEFINE new == [s EXCEPT !.inode[i] = r]
             J == [s.inode EXCEPT ![i] = r]
             t == PutInode(s, i, r)
  <1>1. DOMAIN s.inode = Inodes /\ Shape(s) /\ DOMAIN s = Fields
    BY DEF Half, Shape
  <1>2. DOMAIN new = Fields /\ new.inode = J /\ new.extents = s.extents /\ new.torn = s.torn /\ new.ok = s.ok
    BY <1>1 DEF Fields
  <1>3. DOMAIN J = Inodes /\ \A j \in Inodes : J[j] = IF j = i THEN r ELSE s.inode[j]
    BY <1>1
  <1>4. t = TreeWrite(s, new)
    BY DEF PutInode
  <1> HIDE DEF new, J, t
  <1>5. /\ DOMAIN t = Fields /\ t.extents = s.extents
        /\ \/ t.torn = TRUE /\ t.ok = FALSE /\ t.inode = s.inode
           \/ t.torn = s.torn /\ t.ok = s.ok /\ t.inode = J
    BY <1>1, <1>2, <1>4, WriteIs
  <1>6. Half(t, c, i)
    <2>1. CASE t.inode = s.inode /\ t.torn = TRUE
      BY <1>5, <2>1, HalfSame
    <2>2. CASE t.torn = s.torn /\ t.inode = J
      BY <1>1, <1>3, <1>5, <2>2 DEF Half, Shape
    <2> QED
      BY <1>5, <2>1, <2>2
  <1> QED
    BY <1>3, <1>5, <1>6 DEF t, Sizes

\* Items at the places of the old ones and at place b, which no other file has.
PutAlone(X, Y, i, xs) ==
    Y \in ExtentMap /\ Alone(Y) /\ \A j \in Inodes : Y[j] = IF j = i THEN xs ELSE X[j]

LEMMA AlonePut ==
    ASSUME NEW X \in ExtentMap, Alone(X), NEW i \in Inodes, NEW xs \in Seq(Extent), NEW b,
           \A j \in Inodes : j # i => b \notin Places(X, j),
           \A k \in DOMAIN xs : xs[k].at \in Places(X, i) \union {b, 0}
    PROVE  PutAlone(X, [X EXCEPT ![i] = xs], i, xs)
  <1> DEFINE Y == [X EXCEPT ![i] = xs]
  <1>1. \A j \in Inodes : Y[j] = IF j = i THEN xs ELSE X[j]
    BY DEF ExtentMap
  <1>2. Y \in ExtentMap
    BY DEF ExtentMap
  <1> HIDE DEF Y
  <1>3. ASSUME NEW j \in Inodes PROVE Places(Y, j) \subseteq Places(X, j) \union (IF j = i THEN {b} ELSE {})
    <2>1. CASE j = i
      BY <1>1, <2>1 DEF Places
    <2>2. CASE j # i
      BY <1>1, <2>2 DEF Places
    <2> QED
      BY <2>1, <2>2
  <1>4. ASSUME NEW j \in Inodes, NEW k \in Inodes, j # k PROVE Places(Y, j) \cap Places(Y, k) = {}
    <2>1. Places(X, j) \cap Places(X, k) = {}
      BY <1>4 DEF Alone
    <2> QED
      BY <1>3, <1>4, <2>1
  <1>5. Alone(Y)
    BY <1>4 DEF Alone
  <1> QED
    BY <1>1, <1>2, <1>5 DEF Y, PutAlone

\* A write of the items of file i.
Puts(s, t, i, xs) ==
    \/ t.torn = TRUE /\ t.ok = FALSE
    \/ t.torn = s.torn /\ t.ok = s.ok /\ t.inode = s.inode /\ t.extents[i] = xs

LEMMA HalfPut ==
    ASSUME NEW s, NEW c, NEW i \in Inodes, Half(s, c, i), NEW xs \in Seq(Extent), NEW b,
           \A j \in Inodes : j # i => b \notin Places(s.extents, j),
           \A k \in DOMAIN xs : xs[k].at \in Places(s.extents, i) \union {b, 0}
    PROVE  LET t == TreeWrite(s, [s EXCEPT !.extents[i] = xs]) IN Half(t, c, i) /\ Puts(s, t, i, xs)
  <1> DEFINE new == [s EXCEPT !.extents[i] = xs]
             Y == [s.extents EXCEPT ![i] = xs]
             t == TreeWrite(s, new)
  <1>1. Shape(s) /\ DOMAIN s = Fields /\ s.extents \in ExtentMap /\ Alone(s.extents)
    BY DEF Half, Shape
  <1>2. DOMAIN new = Fields /\ new.inode = s.inode /\ new.extents = Y /\ new.torn = s.torn /\ new.ok = s.ok
    BY <1>1 DEF Fields
  <1>3. Y \in ExtentMap /\ Alone(Y) /\ \A j \in Inodes : Y[j] = IF j = i THEN xs ELSE s.extents[j]
    <2>1. PutAlone(s.extents, Y, i, xs)
      BY <1>1, AlonePut
    <2> QED
      BY <2>1 DEF PutAlone
  <1> HIDE DEF new, Y
  <1>5. /\ DOMAIN t = Fields /\ t.inode = s.inode
        /\ \/ t.torn = TRUE /\ t.ok = FALSE /\ t.extents = s.extents
           \/ t.torn = s.torn /\ t.ok = s.ok /\ t.extents = Y
    BY <1>1, <1>2, WriteIs
  <1> HIDE DEF t
  <1>6. Half(t, c, i)
    <2>1. CASE t.extents = s.extents /\ t.torn = TRUE
      BY <1>5, <2>1, HalfSame
    <2>2. CASE t.torn = s.torn /\ t.extents = Y
      BY <1>1, <1>3, <1>5, <2>2 DEF Half, Shape
    <2> QED
      BY <1>5, <2>1, <2>2
  <1>7. Puts(s, t, i, xs)
    BY <1>3, <1>5 DEF Puts
  <1> QED
    BY <1>6, <1>7 DEF t, new

-----------------------------------------------------------------------------
(* Create, Mkdir and Symlink *)

LEMMA SaneInsert ==
    ASSUME NEW s, NEW c, DOMAIN c = Inodes, Sane(s, c), NEW i \in Inodes, s.inode[i].kind = "none",
           NEW r, DOMAIN r = {"kind", "nlink", "size"}, r.size = 0
    PROVE  /\ Sane(PutInode(s, i, r), [c EXCEPT ![i] = <<>>])
           /\ \A ws : Sane(s, [c EXCEPT ![i] = ws])
  <1> DEFINE t == PutInode(s, i, r)
  <1>1. Half(s, c, i)
    BY HalfOfSane
  <1>2. /\ Half(t, c, i) /\ t.extents = s.extents
        /\ (t.torn = TRUE /\ t.ok = FALSE) \/ (t.torn = s.torn /\ t.ok = s.ok /\ t.inode[i] = r)
    <2>1. Sizes(s, t, c, i, r)
      BY <1>1, HalfSize
    <2> QED
      BY <2>1 DEF Sizes
  <1> HIDE DEF t
  <1>3. Trusted /\ s.torn # TRUE => s.extents[i] = <<>>
    BY DEF Sane, Sound, Fits
  <1>4. \A ws : Trusted /\ s.torn # TRUE => Fits(s.inode[i], s.extents[i], ws)
    BY <1>3 DEF Fits
  <1>5. Trusted /\ t.torn # TRUE => Fits(t.inode[i], t.extents[i], <<>>)
    BY <1>2, <1>3 DEF Fits
  <1>6. Sane(t, [c EXCEPT ![i] = <<>>])
    BY <1>2, <1>5, SaneOfHalf
  <1>7. ASSUME NEW ws PROVE Sane(s, [c EXCEPT ![i] = ws])
    BY <1>1, <1>4, SaneOfHalf
  <1> QED
    BY <1>6, <1>7 DEF t

\* The end of createFile and Symlink.
LEMMA SaneEnter ==
    ASSUME NEW s, NEW c, Sane(s, c), NEW d, NEW n, NEW i, NEW P
    PROVE  Sane(Forget(EnterNew(s, d, n, i), P), c)
  <1>1. Sane(EnterNew(s, d, n, i), c)
    BY SaneEntries, SaneFail DEF EnterNew
  <1> QED
    BY <1>1, SaneForget

LEMMA SaneCreate ==
    ASSUME NEW s, NEW c, DOMAIN c = Inodes, Sane(s, c), NEW p, NEW kind, NEW i \in Inodes,
           NewNumber(resolvePath(s, Front(p))) = i, resolvePath(s, Front(p)).inode[i].kind = "none"
    PROVE  Sane(createFile(s, p, kind), [c EXCEPT ![i] = <<>>])
  <1> DEFINE w == resolvePath(s, Front(p))
             r == [kind |-> kind, nlink |-> 1, size |-> 0]
             n == PutInode(w, i, r)
             t == Forget(EnterNew(n, w.ino, Last(p), i), {Front(p)})
             e == [c EXCEPT ![i] = <<>>]
  <1>1. createFile(s, p, kind) = IF w.ok THEN IF n.ok THEN t ELSE n ELSE w
    BY DEF createFile, Then, insertInodeItem
  <1>2. Sane(w, c) /\ w.inode[i].kind = "none"
    BY SaneResolve
  <1>3. DOMAIN r = {"kind", "nlink", "size"} /\ r.size = 0
    OBVIOUS
  <1> HIDE DEF w, r
  <1>4. Sane(n, e) /\ Sane(w, e)
    BY <1>2, <1>3, SaneInsert
  <1> HIDE DEF n, e
  <1>5. Sane(t, e)
    BY <1>4, SaneEnter
  <1> HIDE DEF t
  <1> QED
    BY <1>1, <1>4, <1>5 DEF e

\* One item more, at place b or in the item itself.
LEMMA HalfAdd ==
    ASSUME NEW s, NEW c, NEW i \in Inodes, Half(s, c, i), NEW x \in Extent,
           \A j \in Inodes : j # i => x.at \notin Places(s.extents, j)
    PROVE  LET t == TreeWrite(s, [s EXCEPT !.extents[i] = <<x>> \o @])
           IN  Half(t, c, i) /\ Puts(s, t, i, <<x>> \o s.extents[i])
  <1> DEFINE es == s.extents[i]
             xs == <<x>> \o es
             b == x.at
  <1>1. es \in Seq(Extent)
    BY DEF Half, Shape, ExtentMap
  <1>2. <<x>> \in Seq(Extent) /\ Len(<<x>>) = 1 /\ <<x>>[1] = x
    OBVIOUS
  <1>3. ASSUME NEW k \in DOMAIN xs PROVE xs[k].at \in Places(s.extents, i) \union {b, 0}
    <2>1. k \in 1 .. Len(es) + 1 /\ xs[k] = IF k = 1 THEN x ELSE es[k - 1]
      <3> HIDE DEF es
      <3> QED
        BY <1>1, <1>2, <1>3, ConcatProperties
    <2>2. CASE k = 1
      BY <2>1, <2>2
    <2>3. CASE k # 1
      <3>1. k - 1 \in DOMAIN es
        BY <1>1, <2>1, <2>3
      <3> QED
        BY <2>1, <2>3, <3>1 DEF Places
    <2> QED
      BY <2>2, <2>3
  <1>4. xs \in Seq(Extent)
    BY <1>1, <1>2, ConcatProperties
  <1>5. [s EXCEPT !.extents[i] = <<x>> \o @] = [s EXCEPT !.extents[i] = xs]
    OBVIOUS
  <1> HIDE DEF xs, b
  <1>6. \A j \in Inodes : j # i => b \notin Places(s.extents, j)
    BY DEF b
  <1> DEFINE t == TreeWrite(s, [s EXCEPT !.extents[i] = xs])
  <1>7. Half(t, c, i) /\ Puts(s, t, i, xs)
    BY <1>3, <1>4, <1>6, HalfPut
  <1> QED
    BY <1>5, <1>7 DEF xs

LEMMA SaneSymlink ==
    ASSUME NEW s, NEW c, DOMAIN c = Inodes, Sane(s, c), NEW p, NEW x \in Words, NEW i \in Inodes,
           NewNumber(resolvePath(s, Front(p))) = i, resolvePath(s, Front(p)).inode[i].kind = "none"
    PROVE  Sane(Symlink(s, p, <<x>>), [c EXCEPT ![i] = <<x>>])
  <1> DEFINE w == resolvePath(s, Front(p))
             r == [kind |-> "other", nlink |-> 1, size |-> 0]
             n == PutInode(w, i, r)
             q == [n.inode[i] EXCEPT !.size = Len(<<x>>)]
             z == PutInode(n, i, q)
             y == Inline(<<x>>)
             e == TreeWrite(z, [z EXCEPT !.extents[i] = <<y>> \o @])
             t == Forget(EnterNew(e, w.ino, Last(p), i), {Front(p)})
             f == [c EXCEPT ![i] = <<x>>]
  <1>1. Symlink(s, p, <<x>>) = IF w.ok THEN IF n.ok THEN IF z.ok THEN IF e.ok THEN t ELSE e ELSE z ELSE n ELSE w
    BY DEF Symlink, Then, insertInodeItem
  <1>2. Sane(w, c) /\ w.inode[i].kind = "none"
    BY SaneResolve
  <1>3. DOMAIN r = {"kind", "nlink", "size"} /\ r.size = 0 /\ r.kind = "other"
    OBVIOUS
  <1>4. Len(<<x>>) = 1 /\ y \in Extent /\ y.at = 0 /\ y.words = <<x>>
    <2>1. <<x>> \in Seq(Word)
      BY DEF Word
    <2> QED
      BY <2>1, InlineType DEF Inline
  <1> HIDE DEF w, r, y
  <1>5. Half(w, c, i) /\ Sane(w, f)
    BY <1>2, <1>3, HalfOfSane, SaneInsert
  <1>6. Sizes(w, n, c, i, r)
    BY <1>3, <1>5, HalfSize
  <1> HIDE DEF n
  <1>7. Half(n, c, i) /\ n.extents = w.extents
        /\ ((n.torn = TRUE /\ n.ok = FALSE) \/ (n.torn = w.torn /\ n.ok = w.ok /\ n.inode[i] = r))
    BY <1>6 DEF Sizes
  <1>8. DOMAIN q = {"kind", "nlink", "size"} /\ q.size = 1 /\ (n.inode[i] = r => q.kind = "other")
    <2>1. DOMAIN n.inode[i] = {"kind", "nlink", "size"}
      BY <1>7 DEF Half, Shape
    <2> QED
      BY <1>3, <1>4, <2>1
  <1> HIDE DEF q
  <1>9. Sizes(n, z, c, i, q)
    BY <1>7, <1>8, HalfSize
  <1> HIDE DEF z
  <1>10. Half(z, c, i) /\ z.extents = w.extents
         /\ ((z.torn = TRUE /\ z.ok = FALSE) \/ (z.torn = n.torn /\ z.ok = n.ok /\ z.inode[i] = q))
    BY <1>7, <1>9 DEF Sizes
  <1>11. \A j \in Inodes : j # i => y.at \notin Places(z.extents, j)
    BY <1>4 DEF Places
  <1>12. Half(e, c, i) /\ Puts(z, e, i, <<y>> \o z.extents[i])
    BY <1>4, <1>10, <1>11, HalfAdd
  <1> HIDE DEF e
  <1>13. (e.torn = TRUE /\ e.ok = FALSE)
         \/ (e.torn = z.torn /\ e.ok = z.ok /\ e.inode = z.inode /\ e.extents[i] = <<y>> \o z.extents[i])
    BY <1>12 DEF Puts
  <1>14. ASSUME w.ok, ~n.ok PROVE Sane(n, f)
    <2>1. n.torn = TRUE
      BY <1>7, <1>14
    <2> QED
      BY <1>7, <2>1, SaneOfHalf
  <1>15. ASSUME w.ok, n.ok, ~z.ok PROVE Sane(z, f)
    <2>1. z.torn = TRUE
      BY <1>10, <1>15
    <2> QED
      BY <1>10, <2>1, SaneOfHalf
  <1>16. ASSUME w.ok, n.ok, z.ok PROVE Sane(e, f)
    <2>1. ASSUME Trusted, e.torn # TRUE PROVE Fits(e.inode[i], e.extents[i], <<x>>)
      <3>1. e.inode[i] = q /\ e.extents[i] = <<y>> \o w.extents[i] /\ q.kind = "other" /\ w.torn # TRUE
        BY <1>7, <1>8, <1>10, <1>13, <1>16, <2>1
      <3>2. w.extents[i] = <<>>
        BY <1>2, <2>1, <3>1 DEF Sane, Sound, Fits
      <3>3. Len(e.extents[i]) = 1 /\ e.extents[i][1] = y
        BY <3>1, <3>2
      <3> QED
        BY <1>4, <1>8, <3>1, <3>3 DEF Fits
    <2> QED
      BY <1>12, <2>1, SaneOfHalf
  <1> HIDE DEF f
  <1>17. ASSUME w.ok, n.ok, z.ok PROVE Sane(t, f)
    BY <1>16, <1>17, SaneEnter
  <1> HIDE DEF t
  <1> QED
    BY <1>1, <1>5, <1>14, <1>15, <1>16, <1>17 DEF f

-----------------------------------------------------------------------------
(* Write and Truncate *)

\* The items of file i go.
LEMMA HalfDelete ==
    ASSUME NEW s, NEW c, NEW i \in Inodes, Half(s, c, i)
    PROVE  LET t == DeleteExtents(s, i)
           IN  /\ Half(t, c, i) /\ Fewer(s.extents, t.extents)
               /\ t.torn = TRUE \/ (t.torn = s.torn /\ t.ok = s.ok /\ t.inode = s.inode /\ t.extents[i] = <<>>)
  <1> DEFINE t == DeleteExtents(s, i)
             xs == s.extents[i]
             n == Len(xs)
             ys == SubSeq(xs, 1, 1)
             X == [s.extents EXCEPT ![i] = ys]
             Y == [s.extents EXCEPT ![i] = <<>>]
             a == [s EXCEPT !.extents[i] = ys]
             u == Unchecked(Torn(a))
             b == [s EXCEPT !.extents[i] = <<>>, !.bad = IF @ = 0 THEN 0 ELSE @ - n]
  <1>1. t = IF s.bad \in 1 .. n THEN u ELSE b
    BY DEF DeleteExtents
  <1>2. s.extents \in ExtentMap /\ DOMAIN s = Fields /\ xs \in Seq(Extent) /\ n \in Nat
    BY DEF Half, Shape, ExtentMap
  <1>3. DOMAIN b = Fields /\ b.extents = Y /\ b.inode = s.inode /\ b.torn = s.torn /\ b.ok = s.ok
    BY <1>2 DEF Fields
  <1>4. DOMAIN a = Fields /\ a.extents = X /\ a.inode = s.inode
    BY <1>2 DEF Fields
  <1> HIDE DEF b, a
  <1>5. DOMAIN u = Fields /\ u.extents = X /\ u.inode = s.inode /\ u.torn = TRUE
    BY <1>4 DEF Torn, Unchecked, Fields
  <1> HIDE DEF u, t
  <1>6. Shrunk(s.extents, Y, i, <<>>)
    <2>0. <<>> \in Seq(Extent) /\ DOMAIN <<>> = {}
      OBVIOUS
    <2>1. PICK e : e = <<>> /\ e \in Seq(Extent) /\ DOMAIN e = {}
      BY <2>0, Zenon
    <2>2. \A k \in DOMAIN e : \E m \in DOMAIN s.extents[i] : e[k].at = s.extents[i][m].at
      BY <2>1
    <2> DEFINE Z == [s.extents EXCEPT ![i] = e]
    <2>3. Shrunk(s.extents, Z, i, e)
      BY <1>2, <2>1, <2>2, FewerOne
    <2> QED
      BY <2>1, <2>3
  <1>7. ASSUME s.bad \in 1 .. n PROVE Shrunk(s.extents, X, i, ys)
    <2>1. n >= 1 /\ 1 \in 0 .. n
      BY <1>2, <1>7
    <2> HIDE DEF xs
    <2>2. ys \in Seq(Extent)
      BY <1>2, <2>1, FirstOnly
    <2>3. DOMAIN ys = 1 .. 1 /\ ys[1] = xs[1] /\ 1 \in DOMAIN xs
      BY <1>2, <2>1
    <2>4. \A k \in DOMAIN ys : \E m \in DOMAIN s.extents[i] : ys[k].at = s.extents[i][m].at
      BY <2>3 DEF xs
    <2> HIDE DEF ys
    <2> QED
      BY <1>2, <2>2, <2>4, FewerOne
  <1> HIDE DEF X, Y
  <1>8. CASE s.bad \in 1 .. n
    <2>1. t = u
      BY <1>1, <1>8
    <2>2. Fewer(s.extents, X) /\ X \in ExtentMap /\ Alone(X)
      BY <1>7, <1>8, AloneFewer DEF Shrunk, Half
    <2>3. Half(t, c, i)
      BY <1>5, <2>1, <2>2 DEF Half, Shape
    <2> QED
      BY <1>5, <2>1, <2>2, <2>3 DEF t
  <1>9. CASE ~(s.bad \in 1 .. n)
    <2>1. t = b
      BY <1>1, <1>9
    <2>2. Fewer(s.extents, Y) /\ Y \in ExtentMap /\ Alone(Y)
      BY <1>6, AloneFewer DEF Shrunk, Half
    <2>3. \A j \in Inodes : Y[j] = IF j = i THEN <<>> ELSE s.extents[j]
      BY <1>6 DEF Shrunk
    <2>4. Half(t, c, i)
      BY <1>3, <2>1, <2>2, <2>3 DEF Half, Shape
    <2> QED
      BY <1>3, <2>1, <2>2, <2>3, <2>4 DEF t
  <1> QED
    BY <1>8, <1>9

\* A place for an extent that no file has.
Allots(s, r, c, i) ==
    /\ Half(r, c, i) /\ r.inode = s.inode /\ r.extents = s.extents
    /\ (r.torn = TRUE /\ r.ok = FALSE) \/ (r.ok = TRUE /\ (r.torn = TRUE \/ r.torn = s.torn))
    /\ r.ok = TRUE => /\ Min(FreeBlocks(s)) \in DataBlocks
                      /\ \A j \in Inodes : Min(FreeBlocks(s)) \notin Places(s.extents, j)

LEMMA HalfNew ==
    ASSUME NEW s, NEW c, NEW i, Half(s, c, i), s.ok = TRUE
    PROVE  Allots(s, NewExtent(s), c, i)
  <1> DEFINE B == FreeBlocks(s)
             w == TreeWrite(s, s)
             v == [w EXCEPT !.taken = @ \union {Min(B)}]
             u == TreeWrite(w, v)
             r == NewExtent(s)
  <1>0. DOMAIN s = Fields
    BY DEF Half, Shape
  <1>1. B \in SUBSET Nat /\ B \subseteq DataBlocks /\ \A j \in Inodes : \A b \in B : b \notin Places(s.extents, j)
    <2>1. B \in SUBSET Nat /\ B \subseteq DataBlocks
      BY WordsAssumption DEF FreeBlocks
    <2>2. ASSUME NEW j \in Inodes, NEW b \in B, b \in Places(s.extents, j) PROVE FALSE
      <3> DEFINE Ats(m) == {s.extents[m][k].at : k \in DOMAIN s.extents[m]}
      <3>1. b \in Ats(j)
        BY <2>2 DEF Places
      <3>2. b \notin UNION {Ats(m) : m \in Inodes}
        BY Zenon DEF FreeBlocks
      <3> HIDE DEF Ats
      <3> QED
        BY <3>1, <3>2
    <2> QED
      BY <2>1, <2>2
  <1>2. r = IF B = {} THEN Torn(s) ELSE IF w.ok THEN Unchecked(u) ELSE w
    BY DEF NewExtent, Then
  <1> HIDE DEF B
  <1>3. B # {} => Min(B) \in B
    BY <1>1, MinIsSmallest
  <1>4. /\ DOMAIN w = Fields /\ w.inode = s.inode /\ w.extents = s.extents
        /\ (w.torn = TRUE /\ w.ok = FALSE) \/ (w.torn = s.torn /\ w.ok = TRUE)
    BY <1>0, WriteIs
  <1> HIDE DEF w
  <1>5. DOMAIN v = Fields /\ v.inode = s.inode /\ v.extents = s.extents /\ v.torn = w.torn /\ v.ok = w.ok
    BY <1>4 DEF Fields
  <1> HIDE DEF v
  <1>6. /\ DOMAIN u = Fields /\ u.inode = s.inode /\ u.extents = s.extents
        /\ u.torn = TRUE \/ u.torn = w.torn
    BY <1>4, <1>5, WriteIs
  <1> HIDE DEF u
  <1>7. /\ DOMAIN Unchecked(u) = Fields /\ Unchecked(u).inode = s.inode /\ Unchecked(u).extents = s.extents
        /\ Unchecked(u).torn = u.torn /\ Unchecked(u).ok = TRUE
    BY <1>6 DEF Unchecked, Fields
  <1>8. /\ DOMAIN Torn(s) = Fields /\ Torn(s).inode = s.inode /\ Torn(s).extents = s.extents
        /\ Torn(s).torn = TRUE /\ Torn(s).ok = FALSE
    BY <1>0 DEF Torn, Fields
  <1>9. /\ DOMAIN r = Fields /\ r.inode = s.inode /\ r.extents = s.extents /\ (r.torn = TRUE \/ r.torn = s.torn)
        /\ (r.torn = TRUE /\ r.ok = FALSE) \/ (r.ok = TRUE /\ B # {})
    BY <1>2, <1>4, <1>6, <1>7, <1>8
  <1> HIDE DEF r
  <1>10. Half(r, c, i)
    BY <1>9, HalfSame
  <1>11. r.ok = TRUE => Min(B) \in DataBlocks /\ \A j \in Inodes : Min(B) \notin Places(s.extents, j)
    BY <1>1, <1>3, <1>9
  <1>12. Allots(s, r, c, i)
    BY <1>9, <1>10, <1>11 DEF Allots, B
  <1> QED
    BY <1>12 DEF r

\* The size follows.
Grows(s, t, c, i, n) ==
    /\ Half(t, c, i) /\ t.extents = s.extents
    /\ t.torn = TRUE
       \/ /\ t.torn = s.torn
          /\ s.inode[i].kind # "none" =>
                /\ t.ok = TRUE /\ t.inode[i].kind = s.inode[i].kind
                /\ t.inode[i].size = Max({s.inode[i].size, n})

LEMMA HalfGrow ==
    ASSUME NEW s, NEW c, NEW i \in Inodes, Half(s, c, i), NEW n \in Nat
    PROVE  Grows(s, GrowInode(s, i, n), c, i, n)
  <1> DEFINE m == Max({s.inode[i].size, n})
             q == [s.inode[i] EXCEPT !.size = m]
             u == PutInode(s, i, q)
             t == Unchecked(u)
  <1>1. GrowInode(s, i, n) = IF s.inode[i].kind = "none" THEN s ELSE t
    BY DEF GrowInode
  <1>2. DOMAIN s.inode[i] = {"kind", "nlink", "size"}
    BY DEF Half, Shape
  <1> HIDE DEF m
  <1>3. DOMAIN q = {"kind", "nlink", "size"} /\ q.kind = s.inode[i].kind /\ q.size = m
    BY <1>2
  <1> HIDE DEF q
  <1>4. Sizes(s, u, c, i, q)
    BY <1>3, HalfSize
  <1> HIDE DEF u
  <1>5. Half(u, c, i) /\ u.extents = s.extents /\ DOMAIN u = Fields
        /\ (u.torn = TRUE \/ (u.torn = s.torn /\ u.inode[i] = q))
    BY <1>4 DEF Sizes
  <1>6. DOMAIN t = Fields /\ t.inode = u.inode /\ t.extents = u.extents /\ t.torn = u.torn /\ t.ok = TRUE
    BY <1>5 DEF Unchecked, Fields
  <1> HIDE DEF t
  <1>7. Half(t, c, i)
    BY <1>5, <1>6, HalfSame
  <1>8. Grows(s, t, c, i, n)
    BY <1>3, <1>5, <1>6, <1>7 DEF Grows, m
  <1>9. s.inode[i].kind = "none" => Grows(s, s, c, i, n)
    BY DEF Grows
  <1> QED
    BY <1>1, <1>8, <1>9

LEMMA HalfForget ==
    ASSUME NEW s, NEW c, NEW i, Half(s, c, i), NEW P
    PROVE  /\ Half(Forget(s, P), c, i) /\ Forget(s, P).torn = s.torn /\ Forget(s, P).ok = s.ok
           /\ Forget(s, P).inode = s.inode /\ Forget(s, P).extents = s.extents
  <1> DEFINE u == [s EXCEPT !.cache = [p \in DOMAIN s.cache \ P |-> s.cache[p]]]
             t == Forget(s, P)
  <1>1. t = IF s.ok THEN u ELSE s
    BY DEF Forget, Then
  <1>2. DOMAIN s = Fields
    BY DEF Half, Shape
  <1>3. DOMAIN u = Fields /\ u.inode = s.inode /\ u.extents = s.extents /\ u.torn = s.torn /\ u.ok = s.ok
    BY <1>2 DEF Fields
  <1> HIDE DEF t, u
  <1>4. DOMAIN t = Fields /\ t.inode = s.inode /\ t.extents = s.extents /\ t.torn = s.torn /\ t.ok = s.ok
    BY <1>1, <1>2, <1>3
  <1>5. Half(t, c, i)
    BY <1>4, HalfSame
  <1> QED
    BY <1>4, <1>5 DEF t

\* What a file holds after a write of c words x from word o on.
Overwritten(old, o, c, x) ==
    [k \in 1 .. Max({Len(old), o + c}) |-> IF k \in o + 1 .. o + c THEN x ELSE Resize(old, o + c)[k]]

LEMMA LargerOf ==
    ASSUME NEW a \in Nat, NEW b \in Nat, a <= b
    PROVE  Max({a, b}) = b
  <1>1. {a, b} \in SUBSET Nat /\ {a, b} # {} /\ \A y \in {a, b} : y <= b
    OBVIOUS
  <1>2. Max({a, b}) \in {a, b} /\ \A y \in {a, b} : y <= Max({a, b})
    BY <1>1, MaxIsLargest
  <1> QED
    BY <1>2

\* What Write makes of the words buf and those that were kept.
Drafted(kept, o, buf) ==
    [k \in 1 .. o + Len(buf) |-> IF k > o THEN buf[k - o] ELSE Resize(kept, o + Len(buf))[k]]

\* A write that stores all of file i: it reaches the end, and what is kept is not compressed.
Covers(i, o, c) ==
    o + c >= Len(content[i]) /\ (extents[i] # <<>> /\ Last(extents[i]).zip => o = 0)

\* The buffer of c words x.
Repeats(buf, c, x) == buf = [k \in 1 .. c |-> x]

LEMMA NewWords ==
    ASSUME NEW S, NEW old \in Seq(S), NEW o \in Nat, NEW c \in Nat, Len(old) <= o + c, NEW x, NEW kept,
           kept = old \/ o = 0, NEW buf, Repeats(buf, c, x)
    PROVE  /\ Overwritten(old, o, c, x) = Drafted(kept, o, buf)
           /\ Len(Overwritten(old, o, c, x)) = o + c
  <1> DEFINE n == o + c
             F(k) == IF k > o THEN buf[k - o] ELSE Resize(kept, n)[k]
             G(k) == IF k \in o + 1 .. n THEN x ELSE Resize(old, n)[k]
  <1>1. Len(buf) = c /\ n \in Nat /\ \A k \in 1 .. c : buf[k] = x
    BY DEF Repeats
  <1>2. Max({Len(old), n}) = n
    BY LargerOf
  <1>3. ASSUME NEW k \in 1 .. n PROVE F(k) = G(k)
    <2>1. CASE k > o
      <3>1. k - o \in 1 .. c /\ k \in o + 1 .. n
        BY <2>1
      <3> QED
        BY <1>1, <2>1, <3>1
    <2>2. CASE ~(k > o)
      <3>1. o # 0 /\ k \notin o + 1 .. n
        BY <2>2
      <3> QED
        BY <2>2, <3>1
    <2> QED
      BY <2>1, <2>2
  <1> HIDE DEF F, G
  <1>4. [k \in 1 .. n |-> F(k)] = [k \in 1 .. n |-> G(k)]
    BY <1>3
  <1>5. Len([k \in 1 .. n |-> G(k)]) = n
    BY <1>1
  <1>6. Overwritten(old, o, c, x) = [k \in 1 .. n |-> G(k)]
    BY <1>2 DEF Overwritten, G
  <1>7. Overwritten(old, o, c, x) = [k \in 1 .. n |-> F(k)]
    BY <1>4, <1>6
  <1> HIDE DEF n
  <1>8. Len(Overwritten(old, o, c, x)) = n
    BY <1>5, <1>6
  <1> QED
    BY <1>1, <1>7, <1>8 DEF F, n, Drafted

\* One item of file i takes the place of all it had.
LEMMA FitsOne ==
    ASSUME NEW r, r.kind # "none", NEW x, NEW xs, xs = <<x>>, r.size = Len(x.words)
    PROVE  Fits(r, xs, x.words)
  <1>1. Len(xs) = 1 /\ xs[1] = x
    OBVIOUS
  <1> QED
    BY <1>1 DEF Fits

LEMMA AtMostOne ==
    ASSUME NEW n \in Nat, n # 0, n <= 1
    PROVE  n = 1
  OBVIOUS

LEMMA ReplaceOne ==
    ASSUME NEW S, NEW s \in Seq(S), Len(s) = 1, NEW y \in S
    PROVE  [s EXCEPT ![1] = y] = <<y>>
  <1> DEFINE u == [s EXCEPT ![1] = y]
  <1>1. s \in [1 .. 1 -> S]
    OBVIOUS
  <1>2. u \in [1 .. 1 -> S] /\ u[1] = y
    BY <1>1
  <1>3. <<y>> \in [1 .. 1 -> S] /\ <<y>>[1] = y
    OBVIOUS
  <1> HIDE DEF u
  <1>4. \A k \in 1 .. 1 : u[k] = <<y>>[k]
    BY <1>2, <1>3
  <1>5. u = <<y>>
    BY <1>2, <1>3, <1>4
  <1> QED
    BY <1>5 DEF u

LEMMA HalfWrite ==
    ASSUME StateOK, NEW bad \in Nat, NEW p \in Paths, IsFile(p), NEW o \in Nat, NEW c \in Nat,
           o + c \in 0 .. MaxSize, NEW x \in Words, NEW zip \in BOOLEAN, Sane(Start(bad), content),
           NEW i, i = Found(entries, pathCache, p),
           Trusted => Covers(i, o, c)
    PROVE  LET t == Write(Start(bad), p, o, [k \in 1 .. c |-> x], zip)
           IN  /\ Half(t, content, i)
               /\ Trusted /\ t.torn # TRUE =>
                    t.ok /\ Fits(t.inode[i], t.extents[i], Overwritten(content[i], o, c, x))
  <1> DEFINE buf == [k \in 1 .. c |-> x]
             w == resolvePath(Start(bad), p)
             xs == w.extents[i]
             old == IF xs = <<>> THEN <<>> ELSE RawWords(Last(xs))
             n == o + Len(buf)
             new == [k \in 1 .. n |-> IF k > o THEN buf[k - o] ELSE Resize(old, n)[k]]
             ys == IF xs = <<>> THEN <<Inline(new)>> ELSE [xs EXCEPT ![Len(xs)] = Inline(new)]
             inl == TreeWrite(w, [w EXCEPT !.extents[i] = ys])
             r == NewExtent(w)
             f == DeleteExtents(r, i)
             ext == IF r.ok THEN AddExtent(f, i, Min(FreeBlocks(w)), new, zip) ELSE r
             e == IF n <= InlineMax THEN inl ELSE ext
             t == IF e.ok THEN GrowInode(e, i, n) ELSE e
  <1>1. /\ Typed(w) /\ w.ok = TRUE /\ w.torn = FALSE /\ w.ino = i /\ i \in Inodes /\ w.inode = inode
        /\ w.extents = extents /\ inode[i].kind = "other"
    BY FileIs, OpenDoes
  <1>2. Len(buf) = c /\ n = o + c /\ n \in Nat /\ n \in 0 .. MaxSize
    BY WordsAssumption
  <1>3. xs \in Seq(Extent) /\ Len(xs) \in Nat /\ xs = extents[i]
    BY <1>1 DEF Typed, ExtentMap
  <1> HIDE DEF n
  <1>4. Write(Start(bad), p, o, buf, zip) = Forget(t, {p})
    <2> HIDE DEF w
    <2>1. Write(Start(bad), p, o, buf, zip) =
            IF w.ok THEN
                LET l == w.ino
                    zs == w.extents[l]
                    od == IF zs = <<>> THEN <<>> ELSE RawWords(Last(zs))
                    m == o + Len(buf)
                    nw == [k \in 1 .. m |-> IF k > o THEN buf[k - o] ELSE Resize(od, m)[k]]
                    il == TreeWrite(w, [w EXCEPT !.extents[l] =
                            IF zs = <<>> THEN <<Inline(nw)>> ELSE [zs EXCEPT ![Len(zs)] = Inline(nw)]])
                    g == IF m <= InlineMax THEN il
                         ELSE IF r.ok THEN AddExtent(DeleteExtents(r, l), l, Min(FreeBlocks(w)), nw, zip) ELSE r
                IN  Forget(IF g.ok THEN GrowInode(g, l, m) ELSE g, {p})
            ELSE w
      BY DEF Write, Then, w
    <2> HIDE DEF buf
    <2> QED
      BY <1>1, <2>1 DEF n
  <1>5. Half(w, content, i) /\ Sane(w, content)
    BY SaneResolve, HalfOfSane
  <1>6. old \in Seq(Word)
    <2>1. ASSUME xs # <<>> PROVE RawWords(Last(xs)) \in Seq(Word)
      <3>1. Len(xs) \in 1 .. Len(xs)
        BY <1>3, <2>1
      <3>2. Last(xs) \in Extent
        BY <1>3, <3>1, ElementOfSeq DEF Last
      <3> QED
        BY <3>2, RawType
    <2> HIDE DEF xs
    <2> QED
      BY <2>1
  <1>7. ASSUME Trusted
        PROVE  /\ new = Overwritten(content[i], o, c, x) /\ Len(new) = n
               /\ inode[i].size = Len(content[i]) /\ Len(content[i]) \in 0 .. n /\ Len(xs) <= 1
    <2>1. Fits(inode[i], xs, content[i]) /\ inode[i].kind # "none"
      BY <1>1, <1>5, <1>7 DEF Sane, Sound
    <2> HIDE DEF w
    <2>2. content[i] \in Seq(Word) /\ Len(xs) <= 1 /\ inode[i].size = Len(content[i]) /\ (old = content[i] \/ o = 0)
      <3>1. CASE xs = <<>> /\ content[i] = <<>>
        BY <2>1, <3>1 DEF Fits
      <3>2. CASE Len(xs) = 1 /\ xs[1].words = content[i]
        <4>1. xs # <<>> /\ Last(xs) = xs[1] /\ 1 \in 1 .. Len(xs)
          BY <1>3, <3>2 DEF Last
        <4>2. xs[1] \in Extent
          BY <1>3, <4>1, ElementOfSeq
        <4>3. old = RawWords(xs[1])
          BY <4>1
        <4>4. Last(extents[i]).zip = xs[1].zip /\ extents[i] # <<>>
          BY <1>3, <4>1
        <4> HIDE DEF xs, old
        <4>5. xs[1].words \in Seq(Word) /\ xs[1].zip \in BOOLEAN
          BY <4>2 DEF Extent
        <4>6. inode[i].size = Len(content[i])
          BY <2>1 DEF Fits
        <4>7. old = content[i] \/ o = 0
          BY <1>7, <3>2, <4>3, <4>4, <4>5 DEF RawWords, Covers
        <4> QED
          BY <3>2, <4>5, <4>6, <4>7
      <3> QED
        BY <2>1, <3>1, <3>2 DEF Fits
    <2> HIDE DEF old, xs
    <2>3. Len(content[i]) <= o + c
      BY <1>2, <1>7, <2>2 DEF Covers
    <2>4. Overwritten(content[i], o, c, x) = new /\ Len(Overwritten(content[i], o, c, x)) = o + c
      <3>1. new = Drafted(old, o, buf)
        BY DEF n, Drafted
      <3> HIDE DEF new
      <3>2. /\ Overwritten(content[i], o, c, x) = Drafted(old, o, buf)
            /\ Len(Overwritten(content[i], o, c, x)) = o + c
        <4>1. Repeats(buf, c, x)
          BY DEF Repeats
        <4> HIDE DEF buf
        <4> QED
          BY <2>2, <2>3, <4>1, NewWords
      <3> QED
        BY <3>1, <3>2
    <2> HIDE DEF new
    <2> QED
      BY <1>2, <2>2, <2>3, <2>4
  <1>8. new \in Seq(Word)
    <2>1. ASSUME NEW k \in 1 .. n PROVE (IF k > o THEN buf[k - o] ELSE Resize(old, n)[k]) \in Word
      <3> HIDE DEF old
      <3>1. CASE k > o
        <4>1. k - o \in 1 .. c
          BY <1>2, <3>1
        <4>2. buf[k - o] = x
          BY <4>1
        <4> QED
          BY <3>1, <4>2 DEF Word
      <3>2. CASE ~(k > o)
        BY <1>2, <1>6, <3>2, ResizeType
      <3> QED
        BY <3>1, <3>2
    <2> HIDE DEF buf, old
    <2>2. new \in [1 .. n -> Word]
      BY <2>1
    <2> HIDE DEF new
    <2> QED
      BY <1>2, <2>2
  <1> HIDE DEF new, old, w
  <1>9. /\ Half(inl, content, i)
        /\ inl.torn = TRUE \/ (inl.torn = FALSE /\ inl.ok = TRUE /\ inl.inode = inode /\ inl.extents[i] = ys)
    <2>1. Inline(new) \in Extent /\ Inline(new).at = 0
      BY <1>8, InlineType DEF Inline
    <2> HIDE DEF xs
    <2> DEFINE y == Inline(new)
    <2> HIDE DEF y
    <2>2. ys \in Seq(Extent) /\ \A k \in DOMAIN ys : ys[k].at \in Places(w.extents, i) \union {0}
      <3>1. CASE xs = <<>>
        <4>1. ys = <<y>>
          BY <3>1 DEF y
        <4> HIDE DEF ys
        <4> QED
          BY <2>1, <4>1 DEF y
      <3>2. CASE xs # <<>>
        <4>1. Len(xs) \in 1 .. Len(xs) /\ DOMAIN xs = 1 .. Len(xs) /\ ys = [xs EXCEPT ![Len(xs)] = y]
          BY <1>3, <3>2 DEF y
        <4>2. ys \in Seq(Extent)
          BY <1>3, <2>1, <4>1, ExceptSeq DEF y
        <4>3. ASSUME NEW k \in DOMAIN ys PROVE ys[k].at \in Places(w.extents, i) \union {0}
          <5>1. k \in DOMAIN xs /\ (ys[k] = y \/ ys[k] = xs[k])
            BY <4>1, <4>3
          <5> HIDE DEF ys
          <5> QED
            BY <2>1, <5>1 DEF Places, y, xs
        <4> QED
          BY <4>2, <4>3
      <3> QED
        BY <3>1, <3>2
    <2> HIDE DEF ys
    <2>3. \A j \in Inodes : j # i => 0 \notin Places(w.extents, j)
      BY DEF Places
    <2>4. Half(inl, content, i) /\ Puts(w, inl, i, ys)
      <3>1. \A k \in DOMAIN ys : ys[k].at \in Places(w.extents, i) \union {0, 0}
        BY <2>2
      <3> QED
        BY <1>1, <1>5, <2>2, <2>3, <3>1, HalfPut
    <2> HIDE DEF inl
    <2> QED
      BY <1>1, <2>4 DEF Puts
  <1> DEFINE b == Min(FreeBlocks(w))
             z == [at |-> b, zip |-> zip, words |-> new]
  <1>10. ASSUME r.ok = TRUE
         PROVE  /\ Half(ext, content, i)
                /\ ext.torn = TRUE \/ (ext.torn = FALSE /\ ext.ok = TRUE /\ ext.inode = inode /\ ext.extents[i] = <<z>>)
    <2>1. Allots(w, r, content, i)
      BY <1>1, <1>5, HalfNew
    <2>2. ext = TreeWrite(f, [f EXCEPT !.extents[i] = <<z>> \o @])
      BY <1>10 DEF AddExtent
    <2> HIDE DEF r, ext
    <2>3. /\ Half(r, content, i) /\ r.inode = inode /\ r.extents = w.extents /\ (r.torn = TRUE \/ r.torn = FALSE)
          /\ b \in DataBlocks /\ \A j \in Inodes : b \notin Places(w.extents, j)
      BY <1>1, <1>10, <2>1 DEF Allots
    <2> HIDE DEF b
    <2>4. /\ Half(f, content, i) /\ Fewer(r.extents, f.extents)
          /\ f.torn = TRUE \/ (f.torn = r.torn /\ f.ok = r.ok /\ f.inode = r.inode /\ f.extents[i] = <<>>)
      BY <1>1, <2>3, HalfDelete
    <2> HIDE DEF f
    <2>5. z \in Extent /\ z.at = b
      BY <1>8, <2>3 DEF Extent
    <2> HIDE DEF z
    <2>6. \A j \in Inodes : j # i => z.at \notin Places(f.extents, j)
      BY <2>3, <2>4, <2>5 DEF Fewer
    <2>7. Half(ext, content, i) /\ Puts(f, ext, i, <<z>> \o f.extents[i])
      BY <1>1, <2>2, <2>4, <2>5, <2>6, HalfAdd
    <2>8. <<z>> \o <<>> = <<z>>
      OBVIOUS
    <2>9. ext.torn = TRUE \/ (ext.torn = FALSE /\ ext.ok = TRUE /\ ext.inode = inode /\ ext.extents[i] = <<z>>)
      BY <1>10, <2>3, <2>4, <2>7, <2>8 DEF Puts
    <2> QED
      BY <2>7, <2>9
  <1>11. ASSUME r.ok # TRUE
         PROVE  ext = r /\ Half(r, content, i) /\ r.torn = TRUE
    <2>1. Allots(w, r, content, i)
      BY <1>1, <1>5, HalfNew
    <2> HIDE DEF r
    <2>2. Half(r, content, i) /\ r.torn = TRUE /\ r.ok = FALSE
      BY <1>11, <2>1 DEF Allots
    <2> QED
      BY <2>2
  <1> HIDE DEF inl, ext, r
  <1>12. /\ Half(e, content, i)
         /\ e.torn = TRUE
            \/ /\ e.torn = FALSE /\ e.ok = TRUE /\ e.inode = inode
               /\ e.extents[i] = ys \/ e.extents[i] = <<z>>
    BY <1>9, <1>10, <1>11
  <1>13. ASSUME Trusted PROVE ys = <<Inline(new)>>
    <2>1. Len(xs) <= 1
      BY <1>7, <1>13
    <2> HIDE DEF xs
    <2>2. CASE xs = <<>>
      BY <2>2
    <2>3. CASE xs # <<>>
      <3>1. Len(xs) = 1
        <4> HIDE DEF ys, f, e, t, b, z, buf
        <4>1. Len(xs) # 0
          BY <1>3, <2>3, EmptySeq
        <4>2. Len(xs) \in Nat
          BY <1>3
        <4> QED
          BY <2>1, <4>1, <4>2, AtMostOne
      <3> DEFINE y == Inline(new)
      <3> HIDE DEF y
      <3>2. [xs EXCEPT ![1] = y] = <<y>>
        <4>1. y \in Extent
          BY <1>8, InlineType DEF y
        <4> QED
          BY <1>3, <3>1, <4>1, ReplaceOne
      <3> QED
        BY <2>3, <3>1, <3>2 DEF y
    <2> QED
      BY <2>2, <2>3
  <1> HIDE DEF ys, e, b
  <1>14. /\ Half(t, content, i)
         /\ Trusted /\ t.torn # TRUE => t.ok /\ Fits(t.inode[i], t.extents[i], new)
    <2> DEFINE g == GrowInode(e, i, n)
    <2>1. Grows(e, g, content, i, n)
      BY <1>1, <1>2, <1>12, HalfGrow
    <2>g. t = IF e.ok THEN g ELSE e
      OBVIOUS
    <2> HIDE DEF g, t
    <2>2. Half(g, content, i) /\ (e.torn = TRUE => g.torn = TRUE)
      BY <2>1 DEF Grows
    <2>3. CASE e.torn = TRUE
      <3>1. CASE t = g
        BY <2>2, <2>3, <3>1
      <3>2. CASE t = e
        BY <1>12, <2>3, <3>2
      <3> QED
        BY <2>g, <3>1, <3>2
    <2>4. CASE e.torn # TRUE
      <3>1. e.torn = FALSE /\ e.ok = TRUE /\ e.inode = inode /\ (e.extents[i] = ys \/ e.extents[i] = <<z>>)
        BY <1>12, <2>4
      <3>2. t = g
        BY <2>g, <3>1
      <3>3. ASSUME Trusted, t.torn # TRUE PROVE t.ok /\ Fits(t.inode[i], t.extents[i], new)
        <4>1. /\ t.ok = TRUE /\ t.inode[i].kind = "other" /\ t.inode[i].size = Max({Len(content[i]), n})
              /\ t.extents[i] = e.extents[i]
          BY <1>1, <1>7, <2>1, <3>1, <3>2, <3>3 DEF Grows
        <4>2. Max({Len(content[i]), n}) = n
          <5>1. Len(content[i]) \in Nat /\ Len(content[i]) <= n
            BY <1>2, <1>7, <3>3
          <5> QED
            BY <1>2, <5>1, LargerOf
        <4>3. PICK y : t.extents[i] = <<y>> /\ y.words = new
          <5>1. Inline(new).words = new /\ z.words = new
            BY DEF Inline
          <5> HIDE DEF z
          <5> QED
            BY <1>13, <3>1, <3>3, <4>1, <5>1
        <4>4. Fits(t.inode[i], t.extents[i], y.words)
          BY <1>7, <3>3, <4>1, <4>2, <4>3, FitsOne
        <4> QED
          BY <4>1, <4>3, <4>4
      <3> QED
        BY <2>2, <3>2, <3>3
    <2> QED
      BY <2>3, <2>4
  <1> HIDE DEF t, buf
  <1>15. /\ Half(Forget(t, {p}), content, i) /\ Forget(t, {p}).torn = t.torn /\ Forget(t, {p}).ok = t.ok
         /\ Forget(t, {p}).inode = t.inode /\ Forget(t, {p}).extents = t.extents
    BY <1>14, HalfForget
  <1>16. Trusted => new = Overwritten(content[i], o, c, x)
    BY <1>7
  <1> QED
    BY <1>4, <1>14, <1>15, <1>16 DEF buf

LEMMA PrefixIs ==
    ASSUME NEW S, NEW xs \in Seq(S), NEW m \in 0 .. Len(xs)
    PROVE  LET ys == SubSeq(xs, 1, m)
           IN  ys \in Seq(S) /\ Len(ys) = m /\ \A k \in DOMAIN ys : k \in DOMAIN xs /\ ys[k] = xs[k]
  <1>1. \A k \in 1 .. m : k \in 1 .. Len(xs) /\ xs[k] \in S
    <2>1. \A k \in 1 .. m : k \in 1 .. Len(xs)
      OBVIOUS
    <2> QED
      BY <2>1, ElementOfSeq
  <1>2. m \in Int /\ 1 \in Int /\ m \in Nat
    OBVIOUS
  <1> DEFINE ys == SubSeq(xs, 1, m)
  <1>3. /\ ys \in Seq(S) /\ Len(ys) = (IF 1 <= m THEN m - 1 + 1 ELSE 0)
        /\ \A k \in 1 .. m - 1 + 1 : ys[k] = xs[1 + k - 1]
    BY <1>1, <1>2, SubSeqProperties
  <1> HIDE DEF ys
  <1>4. Len(ys) = m
    BY <1>2, <1>3
  <1>5. DOMAIN ys = 1 .. m /\ DOMAIN xs = 1 .. Len(xs)
    BY <1>3, <1>4
  <1>6. ASSUME NEW k \in 1 .. m PROVE ys[k] = xs[k]
    <2>1. k \in 1 .. m - 1 + 1 /\ 1 + k - 1 = k
      BY <1>2
    <2> QED
      BY <1>3, <2>1
  <1> QED
    BY <1>1, <1>3, <1>4, <1>5, <1>6 DEF ys

LEMMA ResizeLen ==
    ASSUME NEW ws, NEW n \in Nat
    PROVE  Len(Resize(ws, n)) = n /\ (n = 0 => Resize(ws, n) = <<>>)
  <1> DEFINE F(k) == IF k <= Len(ws) THEN ws[k] ELSE Zero
  <1>1. Resize(ws, n) = [k \in 1 .. n |-> F(k)]
    BY DEF Resize
  <1> HIDE DEF F
  <1> DEFINE u == [k \in 1 .. n |-> F(k)]
  <1>2. DOMAIN u = 1 .. n /\ u \in Seq({F(k) : k \in 1 .. n})
    OBVIOUS
  <1>3. Len(u) = n
    OBVIOUS
  <1> HIDE DEF u
  <1>4. n = 0 => u = <<>>
    BY <1>2, <1>3, EmptySeq
  <1> QED
    BY <1>1, <1>3, <1>4 DEF u

LEMMA FitsNone ==
    ASSUME NEW r, r.kind # "none", r.size = 0, NEW xs, xs = <<>>, NEW ws, ws = <<>>
    PROVE  Fits(r, xs, ws)
  BY DEF Fits

\* The deletion of the items of file i that stopped after some of them.
LEMMA HalfCut ==
    ASSUME NEW s, NEW c, NEW i \in Inodes, Half(s, c, i), NEW m \in 0 .. Len(s.extents[i])
    PROVE  LET t == Torn([s EXCEPT !.extents[i] = SubSeq(s.extents[i], 1, m)])
           IN  Half(t, c, i) /\ t.torn = TRUE
  <1> DEFINE xs == s.extents[i]
             ys == SubSeq(xs, 1, m)
             X == [s.extents EXCEPT ![i] = ys]
             v == [s EXCEPT !.extents[i] = ys]
             t == Torn(v)
  <1>1. s.extents \in ExtentMap /\ DOMAIN s = Fields /\ xs \in Seq(Extent) /\ Alone(s.extents)
        /\ DOMAIN s.inode = Inodes /\ \A j \in Inodes : DOMAIN s.inode[j] = {"kind", "nlink", "size"}
    BY DEF Half, Shape, ExtentMap
  <1>2. ys \in Seq(Extent) /\ \A k \in DOMAIN ys : k \in DOMAIN xs /\ ys[k] = xs[k]
    <2> HIDE DEF xs
    <2>1. m \in 0 .. Len(xs)
      BY DEF xs
    <2> QED
      BY <1>1, <2>1, PrefixIs
  <1>3. DOMAIN v = Fields /\ v.extents = X /\ v.inode = s.inode
    BY <1>1 DEF Fields
  <1> HIDE DEF v
  <1>4. DOMAIN t = Fields /\ t.extents = X /\ t.inode = s.inode /\ t.torn = TRUE
    BY <1>3 DEF Torn, Fields
  <1> HIDE DEF t, ys
  <1>5. PutAlone(s.extents, X, i, ys)
    <2>1. \A k \in DOMAIN ys : ys[k].at \in Places(s.extents, i) \union {0, 0}
      BY <1>2 DEF Places
    <2>2. \A j \in Inodes : j # i => 0 \notin Places(s.extents, j)
      BY DEF Places
    <2> HIDE DEF X, xs
    <2> QED
      BY <1>1, <1>2, <2>1, <2>2, AlonePut DEF X
  <1> HIDE DEF X
  <1>6. Shape(t) /\ Alone(t.extents)
    BY <1>1, <1>4, <1>5 DEF PutAlone, Shape
  <1>7. Half(t, c, i)
    BY <1>4, <1>6 DEF Half
  <1> QED
    BY <1>4, <1>7 DEF t, v, ys

\* A truncation that keeps what is left of file i.
Cuts(i, n) ==
    n = 0 \/ (Len(content[i]) > 0 /\ ~(extents[i] # <<>> /\ Last(extents[i]).zip))

LEMMA FrontOfOne ==
    ASSUME NEW S, NEW xs \in Seq(S), Len(xs) = 1
    PROVE  Front(xs) = <<>>
  <1>1. Len(xs) - 1 = 0 /\ 0 \in 0 .. Len(xs)
    OBVIOUS
  <1>2. SubSeq(xs, 1, 0) \in Seq(S) /\ Len(SubSeq(xs, 1, 0)) = 0
    BY <1>1, PrefixIs
  <1>3. SubSeq(xs, 1, 0) = <<>>
    BY <1>2, EmptySeq
  <1> QED
    BY <1>1, <1>3 DEF Front

LEMMA FrontPlaces ==
    ASSUME NEW X, NEW i, X[i] \in Seq(Extent), X[i] # <<>>
    PROVE  Front(X[i]) \in Seq(Extent) /\ \A k \in DOMAIN Front(X[i]) : Front(X[i])[k].at \in Places(X, i) \union {0, 0}
  <1> DEFINE xs == X[i]
  <1> HIDE DEF xs
  <1>1. xs \in Seq(Extent) /\ xs # <<>>
    BY DEF xs
  <1>2. Len(xs) \in Nat /\ Len(xs) # 0
    BY <1>1, EmptySeq
  <1>3. PICK m : m = Len(xs) - 1 /\ m \in 0 .. Len(xs)
    BY <1>2
  <1> DEFINE ys == SubSeq(xs, 1, m)
  <1>4. ys \in Seq(Extent) /\ \A k \in DOMAIN ys : k \in DOMAIN xs /\ ys[k] = xs[k]
    BY <1>1, <1>3, PrefixIs
  <1>5. Front(xs) = ys
    BY <1>3 DEF Front
  <1> HIDE DEF ys
  <1>6. \A k \in DOMAIN ys : ys[k].at \in Places(X, i) \union {0, 0}
    BY <1>4 DEF Places, xs
  <1> QED
    BY <1>4, <1>5, <1>6 DEF xs

LEMMA HalfTruncate ==
    ASSUME StateOK, NEW bad \in Nat, NEW p \in Paths, IsFile(p), NEW n \in 0 .. MaxSize, Sane(Start(bad), content),
           NEW i, i = Found(entries, pathCache, p), Trusted => Cuts(i, n)
    PROVE  LET t == Truncate(Start(bad), p, n)
           IN  /\ Half(t, content, i)
               /\ Trusted /\ t.torn # TRUE => t.ok /\ Fits(t.inode[i], t.extents[i], Resize(content[i], n))
  <1> DEFINE w == resolvePath(Start(bad), p)
             z == PutInode(w, i, [w.inode[i] EXCEPT !.size = n])
             xs == z.extents[i]
             new == Resize(RawWords(Last(xs)), n)
             cut == Torn([z EXCEPT !.extents[i] = SubSeq(xs, 1, Len(xs) - z.bad + 1)])
             none == IF z.bad \in 1 .. Len(xs) THEN cut ELSE DeleteExtents(z, i)
             ys == [xs EXCEPT ![Len(xs)] = Inline(new)]
             inl == TreeWrite(z, [z EXCEPT !.extents[i] = ys])
             r == NewExtent(z)
             f == Unchecked(TreeWrite(r, [r EXCEPT !.extents[i] = Front(r.extents[i])]))
             ext == IF r.ok THEN AddExtent(f, i, Min(FreeBlocks(z)), new, FALSE) ELSE r
             e == IF xs = <<>> THEN z ELSE IF n = 0 THEN none
                  ELSE IF Last(xs).at = 0 /\ n <= InlineMax THEN inl ELSE ext
             t == IF z.ok THEN e ELSE z
  <1>1. /\ Typed(w) /\ w.ok = TRUE /\ w.torn = FALSE /\ w.ino = i /\ i \in Inodes
        /\ w.inode = inode /\ w.extents = extents /\ inode[i].kind = "other"
    BY FileIs, OpenDoes
  <1>2. n \in Nat
    BY WordsAssumption
  <1> HIDE DEF w
  <1>3. Truncate(Start(bad), p, n) = Forget(t, {p})
    <2>1. Truncate(Start(bad), p, n) =
            IF w.ok THEN
                LET l == w.ino
                    zd == PutInode(w, l, [w.inode[l] EXCEPT !.size = n])
                    nw == Resize(RawWords(Last(zd.extents[l])), n)
                    g == IF zd.extents[l] = <<>> THEN zd
                         ELSE IF n = 0
                         THEN IF zd.bad \in 1 .. Len(zd.extents[l])
                              THEN Torn([zd EXCEPT !.extents[l] = SubSeq(@, 1, Len(@) - zd.bad + 1)])
                              ELSE DeleteExtents(zd, l)
                         ELSE IF Last(zd.extents[l]).at = 0 /\ n <= InlineMax
                         THEN TreeWrite(zd, [zd EXCEPT !.extents[l][Len(zd.extents[l])] = Inline(nw)])
                         ELSE IF NewExtent(zd).ok
                         THEN AddExtent(Unchecked(TreeWrite(NewExtent(zd),
                                            [NewExtent(zd) EXCEPT !.extents[l] = Front(@)])),
                                        l, Min(FreeBlocks(zd)), nw, FALSE)
                         ELSE NewExtent(zd)
                IN  IF w.inode[l].kind = "none" THEN Fail(w)
                    ELSE Forget(IF zd.ok THEN g ELSE zd, {p})
            ELSE w
      BY DEF Truncate, Then, w
    <2>2. z.extents[i] \in Seq(Extent) /\ z.extents \in ExtentMap
      <3>1. Plain(w, z)
        BY <1>1, SizeDoes
      <3> HIDE DEF z
      <3> QED
        BY <1>1, <3>1 DEF Plain, Typed, ExtentMap
    <2> HIDE DEF z
    <2>3. [z EXCEPT !.extents[i][Len(xs)] = Inline(new)] = [z EXCEPT !.extents[i] = [xs EXCEPT ![Len(xs)] = Inline(new)]]
          /\ [z EXCEPT !.extents[i] = SubSeq(@, 1, Len(@) - z.bad + 1)]
                = [z EXCEPT !.extents[i] = SubSeq(xs, 1, Len(xs) - z.bad + 1)]
      OBVIOUS
    <2> QED
      BY <1>1, <2>1, <2>3 DEF z
  <1>4. Half(w, content, i) /\ Sane(w, content)
    BY SaneResolve, HalfOfSane DEF w
  <1>5. /\ Half(z, content, i) /\ z.extents = extents
        /\ (z.torn = TRUE /\ z.ok = FALSE) \/ (z.torn = FALSE /\ z.ok = TRUE /\ z.inode[i].kind = "other" /\ z.inode[i].size = n)
    <2> DEFINE q == [w.inode[i] EXCEPT !.size = n]
    <2>1. DOMAIN q = {"kind", "nlink", "size"} /\ q.kind = "other" /\ q.size = n
      <3>1. DOMAIN w.inode[i] = {"kind", "nlink", "size"}
        BY <1>1, <1>4 DEF Half, Shape
      <3> QED
        BY <1>1, <3>1
    <2> HIDE DEF q
    <2>2. Sizes(w, PutInode(w, i, q), content, i, q)
      BY <1>1, <1>4, <2>1, HalfSize
    <2>3. z = PutInode(w, i, q)
      BY DEF q
    <2> HIDE DEF z
    <2>4. Sizes(w, z, content, i, q)
      BY <2>2, <2>3
    <2> QED
      BY <1>1, <2>1, <2>4 DEF Sizes
  <1> HIDE DEF z
  <1>6. xs \in Seq(Extent) /\ Len(xs) \in Nat /\ xs = extents[i]
    BY <1>1, <1>5 DEF Typed, ExtentMap
  <1>7. ASSUME Trusted PROVE Fits(inode[i], xs, content[i])
    BY <1>1, <1>4, <1>6, <1>7 DEF Sane, Sound
  <1> HIDE DEF xs
  <1>8. ASSUME xs # <<>> PROVE Len(xs) \in 1 .. Len(xs) /\ Len(xs) >= 1 /\ new \in Seq(Word)
    <2>1. Len(xs) # 0
      BY <1>6, <1>8, EmptySeq
    <2>2. Len(xs) \in 1 .. Len(xs) /\ Len(xs) >= 1
      BY <1>6, <2>1
    <2>3. Last(xs) \in Extent
      BY <1>6, <2>2, ElementOfSeq DEF Last
    <2>4. new \in Seq(Word)
      BY <1>2, <2>3, RawType, ResizeType
    <2> QED
      BY <2>2, <2>4
  <1>9. ASSUME Trusted, n # 0 PROVE Len(xs) = 1 /\ xs # <<>> /\ new = Resize(content[i], n) /\ Len(new) = n
    <2>1. Len(content[i]) > 0 /\ ~(xs # <<>> /\ Last(xs).zip)
      BY <1>6, <1>9 DEF Cuts
    <2>2. content[i] # <<>>
      BY <2>1
    <2>3. Len(xs) = 1 /\ xs[1].words = content[i]
      BY <1>1, <1>7, <1>9, <2>2 DEF Fits
    <2>4. xs # <<>> /\ Last(xs) = xs[1] /\ xs[1] \in Extent
      <3>1. 1 \in 1 .. Len(xs)
        BY <2>3
      <3> QED
        BY <1>6, <2>3, <3>1, ElementOfSeq DEF Last
    <2>5. xs[1].zip \in BOOLEAN
      BY <2>4 DEF Extent
    <2>6. RawWords(Last(xs)) = content[i]
      BY <2>1, <2>3, <2>4, <2>5 DEF RawWords
    <2>7. Len(Resize(content[i], n)) = n
      BY <1>2, ResizeLen
    <2> QED
      BY <2>3, <2>4, <2>6, <2>7
  <1> HIDE DEF new
  <1>10. ASSUME xs # <<>>, z.ok = TRUE, z.torn = FALSE
         PROVE  /\ Half(none, content, i)
                /\ none.torn = TRUE \/ (none.torn = FALSE /\ none.ok = TRUE /\ none.inode = z.inode /\ none.extents[i] = <<>>)
    <2>1. ASSUME z.bad \in 1 .. Len(xs) PROVE Half(cut, content, i) /\ cut.torn = TRUE
      <3>1. PICK m : m = Len(xs) - z.bad + 1 /\ m \in 0 .. Len(xs)
        BY <1>6, <2>1
      <3> DEFINE v == Torn([z EXCEPT !.extents[i] = SubSeq(z.extents[i], 1, m)])
      <3>2. m \in 0 .. Len(z.extents[i])
        BY <3>1 DEF xs
      <3>3. Half(v, content, i) /\ v.torn = TRUE
        BY <1>1, <1>5, <3>2, HalfCut
      <3> QED
        BY <3>1, <3>3 DEF xs
    <2> DEFINE d == DeleteExtents(z, i)
    <2>2. /\ Half(d, content, i)
          /\ d.torn = TRUE \/ (d.torn = z.torn /\ d.ok = z.ok /\ d.inode = z.inode /\ d.extents[i] = <<>>)
      BY <1>1, <1>5, HalfDelete
    <2> HIDE DEF d, cut
    <2>3. CASE none = cut /\ z.bad \in 1 .. Len(xs)
      <3> HIDE DEF none
      <3> QED
        BY <2>1, <2>3
    <2>4. CASE none = d
      <3> HIDE DEF none
      <3> QED
        BY <1>10, <2>2, <2>4
    <2> QED
      BY <2>3, <2>4 DEF d
  <1>11. ASSUME xs # <<>>, z.ok = TRUE, z.torn = FALSE
         PROVE  /\ Half(inl, content, i)
                /\ inl.torn = TRUE \/ (inl.torn = FALSE /\ inl.ok = TRUE /\ inl.inode = z.inode /\ inl.extents[i] = ys)
    <2>1. Inline(new) \in Extent /\ Inline(new).at = 0
      BY <1>8, <1>11, InlineType DEF Inline
    <2> DEFINE y == Inline(new)
    <2> HIDE DEF y
    <2>2. DOMAIN xs = 1 .. Len(xs) /\ ys = [xs EXCEPT ![Len(xs)] = y]
      BY <1>6 DEF y
    <2>3. ys \in Seq(Extent)
      BY <1>6, <1>8, <1>11, <2>1, <2>2, ExceptSeq DEF y
    <2>4. ASSUME NEW k \in DOMAIN ys PROVE ys[k].at \in Places(z.extents, i) \union {0, 0}
      <3>1. k \in DOMAIN xs /\ (ys[k] = y \/ ys[k] = xs[k])
        BY <2>2, <2>4
      <3> HIDE DEF ys
      <3> QED
        BY <2>1, <3>1 DEF Places, y, xs
    <2> HIDE DEF ys
    <2>5. \A j \in Inodes : j # i => 0 \notin Places(z.extents, j)
      BY DEF Places
    <2>6. Half(inl, content, i) /\ Puts(z, inl, i, ys)
      BY <1>1, <1>5, <2>3, <2>4, <2>5, HalfPut
    <2> HIDE DEF inl
    <2> QED
      BY <1>11, <2>6 DEF Puts
  <1> DEFINE b == Min(FreeBlocks(z))
             q == [at |-> b, zip |-> FALSE, words |-> new]
  <1>12. ASSUME xs # <<>>, z.ok = TRUE, z.torn = FALSE, r.ok = TRUE
         PROVE  /\ Half(ext, content, i)
                /\ ext.torn = TRUE
                   \/ /\ ext.torn = FALSE /\ ext.ok = TRUE /\ ext.inode = z.inode
                      /\ Len(xs) = 1 => ext.extents[i] = <<q>>
    <2>1. Allots(z, r, content, i)
      BY <1>1, <1>5, <1>12, HalfNew
    <2>2. ext = TreeWrite(f, [f EXCEPT !.extents[i] = <<q>> \o @])
      BY <1>12 DEF AddExtent
    <2> DEFINE fr == Front(r.extents[i])
               u == TreeWrite(r, [r EXCEPT !.extents[i] = fr])
    <2>3. f = Unchecked(u)
      OBVIOUS
    <2> HIDE DEF r, ext, f
    <2>4. /\ Half(r, content, i) /\ r.inode = z.inode /\ r.extents = z.extents /\ (r.torn = TRUE \/ r.torn = FALSE)
          /\ b \in DataBlocks /\ \A j \in Inodes : b \notin Places(z.extents, j)
      BY <1>12, <2>1 DEF Allots
    <2> HIDE DEF b
    <2>5. r.extents[i] = xs
      BY <2>4 DEF xs
    <2>6. fr \in Seq(Extent) /\ \A k \in DOMAIN fr : fr[k].at \in Places(r.extents, i) \union {0, 0}
      <3>1. r.extents[i] \in Seq(Extent) /\ r.extents[i] # <<>>
        BY <1>6, <1>12, <2>5
      <3> QED
        BY <3>1, FrontPlaces
    <2>7. Len(xs) = 1 => fr = <<>>
      BY <1>6, <2>5, FrontOfOne
    <2> HIDE DEF fr
    <2>8. Half(u, content, i) /\ Puts(r, u, i, fr) /\ PutAlone(r.extents, [r.extents EXCEPT ![i] = fr], i, fr)
      <3>1. \A j \in Inodes : j # i => 0 \notin Places(r.extents, j)
        BY DEF Places
      <3>2. r.extents \in ExtentMap /\ Alone(r.extents)
        BY <2>4 DEF Half, Shape
      <3>3. Half(u, content, i) /\ Puts(r, u, i, fr)
        BY <1>1, <2>4, <2>6, <3>1, HalfPut
      <3>4. PutAlone(r.extents, [r.extents EXCEPT ![i] = fr], i, fr)
        BY <1>1, <2>6, <3>1, <3>2, AlonePut
      <3> QED
        BY <3>3, <3>4
    <2>9. \A j \in Inodes : j # i => b \notin Places(u.extents, j)
      <3> DEFINE v == [r EXCEPT !.extents[i] = fr]
      <3>1. DOMAIN r = Fields
        BY <2>4 DEF Half, Shape
      <3>2. DOMAIN v = Fields /\ v.torn = r.torn /\ v.ok = r.ok /\ v.inode = r.inode
            /\ v.extents = [r.extents EXCEPT ![i] = fr]
        BY <3>1 DEF Fields
      <3> HIDE DEF v
      <3>3. u = TreeWrite(r, v)
        BY DEF v
      <3>4. u.extents = r.extents \/ u.extents = v.extents
        <4> HIDE DEF u
        <4>1. TreeWrite(r, v).extents = r.extents \/ TreeWrite(r, v).extents = v.extents
          BY <3>1, <3>2, WriteIs
        <4> QED
          BY <3>3, <4>1
      <3>5. \A j \in Inodes : j # i => u.extents[j] = r.extents[j]
        BY <2>8, <3>2, <3>4 DEF PutAlone
      <3> HIDE DEF u
      <3> QED
        BY <2>4, <3>5 DEF Places
    <2> HIDE DEF u
    <2>10. DOMAIN f = Fields /\ f.inode = u.inode /\ f.extents = u.extents /\ f.torn = u.torn /\ f.ok = TRUE
      <3>1. DOMAIN u = Fields
        BY <2>8 DEF Half, Shape
      <3> QED
        BY <2>3, <3>1 DEF Unchecked, Fields
    <2>11. Half(f, content, i)
      BY <2>8, <2>10, HalfSame
    <2>12. q \in Extent /\ q.at = b
      BY <1>8, <1>12, <2>4 DEF Extent
    <2> HIDE DEF q
    <2>13. \A j \in Inodes : j # i => q.at \notin Places(f.extents, j)
      BY <2>9, <2>10, <2>12
    <2>14. Half(ext, content, i) /\ Puts(f, ext, i, <<q>> \o f.extents[i])
      BY <1>1, <2>2, <2>11, <2>12, <2>13, HalfAdd
    <2>15. <<q>> \o <<>> = <<q>>
      OBVIOUS
    <2>16. f.torn = TRUE \/ (f.torn = FALSE /\ f.inode = z.inode /\ f.extents[i] = fr)
      BY <2>4, <2>8, <2>10 DEF Puts
    <2>17. ext.torn = TRUE \/ (ext.torn = FALSE /\ ext.ok = TRUE /\ ext.inode = z.inode /\ ext.extents[i] = <<q>> \o fr)
      BY <2>10, <2>14, <2>16 DEF Puts
    <2> QED
      BY <2>7, <2>14, <2>15, <2>17
  <1>13. ASSUME xs # <<>>, z.ok = TRUE, z.torn = FALSE, r.ok # TRUE
         PROVE  ext = r /\ Half(r, content, i) /\ r.torn = TRUE
    <2>1. Allots(z, r, content, i)
      BY <1>1, <1>5, <1>13, HalfNew
    <2> HIDE DEF r
    <2>2. Half(r, content, i) /\ r.torn = TRUE /\ r.ok = FALSE
      BY <1>13, <2>1 DEF Allots
    <2> QED
      BY <2>2
  <1>14. ASSUME Trusted, n # 0 PROVE ys = <<Inline(new)>>
    <2> DEFINE y == Inline(new)
    <2>1. Len(xs) = 1 /\ xs # <<>>
      BY <1>9, <1>14
    <2>2. y \in Extent
      BY <1>8, <2>1, InlineType
    <2> HIDE DEF y
    <2>3. [xs EXCEPT ![1] = y] = <<y>>
      BY <1>6, <2>1, <2>2, ReplaceOne
    <2> QED
      BY <2>1, <2>3 DEF y
  <1> HIDE DEF none, inl, ext, r, ys, b
  <1>15. CASE z.ok = FALSE /\ z.torn = TRUE
    <2>1. t = z
      BY <1>15
    <2> HIDE DEF t
    <2>2. Half(Forget(t, {p}), content, i) /\ Forget(t, {p}).torn = t.torn
      BY <1>5, <2>1, HalfForget
    <2> QED
      BY <1>3, <1>15, <2>1, <2>2
  <1>16. CASE z.ok = TRUE /\ z.torn = FALSE /\ z.inode[i].kind = "other" /\ z.inode[i].size = n
    <2>1. t = e
      BY <1>16
    <2>2. CASE xs = <<>>
      <3>1. t = z
        BY <2>1, <2>2
      <3> HIDE DEF t, e
      <3>2. ASSUME Trusted PROVE t.ok /\ Fits(t.inode[i], t.extents[i], Resize(content[i], n))
        <4>1. n = 0
          BY <1>9, <2>2, <3>2
        <4>2. Resize(content[i], n) = <<>>
          BY <1>2, <4>1, ResizeLen
        <4>3. t.extents[i] = <<>>
          BY <2>2, <3>1 DEF xs
        <4>4. Fits(t.inode[i], t.extents[i], Resize(content[i], n))
          BY <1>16, <3>1, <4>1, <4>2, <4>3, FitsNone
        <4> QED
          BY <1>16, <3>1, <4>4
      <3>3. /\ Half(Forget(t, {p}), content, i) /\ Forget(t, {p}).torn = t.torn /\ Forget(t, {p}).ok = t.ok
            /\ Forget(t, {p}).inode = t.inode /\ Forget(t, {p}).extents = t.extents
        BY <1>5, <3>1, HalfForget
      <3> QED
        BY <1>3, <3>2, <3>3
    <2>3. CASE xs # <<>>
      <3>1. /\ Half(e, content, i)
            /\ e.torn = TRUE
               \/ /\ e.torn = FALSE /\ e.ok = TRUE /\ e.inode = z.inode
                  /\ \/ n = 0 /\ e.extents[i] = <<>>
                     \/ n # 0 /\ e.extents[i] = ys
                     \/ n # 0 /\ (Len(xs) = 1 => e.extents[i] = <<q>>)
        <4> HIDE DEF q
        <4>1. CASE n = 0 /\ e = none
          <5> HIDE DEF e
          <5> QED
            BY <1>10, <1>16, <2>3, <4>1
        <4>2. CASE n # 0 /\ e = inl
          <5> HIDE DEF e
          <5> QED
            BY <1>11, <1>16, <2>3, <4>2
        <4>3. CASE n # 0 /\ e = ext
          <5> HIDE DEF e
          <5>1. CASE r.ok = TRUE
            BY <1>12, <1>16, <2>3, <4>3, <5>1
          <5>2. CASE r.ok # TRUE
            BY <1>13, <1>16, <2>3, <4>3, <5>2
          <5> QED
            BY <5>1, <5>2
        <4> QED
          BY <2>3, <4>1, <4>2, <4>3
      <3> HIDE DEF e, t
      <3>2. ASSUME Trusted, t.torn # TRUE PROVE t.ok /\ Fits(t.inode[i], t.extents[i], Resize(content[i], n))
        <4>0. t.ok = TRUE /\ t.inode[i].kind = "other" /\ t.inode[i].size = n
          BY <1>16, <2>1, <3>1, <3>2
        <4>1. CASE n = 0
          <5>1. Resize(content[i], n) = <<>>
            BY <1>2, <4>1, ResizeLen
          <5>2. t.extents[i] = <<>>
            <6> HIDE DEF q
            <6> QED
              BY <2>1, <3>1, <3>2, <4>1
          <5>3. Fits(t.inode[i], t.extents[i], Resize(content[i], n))
            BY <4>0, <4>1, <5>1, <5>2, FitsNone
          <5> QED
            BY <4>0, <5>3
        <4>2. CASE n # 0
          <5>1. Len(xs) = 1 /\ new = Resize(content[i], n) /\ Len(new) = n
            BY <1>9, <3>2, <4>2
          <5>2. Inline(new).words = new /\ q.words = new
            BY DEF Inline
          <5> HIDE DEF q
          <5>3. PICK y : t.extents[i] = <<y>> /\ y.words = new
            <6>1. t.extents[i] = <<Inline(new)>> \/ t.extents[i] = <<q>>
              BY <1>14, <2>1, <3>1, <3>2, <4>2, <5>1
            <6> QED
              BY <5>2, <6>1
          <5>4. Fits(t.inode[i], t.extents[i], y.words)
            BY <4>0, <5>1, <5>3, FitsOne
          <5> QED
            BY <4>0, <5>1, <5>3, <5>4
        <4> QED
          BY <4>1, <4>2
      <3>3. /\ Half(Forget(t, {p}), content, i) /\ Forget(t, {p}).torn = t.torn /\ Forget(t, {p}).ok = t.ok
            /\ Forget(t, {p}).inode = t.inode /\ Forget(t, {p}).extents = t.extents
        BY <2>1, <3>1, HalfForget
      <3> QED
        BY <1>3, <3>2, <3>3
    <2> QED
      BY <2>2, <2>3
  <1> QED
    BY <1>5, <1>15, <1>16

-----------------------------------------------------------------------------
(* Reading *)

LEMMA EmptyFunction ==
    ASSUME NEW n \in Nat, n = 0, NEW f, DOMAIN f = 1 .. n, f = [k \in 1 .. n |-> f[k]]
    PROVE  f = <<>>
  <1>1. f \in Seq({f[k] : k \in 1 .. n}) /\ Len(f) = 0
    OBVIOUS
  <1> QED
    BY <1>1, EmptySeq

\* A file of one item, or of none, reads back as the words of the item if the item is inline
\* or its place on the device is its logical address; it has as many words in any case.
LEMMA ReadFits ==
    ASSUME StateOK, NEW i \in Inodes, inode[i].kind # "none", Fits(inode[i], extents[i], content[i])
    PROVE  /\ Linear => readFile(Start(0), i) = content[i]
           /\ Len(readFile(Start(0), i)) = Len(content[i]) /\ inode[i].size = Len(content[i])
  <1> DEFINE xs == extents[i]
             L == {0} \union {Len(xs[m].words) : m \in DOMAIN xs}
             V(k) == WordRead(xs[Max({m \in DOMAIN xs : Len(xs[m].words) >= k})], k)
             g == [k \in 1 .. Max(L) |-> V(k)]
  <1>1. Start(0).extents = extents
    BY DEF Start
  <1>2. readFile(Start(0), i) = g
    BY <1>1 DEF readFile
  <1>3. xs \in Seq(Extent) /\ DOMAIN xs = 1 .. Len(xs)
    BY DEF StateOK, ExtentMap
  <1>4. inode[i].size = Len(content[i]) /\ ((xs = <<>> /\ content[i] = <<>>) \/ (Len(xs) = 1 /\ xs[1].words = content[i]))
    BY DEF Fits
  <1> HIDE DEF xs
  <1>5. CASE xs = <<>> /\ content[i] = <<>>
    <2>1. DOMAIN xs = {}
      BY <1>5
    <2>2. L \in SUBSET Nat /\ L # {} /\ L = {0}
      BY <2>1
    <2>3. Max(L) \in L
      BY <2>2, MaxIsLargest
    <2>4. Max(L) = 0
      BY <2>2, <2>3
    <2> HIDE DEF L, V
    <2>5. DOMAIN g = 1 .. 0 /\ g = [k \in 1 .. 0 |-> g[k]]
      BY <2>4
    <2> HIDE DEF g
    <2>6. g = <<>>
      BY <2>5, EmptyFunction
    <2> QED
      BY <1>2, <1>4, <1>5, <2>6
  <1>6. CASE Len(xs) = 1 /\ xs[1].words = content[i]
    <2> DEFINE ws == xs[1].words
    <2>0. 1 \in 1 .. Len(xs)
      BY <1>6
    <2>1. DOMAIN xs = {1} /\ ws \in Seq(Word)
      <3>1. xs[1] \in Extent
        BY <1>3, <2>0, ElementOfSeq
      <3>2. 1 .. 1 = {1}
        OBVIOUS
      <3> QED
        BY <1>3, <1>6, <3>1, <3>2 DEF Extent
    <2>2. Len(ws) \in Nat
      BY <2>1
    <2>3. L = {0, Len(ws)}
      BY <2>1
    <2>4. Max(L) = Len(ws)
      BY <2>2, <2>3, LargerOf
    <2>5. ASSUME NEW k \in 1 .. Len(ws) PROVE V(k) = WordRead(xs[1], k)
      <3> DEFINE M == {m \in DOMAIN xs : Len(xs[m].words) >= k}
      <3>1. M = {1}
        BY <2>1, <2>2
      <3>2. {1} \in SUBSET Nat /\ {1} # {} /\ \A y \in {1} : y <= 1
        OBVIOUS
      <3>3. Max({1}) \in {1}
        BY <3>2, MaxIsLargest
      <3> HIDE DEF M
      <3>4. Max(M) = 1
        BY <3>1, <3>3
      <3> QED
        BY <3>4 DEF M
    <2>9. ASSUME Linear, NEW k PROVE WordRead(xs[1], k) = ws[k]
      BY <2>9 DEF WordRead
    <2> HIDE DEF L, V
    <2>6. g = [k \in 1 .. Len(ws) |-> WordRead(xs[1], k)]
      BY <2>4, <2>5
    <2> HIDE DEF g, ws
    <2>8. Len(g) = Len(ws)
      BY <2>2, <2>6
    <2>7. ws = [k \in 1 .. Len(ws) |-> ws[k]]
      BY <2>1
    <2>10. Linear => g = [k \in 1 .. Len(ws) |-> ws[k]]
      BY <2>6, <2>9
    <2>11. Linear => g = ws
      BY <2>7, <2>10
    <2>12. ws = content[i]
      BY <1>6 DEF ws
    <2> QED
      BY <1>2, <1>4, <2>8, <2>11, <2>12
  <1> QED
    BY <1>4, <1>5, <1>6

-----------------------------------------------------------------------------
(* The invariant of the data *)

DataPart ==
    DOMAIN content = Inodes /\ Alone(extents) /\ (Trusted => Sound(inode, extents, content))

LEMMA StartSane ==
    ASSUME StateOK, DataPart, NEW bad \in Nat
    PROVE  Sane(Start(bad), content)
  <1> DEFINE s == Start(bad)
  <1>1. Typed(s) /\ s.torn = FALSE /\ s.inode = inode /\ s.extents = extents
    BY StartTyped
  <1> HIDE DEF s
  <1>2. DOMAIN s = Fields /\ s.extents \in ExtentMap /\ s.inode \in Table
    BY <1>1 DEF Typed
  <1>3. DOMAIN s.inode = Inodes /\ \A i \in Inodes : DOMAIN s.inode[i] = {"kind", "nlink", "size"}
    <2>1. DOMAIN s.inode = Inodes /\ \A i \in Inodes : s.inode[i] \in Record
      BY <1>2 DEF Table
    <2> QED
      BY <2>1 DEF Record
  <1>4. Shape(s)
    BY <1>2, <1>3 DEF Shape
  <1> QED
    BY <1>1, <1>4 DEF Sane, DataPart, s

LEMMA FinishData ==
    ASSUME NEW s, NEW c, Sane(s, c), Finish(s), DOMAIN content' = Inodes, Trusted' => content' = c
    PROVE  lost' = TRUE \/ DataPart'
  <1> SUFFICES ASSUME ~(lost' = TRUE) PROVE DataPart'
    OBVIOUS
  <1>1. inode' = s.inode /\ extents' = s.extents /\ failed' = (failed \/ s.torn)
    BY DEF Finish, Cut
  <1>2. Alone(s.extents)
    BY DEF Sane
  <1>3. Alone(extents)'
    BY <1>1, <1>2
  <1>4. ASSUME Trusted' PROVE Sound(inode, extents, content)'
    <2>1. Trusted /\ s.torn # TRUE
      BY <1>1, <1>4 DEF Trusted, Handled
    <2>2. Sound(s.inode, s.extents, c)
      BY <2>1 DEF Sane
    <2> QED
      BY <1>1, <1>4, <2>2
  <1> QED
    BY <1>3, <1>4 DEF DataPart

LEMMA KeptData ==
    ASSUME DataPart, NEW s, Sane(s, content), Finish(s), Kept
    PROVE  lost' = TRUE \/ DataPart'
  <1>1. DOMAIN content' = Inodes
    BY DEF Kept, DataPart, Nothing
  <1>2. Trusted' => content' = content
    BY DEF Kept, Trusted
  <1> QED
    BY <1>1, <1>2, FinishData

LEMMA HoldsData ==
    ASSUME DataPart, NEW s, NEW i \in Inodes, NEW ws, Sane(s, [content EXCEPT ![i] = ws]), Finish(s), Holds(i, ws)
    PROVE  lost' = TRUE \/ DataPart'
  <1> DEFINE c == [content EXCEPT ![i] = ws]
  <1>1. DOMAIN content' = Inodes
    BY DEF Holds, DataPart, Nothing
  <1>2. Trusted' => content' = c
    BY DEF Holds, Trusted
  <1> HIDE DEF c
  <1>3. Sane(s, c)
    BY DEF c
  <1> QED
    BY <1>1, <1>2, <1>3, FinishData

LEMMA InitData ==
    ASSUME Init
    PROVE  DataPart
  <1>1. /\ inode = [i \in Inodes |-> IF i = Root THEN [kind |-> "dir", nlink |-> 1, size |-> 0] ELSE NoInode]
        /\ extents = [i \in Inodes |-> <<>>] /\ content = [i \in Inodes |-> <<>>]
    BY DEF Init
  <1>2. \A i \in Inodes : extents[i] = <<>> /\ content[i] = <<>> /\ inode[i].size = 0
    BY <1>1 DEF NoInode
  <1>3. \A i \in Inodes : Places(extents, i) = {}
    BY <1>2 DEF Places
  <1>4. ASSUME NEW i \in Inodes PROVE Fits(inode[i], extents[i], content[i])
    BY <1>2 DEF Fits
  <1> QED
    BY <1>1, <1>3, <1>4 DEF DataPart, Alone, Sound

\* The number of a new inode is that of none, so nothing is left of an earlier one.
LEMMA NewFacts ==
    ASSUME Inv, NEW bad \in Nat, NEW p \in Paths, InDirectory(p), New \in Inodes
    PROVE  LET w == resolvePath(Start(bad), Front(p))
           IN  NewNumber(w) = New /\ w.inode[New].kind = "none"
  <1> DEFINE w == resolvePath(Start(bad), Front(p))
             d == Found(entries, pathCache, Front(p))
  <1>1. StateOK /\ Weak(inode, entries)
    BY WholeFacts
  <1>2. d \in Inodes /\ inode[d].kind = "dir"
    BY <1>1, DirectoryIs
  <1>3. "other" \in {"dir", "other"}
    OBVIOUS
  <1>4. Typed(w) /\ NewNumber(w) = New /\ w.inode = inode
    BY <1>1, <1>3, InsertDoes
  <1> HIDE DEF w, d
  <1>5. w.inode[d].kind # "none" /\ NewNumber(w) \in Inodes
    BY <1>2, <1>4
  <1>6. w.inode[NewNumber(w)].kind = "none"
    BY <1>2, <1>4, <1>5, NewIsUnused
  <1> QED
    BY <1>4, <1>6 DEF w

\* Until a write fails, the driver is led to the file that the entries name, and finds it as
\* long as callers left it.
LEMMA OpenFacts ==
    ASSUME Inv, DataPart, Trusted, NEW p \in Paths, IsFile(p), NEW i, i = Found(entries, pathCache, p)
    PROVE  /\ Resolved(Start(0), p) = i
           /\ Length(p) = Len(content[i])
           /\ Zipped(p) <=> extents[i] # <<>> /\ Last(extents[i]).zip
  <1>1. StateOK /\ IsEntries(entries) /\ Found(entries, pathCache, p) = Walk(entries, p)
    BY WholeFacts DEF Trusted
  <1>2. i \in Inodes /\ i # 0 /\ inode[i].kind = "other"
    BY <1>1, FileIs
  <1>3. At(p) = i
    BY <1>1, <1>2, KindIs
  <1>4. Start(0).entries = entries
    BY DEF Start
  <1>5. Resolved(Start(0), p) = i
    BY <1>1, <1>4, ResolvedIsWalk
  <1>6. Fits(inode[i], extents[i], content[i])
    BY <1>2 DEF DataPart, Sound
  <1>7. Len(readFile(Start(0), i)) = Len(content[i])
    BY <1>1, <1>2, <1>6, ReadFits
  <1>8. Length(p) = Len(content[i])
    BY <1>3, <1>7 DEF Length
  <1>9. Zipped(p) <=> extents[i] # <<>> /\ Last(extents[i]).zip
    BY <1>3 DEF Zipped
  <1> QED
    BY <1>5, <1>8, <1>9

LEMMA WriteData ==
    ASSUME Inv, DataPart, DoWrite
    PROVE  lost' = TRUE \/ DataPart'
  <1>0. PICK p \in Paths, o \in 0 .. MaxSize - 1, n \in 1 .. MaxSize, w \in Words, zip \in BOOLEAN, bad \in Faults :
            /\ IsFile(p) /\ o + n <= MaxSize /\ (zip => o + n > InlineMax)
            /\ "write" \in Beyond \/ (o + n >= Length(p) /\ (Zipped(p) => o = 0))
            /\ LET s == Write(Start(bad), p, o, [k \in 1 .. n |-> w], zip)
               IN  Finish(s) /\ Changed(s.ok, p, LAMBDA old :
                        [k \in 1 .. Max({Len(old), o + n}) |->
                            IF k \in o + 1 .. o + n THEN w ELSE Resize(old, o + n)[k]])
    BY Zenon DEF DoWrite
  <1> DEFINE s == Write(Start(bad), p, o, [k \in 1 .. n |-> w], zip)
             i == Found(entries, pathCache, p)
             j == Resolved(Start(0), p)
  <1>1. StateOK /\ bad \in Nat
    BY WholeFacts, FaultsAssumption DEF Faults
  <1>2. o \in Nat /\ n \in Nat /\ o + n \in 0 .. MaxSize
    <2>1. o + n <= MaxSize
      BY <1>0
    <2> HIDE DEF s, i, j
    <2> QED
      BY <2>1, WordsAssumption
  <1>3. ASSUME Trusted PROVE Covers(i, o, n)
    <2>1. Length(p) = Len(content[i]) /\ (Zipped(p) <=> extents[i] # <<>> /\ Last(extents[i]).zip)
      BY <1>0, <1>3, OpenFacts
    <2>2. o + n >= Length(p) /\ (Zipped(p) => o = 0)
      BY <1>0, <1>3 DEF Trusted
    <2> QED
      BY <2>1, <2>2 DEF Covers
  <1>4. Sane(Start(bad), content)
    BY <1>1, StartSane
  <1> DEFINE ws == Overwritten(content[i], o, n, w)
  <1>5. /\ Half(s, content, i)
        /\ Trusted /\ s.torn # TRUE => s.ok /\ Fits(s.inode[i], s.extents[i], ws)
    <2> HIDE DEF i
    <2>1. IsFile(p) /\ i = Found(entries, pathCache, p)
      BY <1>0 DEF i
    <2> QED
      BY <1>1, <1>2, <1>3, <1>4, <2>1, HalfWrite
  <1>6. Finish(s) /\ content' = IF failed' THEN Nothing
                                ELSE IF s.ok THEN [content EXCEPT ![j] = Overwritten(content[j], o, n, w)] ELSE content
    BY <1>0, Zenon DEF Changed, Overwritten
  <1> HIDE DEF s
  <1>7. DOMAIN content' = Inodes
    BY <1>6 DEF Nothing, DataPart
  <1>8. i \in Inodes /\ DOMAIN content = Inodes
    BY <1>0, <1>1, FileIs DEF DataPart
  <1> DEFINE c == [content EXCEPT ![i] = ws]
  <1> HIDE DEF ws
  <1>9. Sane(s, c)
    BY <1>5, <1>8, SaneOfHalf
  <1>10. ASSUME Trusted' PROVE content' = c
    <2>1. Trusted /\ s.torn # TRUE /\ ~failed'
      BY <1>6, <1>10 DEF Trusted, Handled, Finish, Cut
    <2>2. j = i /\ s.ok
      BY <1>0, <1>5, <2>1, OpenFacts
    <2> HIDE DEF i, j
    <2> QED
      BY <1>6, <2>1, <2>2 DEF ws
  <1> HIDE DEF c
  <1> QED
    BY <1>6, <1>7, <1>9, <1>10, FinishData

LEMMA TruncateData ==
    ASSUME Inv, DataPart, DoTruncate
    PROVE  lost' = TRUE \/ DataPart'
  <1>0. PICK p \in Paths, n \in 0 .. MaxSize, bad \in Faults :
            /\ IsFile(p)
            /\ "write" \in Beyond \/ n = 0 \/ (~Zipped(p) /\ Length(p) > 0)
            /\ LET s == Truncate(Start(bad), p, n)
               IN  Finish(s) /\ Changed(s.ok, p, LAMBDA old : Resize(old, n))
    BY Zenon DEF DoTruncate
  <1> DEFINE s == Truncate(Start(bad), p, n)
             i == Found(entries, pathCache, p)
             j == Resolved(Start(0), p)
  <1>1. StateOK /\ bad \in Nat
    BY WholeFacts, FaultsAssumption DEF Faults
  <1>3. ASSUME Trusted PROVE Cuts(i, n)
    <2>1. Length(p) = Len(content[i]) /\ (Zipped(p) <=> extents[i] # <<>> /\ Last(extents[i]).zip)
      BY <1>0, <1>3, OpenFacts
    <2>2. n = 0 \/ (~Zipped(p) /\ Length(p) > 0)
      BY <1>0, <1>3 DEF Trusted
    <2> QED
      BY <2>1, <2>2 DEF Cuts
  <1>4. Sane(Start(bad), content)
    BY <1>1, StartSane
  <1> DEFINE ws == Resize(content[i], n)
  <1>5. /\ Half(s, content, i)
        /\ Trusted /\ s.torn # TRUE => s.ok /\ Fits(s.inode[i], s.extents[i], ws)
    <2> HIDE DEF i
    <2>1. IsFile(p) /\ i = Found(entries, pathCache, p)
      BY <1>0 DEF i
    <2> QED
      BY <1>1, <1>3, <1>4, <2>1, HalfTruncate
  <1>6. Finish(s) /\ content' = IF failed' THEN Nothing
                                ELSE IF s.ok THEN [content EXCEPT ![j] = Resize(content[j], n)] ELSE content
    BY <1>0, Zenon DEF Changed
  <1> HIDE DEF s
  <1>7. DOMAIN content' = Inodes
    BY <1>6 DEF Nothing, DataPart
  <1>8. i \in Inodes /\ DOMAIN content = Inodes
    BY <1>0, <1>1, FileIs DEF DataPart
  <1> DEFINE c == [content EXCEPT ![i] = ws]
  <1> HIDE DEF ws
  <1>9. Sane(s, c)
    BY <1>5, <1>8, SaneOfHalf
  <1>10. ASSUME Trusted' PROVE content' = c
    <2>1. Trusted /\ s.torn # TRUE /\ ~failed'
      BY <1>6, <1>10 DEF Trusted, Handled, Finish, Cut
    <2>2. j = i /\ s.ok
      BY <1>0, <1>5, <2>1, OpenFacts
    <2> HIDE DEF i, j
    <2> QED
      BY <1>6, <2>1, <2>2 DEF ws
  <1> HIDE DEF c
  <1> QED
    BY <1>6, <1>7, <1>9, <1>10, FinishData

LEMMA StepData ==
    ASSUME Inv, DataPart, [Next]_vars
    PROVE  lost' = TRUE \/ DataPart'
  <1>0. StateOK /\ DOMAIN content = Inodes
    BY WholeFacts DEF DataPart
  <1>1. \A bad \in Faults : bad \in Nat /\ Sane(Start(bad), content)
    <2>1. Faults \subseteq Nat
      BY FaultsAssumption DEF Faults
    <2> QED
      BY <1>0, <2>1, StartSane
  <1>2. CASE Create
    <2>1. PICK p \in Paths, bad \in Faults :
            InDirectory(p) /\ New \in Inodes /\ Finish(createFile(Start(bad), p, "other")) /\ Holds(New, <<>>)
      BY <1>2 DEF Create
    <2> DEFINE s == Start(bad)
    <2>2. bad \in Nat /\ Sane(s, content)
      BY <1>1
    <2>3. NewNumber(resolvePath(s, Front(p))) = New /\ resolvePath(s, Front(p)).inode[New].kind = "none"
      BY <2>1, <2>2, NewFacts
    <2> HIDE DEF s
    <2>4. Sane(createFile(s, p, "other"), [content EXCEPT ![New] = <<>>])
      BY <1>0, <2>1, <2>2, <2>3, SaneCreate
    <2> QED
      BY <2>1, <2>4, HoldsData DEF s
  <1>3. CASE Mkdir
    <2>1. PICK p \in Paths, bad \in Faults :
            InDirectory(p) /\ New \in Inodes /\ Finish(createFile(Start(bad), p, "dir")) /\ Holds(New, <<>>)
      BY <1>3 DEF Mkdir
    <2> DEFINE s == Start(bad)
    <2>2. bad \in Nat /\ Sane(s, content)
      BY <1>1
    <2>3. NewNumber(resolvePath(s, Front(p))) = New /\ resolvePath(s, Front(p)).inode[New].kind = "none"
      BY <2>1, <2>2, NewFacts
    <2> HIDE DEF s
    <2>4. Sane(createFile(s, p, "dir"), [content EXCEPT ![New] = <<>>])
      BY <1>0, <2>1, <2>2, <2>3, SaneCreate
    <2> QED
      BY <2>1, <2>4, HoldsData DEF s
  <1>4. CASE DoSymlink
    <2>1. PICK p \in Paths, w \in Words, bad \in Faults :
            InDirectory(p) /\ New \in Inodes /\ Finish(Symlink(Start(bad), p, <<w>>)) /\ Holds(New, <<w>>)
      BY <1>4 DEF DoSymlink
    <2> DEFINE s == Start(bad)
    <2>2. bad \in Nat /\ Sane(s, content)
      BY <1>1
    <2>3. NewNumber(resolvePath(s, Front(p))) = New /\ resolvePath(s, Front(p)).inode[New].kind = "none"
      BY <2>1, <2>2, NewFacts
    <2> HIDE DEF s
    <2>4. Sane(Symlink(s, p, <<w>>), [content EXCEPT ![New] = <<w>>])
      BY <1>0, <2>1, <2>2, <2>3, SaneSymlink
    <2> QED
      BY <2>1, <2>4, HoldsData DEF s
  <1>5. CASE DoLink
    <2>1. PICK q \in Paths, p \in Paths, bad \in Faults : Finish(Link(Start(bad), q, p)) /\ Kept
      BY <1>5 DEF DoLink
    <2>2. Sane(Link(Start(bad), q, p), content)
      BY <1>1, SaneLink
    <2> QED
      BY <2>1, <2>2, KeptData
  <1>6. CASE Unlink
    <2>1. PICK p \in Paths, bad \in Faults : Finish(removeEntry(Start(bad), p, FALSE)) /\ Kept
      BY <1>6 DEF Unlink
    <2>2. Sane(removeEntry(Start(bad), p, FALSE), content)
      BY <1>1, SaneRemove
    <2> QED
      BY <2>1, <2>2, KeptData
  <1>7. CASE Rmdir
    <2>1. PICK p \in Paths, bad \in Faults : Finish(removeEntry(Start(bad), p, TRUE)) /\ Kept
      BY <1>7 DEF Rmdir
    <2>2. Sane(removeEntry(Start(bad), p, TRUE), content)
      BY <1>1, SaneRemove
    <2> QED
      BY <2>1, <2>2, KeptData
  <1>8. CASE DoRename
    <2>1. PICK p \in Paths, q \in Paths, bad \in Faults : Finish(Rename(Start(bad), p, q)) /\ Kept
      BY <1>8 DEF DoRename
    <2>2. Sane(Rename(Start(bad), p, q), content)
      BY <1>1, SaneRename
    <2> QED
      BY <2>1, <2>2, KeptData
  <1>9. CASE DoChmod
    <2>1. PICK p \in Paths, bad \in Faults : Finish(Chmod(Start(bad), p)) /\ Kept
      BY <1>9 DEF DoChmod
    <2>2. Sane(Chmod(Start(bad), p), content)
      BY <1>1, SaneChmod
    <2> QED
      BY <2>1, <2>2, KeptData
  <1>10. CASE DoWrite
    BY <1>10, WriteData
  <1>11. CASE DoTruncate
    BY <1>11, TruncateData
  <1>12. CASE Getattr \/ ListRoot \/ Mount \/ UNCHANGED vars
    <2>1. UNCHANGED <<inode, extents, failed, content>>
      BY <1>12 DEF Getattr, ListRoot, Mount, vars
    <2> QED
      BY <2>1 DEF DataPart, Alone, Places, Sound, Fits, Trusted, Handled
  <1> QED
    BY <1>2, <1>3, <1>4, <1>5, <1>6, <1>7, <1>8, <1>9, <1>10, <1>11, <1>12 DEF Next, Operation

\* Whichever writes fail: the data of files keeps what the properties below need.
THEOREM DataPartCorrect == Spec => []((Inv /\ DataPart) \/ Ruin)
  <1>1. Init => Inv /\ DataPart
    BY InitInv, InitData
  <1>2. Inv /\ DataPart /\ [Next]_vars => ((Inv /\ DataPart) \/ Ruin)'
    <2> SUFFICES ASSUME Inv, DataPart, [Next]_vars PROVE (Inv' /\ DataPart') \/ Ruin'
      OBVIOUS
    <2>1. Inv' \/ Ruin'
      BY StepInv
    <2>2. lost' = TRUE \/ DataPart'
      BY StepData
    <2>3. Inv' => ~(lost' = TRUE)
      BY DEF Inv
    <2> QED
      BY <2>1, <2>2, <2>3
  <1>3. Ruin /\ [Next]_vars => Ruin'
    BY RuinStays
  <1> QED
    BY <1>1, <1>2, <1>3, PTL DEF Spec

\* No two files have an item of the same extent.
ExtentsApart ==
    \A i, j \in Inodes : \A k \in DOMAIN extents[i], m \in DOMAIN extents[j] :
        extents[i][k].at = extents[j][m].at /\ extents[i][k].at # 0 => i = j

LEMMA AloneApart ==
    ASSUME Alone(extents)
    PROVE  ExtentsApart
  <1> SUFFICES ASSUME NEW i \in Inodes, NEW j \in Inodes, NEW k \in DOMAIN extents[i], NEW m \in DOMAIN extents[j],
                      extents[i][k].at = extents[j][m].at, extents[i][k].at # 0, i # j
               PROVE  FALSE
    BY DEF ExtentsApart
  <1>1. extents[i][k].at \in Places(extents, i) /\ extents[i][k].at \in Places(extents, j)
    BY DEF Places
  <1> QED
    BY <1>1 DEF Alone

\* Whatever callers do, allocateSpace gives no file an extent that an item of another file
\* names, even when its registration in the extent tree, or a deletion, has failed; a volume
\* that has lost items in a split is left out.
THEOREM ExtentsApartCorrect == Spec => [](lost \/ ExtentsApart)
  <1>1. Inv /\ DataPart => ExtentsApart
    BY AloneApart DEF DataPart
  <1>2. Ruin => lost
    BY DEF Ruin
  <1> QED
    BY <1>1, <1>2, DataPartCorrect, PTL

\* As long as callers make the calls the driver handles, a file that Write, Truncate and
\* Symlink made has the size callers left it with until a write fails, and where the data
\* chunk lies at its logical address it reads back as they left it; and no two files share
\* an extent, also after a failed write, unless it cut the split of a leaf short.
THEOREM DataIntactCorrect ==
    ASSUME Handled, "write" \notin Beyond
    PROVE  Spec => []DataIntact
  <1>1. Inv /\ DataPart => DataIntact
    <2> SUFFICES ASSUME Inv, DataPart PROVE DataIntact
      OBVIOUS
    <2>1. ExtentsApart
      BY AloneApart DEF DataPart
    <2>2. ASSUME ~failed, NEW i \in Inodes, NamesOf(i) # {}, inode[i].kind # "dir"
          PROVE  (Linear => readFile(Start(0), i) = content[i]) /\ inode[i].size = Len(content[i])
      <3>1. StateOK /\ Weak(inode, entries) /\ IsEntries(entries) /\ NoDoubles(entries)
        BY WholeFacts
      <3>2. PICK x \in NamesIn(entries, i) : TRUE
        BY <2>2, <3>1, NamesOfIs
      <3>3. inode[i].kind # "none"
        BY <3>1, <3>2, InodeFacts DEF NamesIn, Weak
      <3>4. Trusted
        BY <2>2 DEF Trusted
      <3>5. Fits(inode[i], extents[i], content[i])
        BY <3>4 DEF DataPart, Sound
      <3> QED
        BY <3>1, <3>3, <3>5, ReadFits
    <2> QED
      BY <2>1, <2>2 DEF DataIntact, ExtentsApart
  <1>2. Ruin => DataIntact
    BY DEF Ruin, DataIntact
  <1> QED
    BY <1>1, <1>2, DataPartCorrect, PTL
=============================================================================

------------------------------- MODULE Xattr --------------------------------
(***************************************************************************)
(* vfs/xattr.go and the attribute calls of ext4/fs.go: extended attributes *)
(* in the tail of an inode or in a block of their own.                     *)
(*                                                                         *)
(* Both places hold a table of entries that grows up and values that grow  *)
(* down, in words of 4 bytes.  Every call is a transaction: one that fails *)
(* changes nothing, so each action is a call that succeeds.  Inodes made   *)
(* by Linux have a tail; those made here (I_extra_isize 0) have none.      *)
(***************************************************************************)
EXTENDS Naturals, Sequences, FiniteSets, SequencesExt, FiniteSetsExt

CONSTANTS
    Inodes,         \* inode numbers
    Tailed,         \* those that Linux has made, with a tail
    Names,          \* attribute names, in the order of entries in a table
    Values,         \* values callers set, sequences of letters
    TailWords,      \* words in the tail of an inode, behind the magic number
    BlockWords,     \* words in a block
    Blocks          \* blocks that attributes may take, positive numbers

HeaderWords == 8    \* of an attribute block
EntryWords == 5     \* of an entry with a name of up to 4 bytes
Junk == "?"         \* the name and the letter of what was no entry and no value

ASSUME SizesAssumption ==
    /\ TailWords \in Nat /\ BlockWords \in Nat /\ BlockWords > HeaderWords
    /\ Blocks \subseteq Nat \ {0} /\ Tailed \subseteq Inodes

\* Names are in the order of sort.Slice, each once; none is the mark of what was no entry.
ASSUME NamesAssumption ==
    /\ Names \in Seq(ToSet(Names)) /\ Junk \notin ToSet(Names)
    /\ \A j, k \in 1 .. Len(Names) : Names[j] = Names[k] => j = k
    /\ \A v \in Values : v \in Seq(ToSet(v))

\* A word: of a value, the first of an entry, or anything else.
ValueWord(x) == [type |-> "value", of |-> x]
EntryWord(name, offs, size) == [type |-> "entry", name |-> name, offs |-> offs, size |-> size]
Zero == ValueWord("0")
Other == ValueWord("?")

VARIABLES
    used,           \* inodes in use
    extra,          \* inodes with a tail (I_extra_isize > 0)
    tail,           \* what is in the tail of each inode; <<>> without magic number
    acl,            \* I_file_acl, 0 for none
    block,          \* what is in each block
    taken,          \* the block bitmap
    (* history, not in the program *)
    attrs,          \* what callers have set
    moved,          \* attributes whose value has been in a block since it was set
    lost            \* blocks of removed files

vars == <<used, extra, tail, acl, block, taken, attrs, moved, lost>>

\* No attribute blocks made elsewhere (those may be shared, which this code does not look at).
Init ==
    /\ used = Tailed /\ extra = Tailed
    /\ tail = [i \in Inodes |-> <<>>]
    /\ acl = [i \in Inodes |-> 0]
    /\ block = [b \in Blocks |-> <<>>]
    /\ taken = {}
    /\ attrs = [i \in Inodes |-> <<>>]
    /\ moved = [i \in Inodes |-> {}]
    /\ lost = {}

-----------------------------------------------------------------------------
(* Tables *)

\* The names of m in the order of the table.
Entries(m) ==
    LET upto[k \in 0 .. Len(Names)] ==
            IF k = 0 THEN <<>>
            ELSE IF Names[k] \in DOMAIN m THEN Append(upto[k - 1], Names[k]) ELSE upto[k - 1]
    IN  upto[Len(Names)]

\* The words that the first values take, for each number of them.
Room(m) ==
    LET es == Entries(m)
        room[k \in 0 .. Len(es)] == IF k = 0 THEN 0 ELSE room[k - 1] + Len(m[es[k]])
    IN  room

ValueLen(m) == Room(m)[Len(Entries(m))]

\* Without the word of zeros that ends the table (faulty).
FitsTight(m, avail) == EntryWords * Len(Entries(m)) + ValueLen(m) <= avail

\* serializeXAttrs: is there room for m, and the zeros behind its entries?
Fits(m, avail) == EntryWords * Len(Entries(m)) + 1 + ValueLen(m) <= avail

\* The word w of a table of m with the entries es, whose values are at offs: an entry,
\* or of a value.
TableWord(m, es, offs, w) ==
    LET holder == {k \in 1 .. Len(es) : w \in offs[k] .. offs[k] + Len(m[es[k]]) - 1}
        entry(k) == EntryWord(es[k], offs[k], Len(m[es[k]]))
    IN  IF w < EntryWords * Len(es)
        THEN IF w % EntryWords = 0 THEN entry(w \div EntryWords + 1) ELSE Other
        ELSE IF holder = {} THEN Zero
        ELSE LET k == CHOOSE k \in holder : TRUE IN ValueWord(m[es[k]][w - offs[k] + 1])

\* serializeXAttrs: the entries from the start, the values from the end.
serializeXAttrs(m, avail) ==
    LET es == Entries(m)
        room == Room(m)
        offs == [k \in 1 .. Len(es) |-> avail - room[k]]
    IN  [p \in 1 .. avail |-> TableWord(m, es, offs, p - 1)]

\* The loop of ListXAttrs over the table in words from position first on, up to the
\* first word of zeros; values are found from position base on.  (Breaks for lengths no
\* written table has are left out.)
Table(words, first, base) ==
    LET at(k) == first + EntryWords * (k - 1)
        n == Min({k \in 1 .. Len(words) : at(k) >= Len(words) \/ words[at(k) + 1] = Zero}) - 1
        word(k) == words[at(k) + 1]
        letter(w) == IF w.type = "value" THEN w.of ELSE Junk
        value(e) == [p \in 1 .. e.size |-> letter(words[base + e.offs + p])]
        named(x) == CHOOSE k \in 1 .. n : word(k).type = "entry" /\ word(k).name = x
    IN  [x \in {IF word(k).type = "entry" THEN word(k).name ELSE Junk : k \in 1 .. n} |->
            IF x = Junk THEN <<>> ELSE value(word(named(x)))]

\* Attributes m with those of o over them.
Over(m, o) == [x \in DOMAIN m \union DOMAIN o |-> IF x \in DOMAIN o THEN o[x] ELSE m[x]]

\* ListXAttrs: the tail, and the block over it.  In a block values are looked for from
\* its start, though serializeXAttrs counts from behind the header.
ListXAttrs(i) ==
    Over(IF i \in extra /\ tail[i] # <<>> THEN Table(tail[i], 0, 0) ELSE <<>>,
         IF acl[i] # 0 THEN Table(block[acl[i]], HeaderWords, 0) ELSE <<>>)

-----------------------------------------------------------------------------
(* SetXAttr with the new list m *)

\* In the tail, if there is one and all fit; a block is given back.
ToTail(i, m) ==
    /\ i \in extra /\ (m = <<>> \/ Fits(m, TailWords))
    /\ tail' = [tail EXCEPT ![i] = IF m = <<>> THEN <<>> ELSE serializeXAttrs(m, TailWords)]
    /\ acl' = [acl EXCEPT ![i] = 0]
    /\ taken' = taken \ {acl[i]}
    /\ UNCHANGED block

\* The tail is cleared.
ClearTail(i) == tail' = IF i \in extra THEN [tail EXCEPT ![i] = <<>>] ELSE tail

\* No tail and no attributes left.
ToNothing(i, m) ==
    /\ i \notin extra /\ m = <<>>
    /\ ClearTail(i)
    /\ acl' = [acl EXCEPT ![i] = 0]
    /\ taken' = taken \ {acl[i]}
    /\ UNCHANGED block

\* The start of the group added twice (faulty).
AllocateBlockTwice == Min(Blocks \ taken) + Cardinality(Blocks)

AllocateBlock == Min(Blocks \ taken)

\* In the block the inode has, or in a new one.
ToBlock(i, m) ==
    /\ m # <<>> /\ ~(i \in extra /\ Fits(m, TailWords))
    /\ Fits(m, BlockWords - HeaderWords)
    /\ acl[i] # 0 \/ taken # Blocks
    /\ LET b == IF acl[i] # 0 THEN acl[i] ELSE AllocateBlock
       IN  /\ block' = [block EXCEPT ![b] =
                            [p \in 1 .. HeaderWords |-> Other] \o serializeXAttrs(m, BlockWords - HeaderWords)]
           /\ acl' = [acl EXCEPT ![i] = b]
           /\ taken' = taken \union {b}
    /\ ClearTail(i)

SetXAttr(i, m) == ToTail(i, m) \/ ToNothing(i, m) \/ ToBlock(i, m)

\* What callers know now: name n was set or removed, and the result is wanted.
Noted(i, n, wanted) ==
    /\ attrs' = [attrs EXCEPT ![i] = wanted]
    /\ moved' = [moved EXCEPT ![i] =
                    IF acl'[i] # 0 THEN DOMAIN wanted ELSE (@ \ {n}) \intersect DOMAIN wanted]

-----------------------------------------------------------------------------
(* The calls *)

Without(m, n) == [x \in DOMAIN m \ {n} |-> m[x]]
With(m, n, v) == [x \in DOMAIN m \union {n} |-> IF x = n THEN v ELSE m[x]]

\* flags: 1 to create only, 2 to replace only.
Setxattr(i, n, v, flags) ==
    /\ i \in used
    /\ flags = 1 => n \notin DOMAIN ListXAttrs(i)
    /\ flags = 2 => n \in DOMAIN ListXAttrs(i)
    /\ SetXAttr(i, With(ListXAttrs(i), n, v))
    /\ Noted(i, n, With(attrs[i], n, v))
    /\ UNCHANGED <<used, extra, lost>>

Removexattr(i, n) ==
    /\ i \in used /\ n \in DOMAIN ListXAttrs(i)
    /\ SetXAttr(i, Without(ListXAttrs(i), n))
    /\ Noted(i, n, Without(attrs[i], n))
    /\ UNCHANGED <<used, extra, lost>>

\* The last name of a file goes; its attribute block is not given back.
Unlink(i) ==
    /\ i \in used
    /\ used' = used \ {i}
    /\ lost' = lost \union ({acl[i]} \ {0})
    /\ attrs' = [attrs EXCEPT ![i] = <<>>] /\ moved' = [moved EXCEPT ![i] = {}]
    /\ UNCHANGED <<extra, tail, acl, block, taken>>

\* InitNewInode that leaves I_file_acl as it is (faulty).
InitNewInodeKeepsAcl(i) ==
    /\ i \notin used
    /\ used' = used \union {i} /\ extra' = extra \ {i}
    /\ UNCHANGED <<tail, acl, block, taken, attrs, moved, lost>>

\* InitNewInode: the tail, where the last file's attributes are, is neither cleared nor
\* ever read again.
InitNewInode(i) ==
    /\ i \notin used
    /\ used' = used \union {i} /\ extra' = extra \ {i}
    /\ acl' = [acl EXCEPT ![i] = 0]
    /\ UNCHANGED <<tail, block, taken, attrs, moved, lost>>

Next == \E i \in Inodes :
    \/ \E n \in ToSet(Names) : Removexattr(i, n) \/ \E v \in Values, f \in 0 .. 2 : Setxattr(i, n, v, f)
    \/ Unlink(i) \/ InitNewInode(i)

Spec == Init /\ [][Next]_vars

-----------------------------------------------------------------------------
(* Properties *)

\* The type invariant.
TypeOK ==
    /\ used \subseteq Inodes /\ extra \subseteq Inodes /\ taken \subseteq Blocks
    /\ \A i \in Inodes : acl[i] \in Blocks \union {0} /\ Len(tail[i]) \in {0, TailWords}
    /\ \A b \in Blocks : Len(block[b]) \in {0, BlockWords}

\* A file has the attributes that were set and not removed, and no others: whatever was
\* in the tail of its inode before, while the list moves between tail and block and back,
\* and when it fills either to the last word.  The value of an attribute is the one it
\* was given, as long as it has not been in a block.
AttrsListed ==
    \A i \in used :
        /\ DOMAIN ListXAttrs(i) = DOMAIN attrs[i]
        /\ \A n \in DOMAIN attrs[i] \ moved[i] : ListXAttrs(i)[n] = attrs[i][n]

\* An attribute block belongs to one file, the bitmap has it, and blocks are only lost
\* by removing a file.
AclBlocksOwned ==
    LET owned == {acl[i] : i \in used} \ {0}
    IN  /\ taken = owned \union lost /\ owned \intersect lost = {}
        /\ \A i, j \in used : acl[i] = acl[j] /\ acl[i] # 0 => i = j
=============================================================================

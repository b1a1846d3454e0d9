------------------------------ MODULE DirBlock ------------------------------
(***************************************************************************)
(* Directory blocks of ext4, as vfs/dirent.go and vfs/directory.go edit    *)
(* and parse them.                                                         *)
(*                                                                         *)
(* A block is the sequence of its records {inode, rec_len, name}.  The     *)
(* unit of length is 4 bytes, to which the code rounds every record.  A    *)
(* removed record keeps its name with inode 0: its length still counts.    *)
(***************************************************************************)
EXTENDS Naturals, Sequences, SequencesExt, FiniteSetsExt

CONSTANTS
    NameLen,        \* bytes of each name that occurs
    BlockWords      \* fs.BlockSize in words

dirEntryHeaderSize == 8

ASSUME NamesAssumption == \A n \in DOMAIN NameLen : NameLen[n] \in 1 .. 255

\* Words a record with this name needs: header and name, rounded up.
minDirRecLen(name) == (dirEntryHeaderSize + NameLen[name] + 3) \div 4

ASSUME BlockAssumption ==
    BlockWords \in Nat /\ \A n \in DOMAIN NameLen : minDirRecLen(n) <= BlockWords

Record(ino, rec, name) == [ino |-> ino, rec |-> rec, name |-> name]

\* writeDirBlock for the one entry of a new block: the last record takes it all.
writeDirBlock(name, ino) == <<Record(ino, BlockWords, name)>>

\* Words behind the name of record r; the names of removed records count.
Slack(r) == r.rec - minDirRecLen(r.name)

\* Splitting that takes the whole length of a record as free (faulty).
SplittableWhole(b, name) == {i \in DOMAIN b : b[i].rec >= minDirRecLen(name)}

\* The records of block b that can be split to make room for name.
Splittable(b, name) == {i \in DOMAIN b : Slack(b[i]) >= minDirRecLen(name)}

\* AddDirEntry inside a block: the first record with room keeps what its own
\* name needs and the new record gets the rest.
Split(b, name, ino) ==
    LET i == Min(Splittable(b, name)) IN
    SubSeq(b, 1, i - 1)
        \o <<[b[i] EXCEPT !.rec = minDirRecLen(b[i].name)], Record(ino, Slack(b[i]), name)>>
        \o SubSeq(b, i + 1, Len(b))

\* The live records of block b under this name.
Named(b, name) == {i \in DOMAIN b : b[i].ino # 0 /\ b[i].name = name}

\* RemoveDirEntry that takes the record out and loses its length (faulty).
DropLost(b, name) == RemoveAt(b, Min(Named(b, name)))

\* RemoveDirEntry inside a block.  The record is joined to the one before it,
\* except that a predecessor at offset 0 (prevOff = 0) does not count as one:
\* then the record stays, with inode 0.
Drop(b, name) ==
    LET i == Min(Named(b, name)) IN
    IF i <= 2 THEN [b EXCEPT ![i].ino = 0]
    ELSE SubSeq(b, 1, i - 2)
            \o <<[b[i - 1] EXCEPT !.rec = @ + b[i].rec]>>
            \o SubSeq(b, i + 1, Len(b))

\* parseDirBlock: the live records, in order, as [name, ino].
parseDirBlock(b) ==
    LET live == SelectSeq(b, LAMBDA r : r.ino # 0)
    IN  [i \in DOMAIN live |-> [name |-> live[i].name, ino |-> live[i].ino]]

\* The records of a block tile it and none is shorter than its name needs.
Tiles(b) ==
    /\ FoldSeq(LAMBDA r, n : r.rec + n, 0, b) = BlockWords
    /\ \A i \in DOMAIN b : b[i].rec >= minDirRecLen(b[i].name)
=============================================================================

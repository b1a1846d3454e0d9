------------------------------ MODULE FileData ------------------------------
(***************************************************************************)
(* The contents of ext4 files: Open, Write and Truncate of ext4/fs.go with *)
(* the table of open files, on top of the extent trees of the vfs package. *)
(*                                                                         *)
(* Operations run one at a time, each in a transaction that is committed   *)
(* or rolled back as a whole (TxJournal has the steps and the              *)
(* interleavings).  A panic in a handler commits: the deferred function    *)
(* sees no error.  The caller of the handler recovers and the mount goes   *)
(* on.  Files start empty, as Create leaves them.                          *)
(***************************************************************************)
EXTENDS Integers, Sequences, SequencesExt

CONSTANTS
    Files,          \* inodes
    Paths,          \* names of files
    InodeOf,        \* the inode of a path; two paths of one inode are hard links
    BlockCount,     \* blocks 0 .. BlockCount - 1; block 0 is the superblock's
    BlockWords,     \* words of a block
    RootMax,        \* extents that fit in I_block (4 in the code)
    LeafMax,        \* extents that fit in a block ((BlockSize - 12) / 12)
    MaxLen,         \* longest extent (0x7FFF)
    MaxSize,        \* bound: the most words of each file
    MaxBuf,         \* bound: longest write, in words
    MaxCuts,        \* bound: calls of Truncate that make a file shorter
    Sparse,         \* TRUE if callers write beyond the end of a file
    CommitErrors    \* TRUE if a commit may fail

Blocks == 0 .. BlockCount - 1

ASSUME PathsAssumption == InodeOf \in [Paths -> Files]
ASSUME SizesAssumption == BlockCount \in Nat \ {0} /\ BlockWords \in Nat \ {0} /\ MaxLen \in Nat \ {0}
ASSUME NodesAssumption == RootMax \in Nat \ {0} /\ LeafMax \in Nat /\ LeafMax > RootMax
ASSUME BoundsAssumption == MaxSize \in [Files -> Nat] /\ MaxBuf \in Nat /\ MaxCuts \in Nat /\ Sparse \in BOOLEAN /\ CommitErrors \in BOOLEAN

VARIABLES
    dev,            \* inodes, block bitmap and blocks
    files,          \* e.files: path -> extents and size, for the paths that are open
    (* history, not in the program *)
    content,        \* the words each file should have
    cuts,           \* calls of Truncate that made a file shorter
    seen            \* what each open path knows: "all", "start" of its file, or "lost"

vars == <<dev, files, content, cuts, seen>>

\* Words a file never wrote: zeros, what a block held before, a node of a tree.
Zero == <<0>>
OldWord == <<1>>
NodeWord == <<2>>

\* A block holds words or, as a node of an extent tree, extents.
DataBlock(words) == [node |-> FALSE, words |-> words, extents |-> <<>>]
LeafBlock(extents) == [node |-> TRUE, words |-> [i \in 1 .. BlockWords |-> NodeWord], extents |-> extents]

\* I_block as InitExtentHeader leaves it: EH_depth, EH_entries, and the entries.
EmptyRoot == [depth |-> 0, count |-> 0, entries |-> <<>>]

Init ==
    /\ dev = [inode |-> [f \in Files |-> [size |-> 0, root |-> EmptyRoot]],
              used |-> {0},
              block |-> [b \in Blocks |-> DataBlock([i \in 1 .. BlockWords |-> OldWord])]]
    /\ files = <<>>
    /\ content = [f \in Files |-> <<>>]
    /\ cuts = 0
    /\ seen = [p \in Paths |-> "lost"]

-----------------------------------------------------------------------------
(* Reading extent trees and files *)

Extent(block, len, start) == [block |-> block, len |-> len, start |-> start]

\* ReadExtents of an inode copy: ok is FALSE if the header counts more entries
\* than I_block holds, or an index leads to a block that is not a node.
ReadExtents(d, mem) ==
    LET leaves == [i \in DOMAIN mem.root.entries |-> d.block[mem.root.entries[i].leaf]]
    IN  IF mem.root.depth = 0
        THEN [ok |-> mem.root.count <= Len(mem.root.entries), list |-> mem.root.entries]
        ELSE [ok |-> \A i \in DOMAIN leaves : leaves[i].node,
              list |-> FlattenSeq([i \in DOMAIN leaves |-> leaves[i].extents])]

\* The physical blocks of a list of extents, one after another.
Physical(extents) ==
    FlattenSeq([i \in DOMAIN extents |-> [k \in 1 .. extents[i].len |-> extents[i].start + k - 1]])

\* ReadFileAt of the whole file: the extents are taken to follow each other from
\* its start, whatever their EE_block; what is behind them reads as 0.
ReadFileAt(d, extents, size) ==
    LET blocks == Physical(extents)
        BlockAt(i) == ((i - 1) \div BlockWords) + 1
    IN  [i \in 1 .. size |-> IF BlockAt(i) > Len(blocks) THEN Zero
                             ELSE d.block[blocks[BlockAt(i)]].words[((i - 1) % BlockWords) + 1]]

\* The extents of a list that hold logical block n, taking an extent
\* for one block longer (faulty).
MappingPastEnd(extents, n) ==
    {i \in DOMAIN extents : extents[i].block <= n /\ n <= extents[i].block + extents[i].len}

\* The extents of a list that hold logical block n.
Mapping(extents, n) ==
    {i \in DOMAIN extents : extents[i].block <= n /\ n < extents[i].block + extents[i].len}

\* findPhysicalBlock, for a block that is found.
findPhysicalBlock(extents, n) ==
    LET i == CHOOSE i \in Mapping(extents, n) : \A j \in Mapping(extents, n) : i <= j
    IN  extents[i].start + n - extents[i].block

-----------------------------------------------------------------------------
(* An operation works on a result s: how it stands ("ok", "error" or       *)
(* "panic"), the view of the device and the copy of the inode.             *)

Begin(f) == [status |-> "ok", dev |-> dev, mem |-> dev.inode[f]]
Error(s) == [s EXCEPT !.status = "error"]
Then(s, F(_)) == IF s.status = "ok" THEN F(s) ELSE s

FreeBlocks(s) == Blocks \ s.dev.used
NextFree(s) == CHOOSE b \in FreeBlocks(s) : \A c \in FreeBlocks(s) : b <= c

AllocateBlock(s) ==
    IF FreeBlocks(s) = {} THEN Error(s) ELSE [s EXCEPT !.dev.used = @ \union {NextFree(s)}]

\* The extent e continues the extent last in the file (faulty).
ContinuesFile(last, e) == last.block + last.len = e.block /\ last.len + e.len <= MaxLen

\* It continues it on the device too, whatever its length (faulty).
ContinuesLong(last, e) == last.block + last.len = e.block /\ last.start + last.len = e.start

\* It continues it in the file and on the device and the two are not too long.
Continues(last, e) ==
    /\ last.block + last.len = e.block
    /\ last.start + last.len = e.start
    /\ last.len + e.len <= MaxLen

\* appendExtentToLeaf and appendExtentToLeafBlock: join with the last extent or
\* add one.
Extended(entries, e) ==
    IF entries # <<>> /\ Continues(Last(entries), e)
    THEN [entries EXCEPT ![Len(entries)].len = @ + e.len]
    ELSE Append(entries, e)

\* In front of the first entry that does not start before e.
InsertByBlock(entries, e) ==
    LET later == {i \in DOMAIN entries : entries[i].block >= e.block}
    IN  IF later = {} THEN Append(entries, e)
        ELSE InsertAt(entries, CHOOSE i \in later : \A j \in later : i <= j, e)

\* An index entry read as an extent: EI_leaf_lo lies where EE_len and
\* EE_start_hi are, EI_leaf_hi and EI_unused where EE_start_lo is.  For block
\* numbers below 2^15.
AsExtent(idx) == Extent(idx.block, idx.leaf, 0)

\* insertIdxIntoParent with the path that appendExtentToTree collects.  Its last
\* block is the leaf itself, which is thus taken for its own parent.  The entry
\* fits, because half of a full leaf has just been moved out; the branches that
\* split the parent or deepen the tree are never reached.
insertIdxIntoParent(s, leaf, idx) ==
    [s EXCEPT !.dev.block[leaf] = LeafBlock(InsertByBlock(@.extents, AsExtent(idx)))]

splitLeafBlockAndAppend(s, leaf, e) ==
    Then(AllocateBlock(s), LAMBDA a :
        LET all  == InsertByBlock(s.dev.block[leaf].extents, e)
            mid  == Len(all) \div 2
            right == SubSeq(all, mid + 1, Len(all))
        IN  insertIdxIntoParent(
                [a EXCEPT !.dev.block[leaf] = LeafBlock(SubSeq(all, 1, mid)),
                          !.dev.block[NextFree(s)] = LeafBlock(right)],
                leaf, [block |-> right[1].block, leaf |-> NextFree(s)]))

\* The extents in I_block move to a block of their own, e behind them.
splitRootLeafAndAppend(s, e) ==
    Then(AllocateBlock(s), LAMBDA a :
        LET old == s.mem.root.entries
        IN  [a EXCEPT !.dev.block[NextFree(s)] = LeafBlock(Append(old, e)),
                      !.mem.root = [depth |-> 1, count |-> 1,
                                    entries |-> <<[block |-> old[1].block, leaf |-> NextFree(s)]>>]])

\* appendExtentToTree goes down the last index entry.
appendExtentToTree(s, e) ==
    LET leaf == Last(s.mem.root.entries).leaf
        old  == s.dev.block[leaf].extents
    IN  IF Len(old) < LeafMax THEN [s EXCEPT !.dev.block[leaf] = LeafBlock(Extended(old, e))]
        ELSE splitLeafBlockAndAppend(s, leaf, e)

AppendExtent(s, e) ==
    LET root == s.mem.root
        new  == Extended(root.entries, e)
    IN  IF root.depth > 0 THEN appendExtentToTree(s, e)
        ELSE IF root.count = RootMax THEN splitRootLeafAndAppend(s, e)
        ELSE [s EXCEPT !.mem.root = [root EXCEPT !.count = Len(new), !.entries = new]]

\* One round of the loop of WriteFileAt: logical block n gets its part of the
\* words w, which belong at start.  A new block keeps the rest of what it held.
\* In a write that starts inside a block, the position in the buffer is
\* computed as blockStart - start, which is below 0: indexing panics.
WriteBlock(s, extents, start, w, n) ==
    LET found == Mapping(extents, n) # {}
        b == IF found THEN findPhysicalBlock(extents, n) ELSE NextFree(s)
        t == IF found THEN s
             ELSE Then(AllocateBlock(s), LAMBDA a : AppendExtent(a, Extent(n, 1, b)))
        at(i) == n * BlockWords + i - start
        patched == [i \in 1 .. BlockWords |->
                        IF at(i) \in DOMAIN w THEN w[at(i)] ELSE t.dev.block[b].words[i]]
    IN  Then(t, LAMBDA u : IF start > n * BlockWords THEN [u EXCEPT !.status = "panic"]
                           ELSE [u EXCEPT !.dev.block[b] = DataBlock(patched)])

\* WriteFileAt; the extents are read once, before the loop.
WriteFileAt(s, start, w) ==
    LET extents == ReadExtents(s.dev, s.mem)
        first == start \div BlockWords
        last  == (start + Len(w) - 1) \div BlockWords
        W[n \in first - 1 .. last] ==
            IF n < first THEN s
            ELSE Then(W[n - 1], LAMBDA u : WriteBlock(u, extents.list, start, w, n))
        end == start + Len(w)
    IN  IF w = <<>> THEN s
        ELSE IF ~extents.ok THEN Error(s)
        ELSE Then(W[last], LAMBDA u : [u EXCEPT !.mem.size = IF end > @ THEN end ELSE @])

\* The blocks of the extents behind logical block last, missing the first of an
\* extent that is cut (faulty).
BehindNext(extents, last) ==
    UNION {{e.start + k : k \in {k \in 0 .. e.len - 1 : e.block > last \/ e.block + k > last + 1}} :
           e \in Range(extents)}

\* The blocks of the extents behind logical block last.
Behind(extents, last) ==
    UNION {{e.start + k : k \in {k \in 0 .. e.len - 1 : e.block + k > last}} : e \in Range(extents)}

\* The part of an extent up to logical block last.
Cut(e, last) == [e EXCEPT !.len = IF e.block + @ - 1 <= last THEN @ ELSE last - e.block + 1]

\* The extents up to logical block last, the one that goes on behind it cut.
Kept(extents, last) ==
    LET K[i \in 0 .. Len(extents)] ==
            IF i = 0 THEN <<>>
            ELSE IF extents[i].block > last THEN K[i - 1] ELSE Append(K[i - 1], Cut(extents[i], last))
    IN  K[Len(extents)]

\* TruncateInode to fewer words: what is kept goes into I_block again, the header
\* counting all of it, whether it fits or not.  The nodes of the tree are not freed.
TruncateInode(s, size) ==
    LET extents == ReadExtents(s.dev, s.mem)
        last == ((size + BlockWords - 1) \div BlockWords) - 1
        kept == Kept(extents.list, last)
    IN  IF ~extents.ok THEN Error(s)
        ELSE [s EXCEPT !.dev.used = @ \ Behind(extents.list, last),
                       !.mem = [size |-> size,
                                root |-> [depth |-> 0, count |-> Len(kept),
                                          entries |-> SubSeq(kept, 1, IF Len(kept) < RootMax THEN Len(kept) ELSE RootMax)]]]

-----------------------------------------------------------------------------
(* The handlers *)

\* What the paths of a file know after it got longer or was written to.
Grown(f) == [p \in Paths |-> IF InodeOf[p] = f /\ seen[p] = "all" THEN "start" ELSE seen[p]]

\* The words w at start, with zeros in front of them if the file ends before.
Overwrite(old, start, w) ==
    [i \in 1 .. (IF start + Len(w) > Len(old) THEN start + Len(w) ELSE Len(old)) |->
        IF i - start \in DOMAIN w THEN w[i - start] ELSE IF i \in DOMAIN old THEN old[i] ELSE Zero]

WithInode(s, f) == [s.dev EXCEPT !.inode[f] = s.mem]

\* Open replaces what was known of the path.
Open(p) ==
    LET extents == ReadExtents(dev, dev.inode[InodeOf[p]])
    IN  /\ extents.ok
        /\ files' = [q \in DOMAIN files \union {p} |->
                        IF q = p THEN [extents |-> extents.list, size |-> dev.inode[InodeOf[p]].size]
                        ELSE files[q]]
        /\ seen' = [seen EXCEPT ![p] = "all"]
        /\ UNCHANGED <<dev, content, cuts>>

\* Read of everything, from the extents and the size the open path knows.
Read(p) == ReadFileAt(dev, files[p].extents, files[p].size)

Release(p) ==
    /\ p \in DOMAIN files
    /\ files' = [q \in DOMAIN files \ {p} |-> files[q]]
    /\ seen' = [seen EXCEPT ![p] = "lost"]
    /\ UNCHANGED <<dev, content, cuts>>

\* A refresh of the size alone (faulty).
RefreshedSize(old, s) == [old EXCEPT !.size = s.mem.size]

\* The entry of the open path after a write: the new extents, if they can be
\* read, and the new size.
Refreshed(old, s) ==
    LET extents == ReadExtents(s.dev, s.mem)
    IN  [extents |-> IF extents.ok THEN extents.list ELSE old.extents, size |-> s.mem.size]

\* The words a write brings: each tells its file and its place.
Word(f, i) == <<f, i>>

\* Write.  The path's entry is refreshed before the deferred commit, which may fail.
Write(p, start, n) ==
    LET f == InodeOf[p]
        w == [i \in 1 .. n |-> Word(f, start + i - 1)]
        s == WriteFileAt(Begin(f), start, w)
    IN  /\ p \in DOMAIN files
        /\ \/ /\ s.status = "ok"
              /\ dev' = WithInode(s, f)
              /\ files' = [files EXCEPT ![p] = Refreshed(@, s)]
              /\ content' = [content EXCEPT ![f] = Overwrite(@, start, w)]
              /\ seen' = [Grown(f) EXCEPT ![p] = "all"]
           \/ /\ s.status = "ok" /\ CommitErrors
              /\ files' = [files EXCEPT ![p] = Refreshed(@, s)]
              /\ seen' = [seen EXCEPT ![p] = "lost"]
              /\ UNCHANGED <<dev, content>>
           \/ /\ s.status = "panic"
              /\ dev' = s.dev
              /\ UNCHANGED <<files, content, seen>>
        /\ UNCHANGED cuts

\* Truncate to more words: zeros are written from the end on, here all at once.
Grow(p, size) ==
    LET f == InodeOf[p]
        old == dev.inode[f].size
        s == WriteFileAt(Begin(f), old, [i \in 1 .. size - old |-> Zero])
    IN  /\ size > old
        /\ \/ /\ s.status = "ok"
              /\ dev' = WithInode(s, f)
              /\ content' = [content EXCEPT ![f] = Overwrite(@, size, <<>>)]
              /\ seen' = Grown(f)
           \/ /\ s.status = "panic"
              /\ dev' = s.dev
              /\ UNCHANGED <<content, seen>>
        /\ UNCHANGED <<files, cuts>>

\* Truncate to fewer words.  Open paths keep the extents they have.
Shrink(p, size) ==
    LET f == InodeOf[p]
        s == TruncateInode(Begin(f), size)
    IN  /\ size < dev.inode[f].size /\ s.status = "ok"
        /\ cuts < MaxCuts /\ cuts' = cuts + 1
        /\ dev' = WithInode(s, f)
        /\ content' = [content EXCEPT ![f] = SubSeq(@, 1, size)]
        /\ seen' = [q \in Paths |-> IF InodeOf[q] = f THEN "lost" ELSE seen[q]]
        /\ UNCHANGED files

\* A mount starts with no open file.
Remount == files' = <<>> /\ seen' = [p \in Paths |-> "lost"] /\ UNCHANGED <<dev, content, cuts>>

Next ==
    \/ \E p \in Paths : Open(p) \/ Release(p)
    \/ \E p \in Paths, n \in 1 .. MaxBuf : \E start \in 0 .. MaxSize[InodeOf[p]] - n :
            /\ Sparse \/ start <= dev.inode[InodeOf[p]].size
            /\ Write(p, start, n)
    \/ \E p \in Paths : \E size \in 0 .. MaxSize[InodeOf[p]] : Grow(p, size) \/ Shrink(p, size)
    \/ Remount

Spec == Init /\ [][Next]_vars

-----------------------------------------------------------------------------
(* Properties *)

Offsets == UNION {0 .. MaxSize[f] : f \in Files}
Extents == [block : Offsets, len : 1 .. MaxLen, start : Blocks]
Words == {OldWord, NodeWord, Zero} \union {Word(f, i) : f \in Files, i \in Offsets}

\* The type invariant: trees are one level deep at most, I_block holds at most
\* RootMax entries, a leaf at most LeafMax, extents have at most MaxLen blocks.
TypeOK ==
    /\ \A f \in Files : LET root == dev.inode[f].root IN
        /\ dev.inode[f].size \in 0 .. MaxSize[f]
        /\ \/ root.depth = 0 /\ root.entries \in Seq(Extents) /\ Len(root.entries) <= RootMax
           \/ root.depth = 1 /\ root.entries \in Seq([block : Offsets, leaf : Blocks]) /\ Len(root.entries) = 1
    /\ dev.used \subseteq Blocks
    /\ \A b \in Blocks : /\ dev.block[b].words \in [1 .. BlockWords -> Words]
                         /\ dev.block[b].extents \in Seq(Extents) /\ Len(dev.block[b].extents) <= LeafMax
    /\ \A p \in DOMAIN files : files[p].extents \in Seq(Extents) /\ files[p].size \in 0 .. MaxSize[InodeOf[p]]

\* Opening a file and reading it gives every word written to it and zeros where
\* it was extended, or an error: growth into a leaf, cutting an extent, joining
\* extents and taking over freed blocks neither lose nor shift a word.
DataIntact ==
    \A f \in Files : LET extents == ReadExtents(dev, dev.inode[f]) IN
        extents.ok => ReadFileAt(dev, extents.list, dev.inode[f].size) = content[f]

\* The blocks an inode reaches, its nodes (<<0, n>>) and its data: block k of extent i is <<i, k>>.
Reached(f) ==
    LET root == dev.inode[f].root
        list == ReadExtents(dev, dev.inode[f]).list
        nodes == {<<0, n>> : n \in IF root.depth = 0 THEN {} ELSE DOMAIN root.entries}
        data == UNION {{<<i, k>> : k \in 0 .. list[i].len - 1} : i \in DOMAIN list}
    IN  [x \in nodes \union data |->
            IF x \in nodes THEN root.entries[x[2]].leaf ELSE list[x[1]].start + x[2]]

\* No block belongs to two files or to one file twice, and all are in use: what
\* AllocateBlock gives to one file is never written through another, nor is an
\* extent tree, nor the superblock.
BlocksOwned ==
    /\ \A f \in Files : IsInjective(Reached(f)) /\ Range(Reached(f)) \subseteq dev.used \ {0}
    /\ \A f, g \in Files : f # g => Range(Reached(f)) \intersect Range(Reached(g)) = {}

\* Truncate gives back all data: a block in use that no file reaches is a node of
\* a tree that was flattened, or belongs to a file whose I_block has overflowed.
DataReclaimed ==
    (\A f \in Files : ReadExtents(dev, dev.inode[f]).ok) =>
        \A b \in dev.used \ {0} : dev.block[b].node \/ \E f \in Files : b \in Range(Reached(f))

\* The table of open files: a path that was opened or written to last reads
\* exactly what the file holds; one whose file was written to by another name
\* reads the start of it, in its present form; a cut or a failed commit ends this.
HandlesFollow ==
    \A p \in DOMAIN files :
        /\ seen[p] = "all" => Read(p) = content[InodeOf[p]]
        /\ seen[p] = "start" => IsPrefix(Read(p), content[InodeOf[p]])
=============================================================================

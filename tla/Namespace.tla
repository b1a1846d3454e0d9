----------------------------- MODULE Namespace ------------------------------
(***************************************************************************)
(* The names of an ext4 file system: the path operations of ext4/fs.go on  *)
(* top of walk, Lookup, AddDirEntry and RemoveDirEntry of the vfs package, *)
(* with both directory caches.                                             *)
(*                                                                         *)
(* Each operation runs inside one transaction: it works on a view of the   *)
(* device, which is committed if it succeeds and dropped if it returns an  *)
(* error.  The caches are outside the transaction and survive either way.  *)
(* One operation runs at a time here, and a commit that fails has written  *)
(* nothing in place; TxJournal has the interleavings, the steps of a       *)
(* commit and the write back that is cut short, FreeSpace the counters of  *)
(* the allocator.                                                          *)
(***************************************************************************)
EXTENDS DirBlock, Integers, TLC

CONSTANTS
    Names,          \* names callers use
    Inodes,         \* inode numbers, 1 .. n
    Blocks,         \* block numbers directories can get, 1 .. n
    MaxDepth,       \* longest path callers use
    Targets,        \* the paths symbolic links are made to
    MaxSymlinks,    \* maxSymlinks (40 in the code)
    MaxLinks,       \* bound: link counts reached by counting up
    Spare,          \* bound: blocks that stay free
    Calls,          \* the operations callers use
    Listed,         \* the paths callers list
    Faults          \* subset of {"io", "commit"}: device errors that occur

Root == 1
Dot == "."
DotDot == ".."

ASSUME IdsAssumption == Root \in Inodes /\ Root \in Blocks /\ 0 \notin Inodes
ASSUME NamesDistinct == DOMAIN NameLen = Names \union {Dot, DotDot} /\ Dot \notin Names /\ DotDot \notin Names

Paths == UNION {[1 .. n -> Names] : n \in 0 .. MaxDepth}

ASSUME PathsAssumption == Targets \subseteq Paths /\ Listed \subseteq Paths /\ MaxSymlinks \in Nat

VARIABLES
    dev,            \* the device: inode table, both bitmaps, directory blocks
    dirCache,       \* vfs: entries by the I_block of the directory's inode
    dirs,           \* ext4: listings by path
    (* history, not in the program *)
    names,          \* the names dev holds, as a map for every directory
    undone,         \* TRUE once a Rename was undone that had taken its entry out
    aliased         \* TRUE once a listing was dropped by a path with a symbolic link in it

vars == <<dev, dirCache, dirs, names, undone, aliased>>

\* An inode: its type, its link count, the blocks its extents map, and for a
\* symbolic link the components of its target (which are text in I_block or in
\* the link's block, and may come with any number of slashes).
NewInode(kind) == [kind |-> kind, nlink |-> 1, blocks |-> <<>>, target |-> <<>>]

\* The root as mkfs leaves it: one block, with "." and "..".
Init ==
    /\ dev = [inode |-> [i \in Inodes |-> IF i = Root
                            THEN [NewInode("dir") EXCEPT !.nlink = 2, !.blocks = <<Root>>]
                            ELSE [NewInode("none") EXCEPT !.nlink = 0]],
              used |-> {Root}, usedBlocks |-> {Root},
              block |-> [b \in Blocks |-> IF b = Root
                            THEN <<Record(Root, minDirRecLen(Dot), Dot),
                                   Record(Root, BlockWords - minDirRecLen(Dot), DotDot)>>
                            ELSE <<>>]]
    /\ dirCache = <<>>
    /\ dirs = <<>>
    /\ names = [i \in Inodes |-> <<>>] /\ undone = FALSE /\ aliased = FALSE

-----------------------------------------------------------------------------
(* Operations as results.  A result s has the fields                       *)
(*   ok, dev, cache   whether all went well so far, the view, dirCache     *)
(*   ino, mem         the number and the copy of the inode a call returned *)
(*   taken, via       (history) whether Rename took an entry out, whether a *)
(*                    walk followed a symbolic link                        *)

Start ==
    [ok |-> TRUE, dev |-> dev, cache |-> dirCache, ino |-> 0, mem |-> NewInode("none"),
     taken |-> FALSE, via |-> FALSE]
Fail(s) == [s EXCEPT !.ok = FALSE]

\* "if err != nil { return err }": goes on with F only after success.
Then(s, F(_)) == IF s.ok THEN F(s) ELSE s

\* ReadDir.
ReadDir(d, mem) ==
    FlattenSeq([i \in DOMAIN mem.blocks |-> parseDirBlock(d.block[mem.blocks[i]])])

\* ReadDirCached: the cache after reading the directory with inode copy mem.
ReadDirCached(s, mem) ==
    IF mem.blocks \in DOMAIN s.cache THEN s.cache
    ELSE s.cache @@ (mem.blocks :> ReadDir(s.dev, mem))

\* The inode of the first entry called name, 0 if there is none.
FirstNamed(entries, name) ==
    LET hits == {i \in DOMAIN entries : entries[i].name = name}
    IN  IF hits = {} THEN 0 ELSE entries[Min(hits)].ino

\* Lookup in the directory with inode copy mem.
Lookup(s, mem, name) ==
    LET c == ReadDirCached(s, mem)
        i == FirstNamed(c[mem.blocks], name)
    IN  [s EXCEPT !.cache = c, !.ino = i, !.ok = i # 0]

\* ReadInode: a copy of inode i.
ReadInode(s, i) == [s EXCEPT !.ino = i, !.mem = s.dev.inode[i]]

RECURSIVE walkLinks(_, _, _)

\* walk: from the root, one Lookup and one ReadInode for each component.  Every
\* symbolic link is followed, the last component too, by a walk of its own that
\* starts at the root.
walkLinks(s, path, symDepth) ==
    LET W[k \in 0 .. Len(path)] ==
            IF k = 0 THEN ReadInode(s, Root)
            ELSE Then(W[k - 1], LAMBDA w :
                    IF w.mem.kind # "dir" THEN Fail(w)
                    ELSE Then(Lookup(w, w.mem, path[k]), LAMBDA l :
                        LET child == ReadInode(l, l.ino) IN
                        IF child.mem.kind = "link"
                        THEN walkLinks([child EXCEPT !.via = TRUE], child.mem.target, symDepth + 1)
                        ELSE child))
    IN  IF symDepth > MaxSymlinks THEN Fail(s) ELSE W[Len(path)]

walk(s, path) == walkLinks(s, path, 0)

WriteInode(s, i, mem) == [s EXCEPT !.dev.inode[i] = mem]

\* Decrementing a uint16.
Decrement(n) == (n - 1) % (2 ^ 16)

\* invalidateDirCache that does nothing (faulty).
InvalidateNothing(cache, mem) == cache

\* invalidateDirCache: only the entry of the inode's present I_block goes.
Invalidate(cache, mem) == [k \in DOMAIN cache \ {mem.blocks} |-> cache[k]]

FreeInodes(s) == Inodes \ s.dev.used
FreeBlocks(s) == Blocks \ s.dev.usedBlocks

AllocateInode(s) ==
    IF FreeInodes(s) = {} THEN Fail(s)
    ELSE LET i == Min(FreeInodes(s)) IN [s EXCEPT !.dev.used = @ \union {i}, !.ino = i]

AllocateBlock(s) ==
    IF FreeBlocks(s) = {} THEN Fail(s)
    ELSE [s EXCEPT !.dev.usedBlocks = @ \union {Min(FreeBlocks(s))}]

\* InitNewInode that loses the file type (faulty).
InitNewInodeUntyped(s, kind) ==
    Then(AllocateInode(s), LAMBDA a : WriteInode(a, a.ino, NewInode("none")))

\* AllocateInode and InitNewInode.
InitNewInode(s, kind) ==
    Then(AllocateInode(s), LAMBDA a : WriteInode(a, a.ino, NewInode(kind)))

\* Changing one block of the directory mem drops its cached entries.
EditBlock(s, b, contents, mem) ==
    [s EXCEPT !.dev.block[b] = contents, !.cache = Invalidate(@, mem), !.mem = mem]

\* The new block of AddDirEntry: AppendExtent changes I_block, so it is the new
\* key that is invalidated and what was cached under the old one stays.
AddDirBlock(s, mem, name, ino) ==
    Then(AllocateBlock(s), LAMBDA a :
        LET b == Min(FreeBlocks(s))
        IN  EditBlock(a, b, writeDirBlock(name, ino), [mem EXCEPT !.blocks = Append(@, b)]))

\* AddDirEntry into the directory with inode copy mem; the copy it leaves the
\* caller is s.mem.  io: AllocateBlock cannot read or write its bitmap.
AddDirEntry(s, mem, name, ino, io) ==
    LET l == Lookup(s, mem, name)
        t == [l EXCEPT !.ok = TRUE]
        room == {k \in DOMAIN mem.blocks : Splittable(s.dev.block[mem.blocks[k]], name) # {}}
    IN  IF mem.kind # "dir" THEN Fail(s)
        ELSE IF l.ok THEN Fail(l)
        ELSE IF room = {} THEN IF io THEN Fail(t) ELSE AddDirBlock(t, mem, name, ino)
        ELSE LET b == mem.blocks[Min(room)]
             IN  EditBlock(t, b, Split(s.dev.block[b], name, ino), mem)

RemoveDirEntry(s, mem, name) ==
    LET holds == {k \in DOMAIN mem.blocks : Named(s.dev.block[mem.blocks[k]], name) # {}}
    IN  IF mem.kind # "dir" \/ holds = {} THEN Fail(s)
        ELSE LET b == mem.blocks[Min(holds)]
             IN  EditBlock(s, b, Drop(s.dev.block[b], name), mem)

\* DropLink that frees the inode with one link left (faulty).
DropLinkEarly(s, i, mem) ==
    LET n == Decrement(mem.nlink)
        freed == [s EXCEPT !.dev.usedBlocks = @ \ {mem.blocks[k] : k \in DOMAIN mem.blocks},
                           !.dev.used = @ \ {i}]
    IN  WriteInode(IF n <= 1 THEN freed ELSE s, i, [mem EXCEPT !.nlink = n])

\* DropLink that does not write the inode back (faulty).
DropLinkUnwritten(s, i, mem) ==
    IF mem.nlink # 1 THEN s
    ELSE [s EXCEPT !.dev.usedBlocks = @ \ {mem.blocks[k] : k \in DOMAIN mem.blocks},
                   !.dev.used = @ \ {i}]

\* The link count of inode i, of which mem is a copy, goes down by one; at 0
\* its blocks and the inode are freed.  The inode is written in either case.
DropLink(s, i, mem) ==
    LET n == Decrement(mem.nlink)
        freed == [s EXCEPT !.dev.usedBlocks = @ \ {mem.blocks[k] : k \in DOMAIN mem.blocks},
                           !.dev.used = @ \ {i}]
    IN  WriteInode(IF n = 0 THEN freed ELSE s, i, [mem EXCEPT !.nlink = n])

-----------------------------------------------------------------------------
(* The operations of ext4/fs.go, up to the deferred commit or rollback *)

Create(path, io) ==
    Then(walk(Start, Front(path)), LAMBDA w :
    Then(InitNewInode(w, "file"), LAMBDA n :
    Then(AddDirEntry(n, w.mem, Last(path), n.ino, io), LAMBDA a :
        WriteInode(a, w.ino, a.mem))))

\* Mkdir takes a block for the new directory and makes no use of it.
Mkdir(path, io) ==
    Then(walk(Start, Front(path)), LAMBDA w :
    Then(InitNewInode(w, "dir"), LAMBDA n :
    Then(AllocateBlock(n), LAMBDA b :
    Then(AddDirEntry(b, w.mem, Last(path), n.ino, io), LAMBDA a :
        WriteInode(a, w.ino, [a.mem EXCEPT !.nlink = @ + 1])))))

\* Symlink: a long target is put into a block of its own, a short one into I_block.
Symlink(target, path, long, io) ==
    Then(walk(Start, Front(path)), LAMBDA w :
    Then(AllocateInode(w), LAMBDA n :
    Then(IF long THEN AllocateBlock(n) ELSE n, LAMBDA b :
        LET mem == [NewInode("link") EXCEPT !.blocks = IF long THEN <<Min(FreeBlocks(n))>> ELSE <<>>,
                                            !.target = target]
        IN  Then(AddDirEntry(WriteInode(b, n.ino, mem), w.mem, Last(path), n.ino, io), LAMBDA a :
                WriteInode(a, w.ino, a.mem)))))

\* Link: the walk to the old name follows a symbolic link, so it is what this leads
\* to that gets the new name.
Link(old, path, io) ==
    Then(walk(Start, old), LAMBDA t :
    Then(walk(t, Front(path)), LAMBDA w :
        IF t.mem.kind = "dir" THEN Fail(w)
        ELSE Then(AddDirEntry(w, w.mem, Last(path), t.ino, io), LAMBDA a :
                WriteInode(WriteInode(a, t.ino, [t.mem EXCEPT !.nlink = @ + 1]), w.ino, a.mem))))

\* Unlink and, if mustBeDir, Rmdir.
removeEntry(path, mustBeDir) ==
    Then(walk(Start, Front(path)), LAMBDA w :
    Then(IF w.mem.kind = "dir" THEN Lookup(w, w.mem, Last(path)) ELSE Fail(w), LAMBDA c :
        LET child == c.dev.inode[c.ino]
            isDir == child.kind = "dir"
            full  == isDir /\ \E k \in DOMAIN ReadDir(c.dev, child) :
                                ReadDir(c.dev, child)[k].name \notin {Dot, DotDot}
        IN  IF isDir # mustBeDir \/ full THEN Fail(c)
            ELSE Then(RemoveDirEntry(c, w.mem, Last(path)), LAMBDA r :
                    WriteInode(DropLink(r, c.ino, child), w.ino,
                        IF isDir THEN [w.mem EXCEPT !.nlink = Decrement(@)] ELSE w.mem))))

\* Rename that writes the copy of the old parent last (faulty).
MoveOldLast(s, po, pn, oldName, newName, i, io) ==
    Then(RemoveDirEntry(s, po.mem, oldName), LAMBDA r :
        LET a == AddDirEntry([r EXCEPT !.taken = TRUE], pn.mem, newName, i, io)
        IN  IF a.ok THEN WriteInode(WriteInode(a, pn.ino, a.mem), po.ino, po.mem)
            ELSE Fail(AddDirEntry([a EXCEPT !.ok = TRUE], po.mem, oldName, i, io)))

\* Rename, after the target has been looked up and, if it was there, unlinked:
\* s; po and pn are the callers' copies of the two parents, i the renamed inode.
Move(s, po, pn, oldName, newName, i, io) ==
    Then(RemoveDirEntry(s, po.mem, oldName), LAMBDA r :
        LET a == AddDirEntry([r EXCEPT !.taken = TRUE], pn.mem, newName, i, io)
        IN  IF a.ok THEN WriteInode(WriteInode(a, po.ino, po.mem), pn.ino, a.mem)
            ELSE Fail(AddDirEntry([a EXCEPT !.ok = TRUE], po.mem, oldName, i, io)))

Rename(old, new, io) ==
    Then(walk(Start, Front(old)), LAMBDA po :
    Then(walk(po, Front(new)), LAMBDA pn :
    Then(IF po.mem.kind = "dir" THEN Lookup(pn, po.mem, Last(old)) ELSE Fail(pn), LAMBDA c :
    Then(IF pn.mem.kind = "dir" THEN [Lookup(c, pn.mem, Last(new)) EXCEPT !.ok = TRUE] ELSE Fail(c), LAMBDA e :
        LET existing == e.dev.inode[e.ino] IN
        IF e.ino = 0 THEN Move(e, po, pn, Last(old), Last(new), c.ino, io)
        ELSE IF existing.kind = "dir" THEN Fail(e)
        ELSE Then(RemoveDirEntry(e, pn.mem, Last(new)), LAMBDA r :
                Move(DropLink(r, e.ino, existing), po, pn, Last(old), Last(new), c.ino, io))))))

-----------------------------------------------------------------------------
(* The actions: an operation with its commit or rollback *)

Links == 0 .. MaxLinks \union {2 ^ 16 - 1}
WithinBound(d) ==
    /\ \A i \in Inodes : d.inode[i].nlink \in Links
    /\ Cardinality(Blocks \ d.usedBlocks) >= Spare

\* The names the device d holds: for every directory in use, a map to inodes.
Held(d) ==
    [i \in Inodes |->
        IF i \notin d.used \/ d.inode[i].kind # "dir" THEN <<>>
        ELSE LET es == SelectSeq(ReadDir(d, d.inode[i]), LAMBDA e : e.name \in Names)
             IN  [n \in {es[k].name : k \in DOMAIN es} |-> FirstNamed(es, n)]]

\* The cached listings without those of the given directories.
Forget(listed) == [p \in DOMAIN dirs \ listed |-> dirs[p]]

\* The deferred function: commit, or roll back after an error.  A commit that
\* fails leaves the device as it was (TxJournal and FreeSpace have those that are cut
\* short in their write back); the listings are dropped before it.
Finish(s, listed) ==
    /\ dirCache' = s.cache
    /\ aliased' = (aliased \/ (s.ok /\ s.via /\ listed # {}))
    /\ \/ s.ok /\ WithinBound(s.dev) /\ dev' = s.dev /\ dirs' = Forget(listed) /\ names' = Held(s.dev)
          /\ UNCHANGED undone
       \/ s.ok /\ "commit" \in Faults /\ dirs' = Forget(listed) /\ undone' = (undone \/ s.taken)
          /\ UNCHANGED <<dev, names>>
       \/ ~s.ok /\ undone' = (undone \/ s.taken) /\ UNCHANGED <<dev, dirs, names>>

Errors == {FALSE} \union {"io" \in Faults}

\* Create, Link and Symlink do not touch the cached listing of the parent.
DoCreate == "create" \in Calls /\ \E p \in Paths \ {<<>>}, io \in Errors : Finish(Create(p, io), {})
DoLink == "link" \in Calls /\ \E q \in Paths, p \in Paths \ {<<>>}, io \in Errors : Finish(Link(q, p, io), {})
DoSymlink ==
    "symlink" \in Calls /\ \E t \in Targets, p \in Paths \ {<<>>}, long \in BOOLEAN, io \in Errors :
        Finish(Symlink(t, p, long, io), {})
DoMkdir == "mkdir" \in Calls /\ \E p \in Paths \ {<<>>}, io \in Errors : Finish(Mkdir(p, io), {Front(p)})

\* Unlink that leaves the cached listing of the parent (faulty).
DoUnlinkKeepsListing ==
    "unlink" \in Calls /\ \E p \in Paths \ {<<>>} : Finish(removeEntry(p, FALSE), {})

DoUnlink == "unlink" \in Calls /\ \E p \in Paths \ {<<>>} : Finish(removeEntry(p, FALSE), {Front(p)})
DoRmdir == "rmdir" \in Calls /\ \E p \in Paths \ {<<>>} : Finish(removeEntry(p, TRUE), {Front(p)})

\* The kernel side of the mount refuses to move a directory below itself.
DoRename ==
    "rename" \in Calls /\ \E p, q \in Paths \ {<<>>}, io \in Errors :
        /\ ~(Len(p) < Len(q) /\ SubSeq(q, 1, Len(p)) = p)
        /\ Finish(Rename(p, q, io), {Front(p), Front(q)})

Getattr == \E p \in Paths : dirCache' = walk(Start, p).cache /\ UNCHANGED <<dev, dirs, names, undone, aliased>>

\* Readdir: listings are kept by path; a miss reads the directory itself.
Readdir ==
    \E p \in Listed \ DOMAIN dirs :
        LET w == walk(Start, p) IN
        /\ dirCache' = w.cache
        /\ dirs' = IF w.ok /\ w.mem.kind = "dir" THEN dirs @@ (p :> ReadDir(w.dev, w.mem)) ELSE dirs
        /\ UNCHANGED <<dev, names, undone, aliased>>

\* A mount starts with empty caches.
Remount == dirCache' = <<>> /\ dirs' = <<>> /\ UNCHANGED <<dev, names, undone, aliased>>

Next ==
    \/ DoCreate \/ DoSymlink \/ DoLink \/ DoMkdir \/ DoUnlink \/ DoRmdir \/ DoRename
    \/ Getattr \/ Readdir \/ Remount

Spec == Init /\ [][Next]_vars

-----------------------------------------------------------------------------
(* Properties *)

Entry == [name : Names \union {Dot, DotDot}, ino : Inodes]
BlockSeqs == UNION {[1 .. n -> Blocks] : n \in 0 .. Cardinality(Blocks)}

\* The type invariant: inodes, bitmaps, blocks and both caches.
TypeOK ==
    /\ dev.inode \in [Inodes -> [kind : {"none", "file", "link", "dir"}, nlink : Links,
                                 blocks : BlockSeqs, target : Targets \union {<<>>}]]
    /\ \A i \in dev.used : dev.inode[i].kind # "none"
    /\ dev.used \subseteq Inodes /\ dev.usedBlocks \subseteq Blocks
    /\ DOMAIN dev.block = Blocks
    /\ DOMAIN dirCache \subseteq BlockSeqs
    /\ \A k \in DOMAIN dirCache : dirCache[k] \in Seq(Entry)
    /\ DOMAIN dirs \subseteq Paths /\ undone \in BOOLEAN /\ aliased \in BOOLEAN
    /\ \A p \in DOMAIN dirs : dirs[p] \in Seq(Entry)

\* The directories in use, with what they hold.
Directories == {i \in dev.used : dev.inode[i].kind = "dir"}
EntriesOf(i) == ReadDir(dev, dev.inode[i])
EntrySet(i) == {EntriesOf(i)[k] : k \in DOMAIN EntriesOf(i)}

\* Splitting, joining and clearing records leaves every block of every directory
\* exactly tiled by records that fit their names, no block is in two inodes or
\* twice in one, and each is allocated: no entry or target is written over.  Until
\* a Rename is undone half-way: what dirCache keeps of it leads later operations to
\* wrong inodes.
BlocksIntact ==
    ~undone =>
        /\ \A i \in Directories : \A k \in DOMAIN dev.inode[i].blocks :
                LET b == dev.inode[i].blocks[k] IN Tiles(dev.block[b]) /\ b \in dev.usedBlocks
        /\ \A i, j \in dev.used : \A k \in DOMAIN dev.inode[i].blocks, m \in DOMAIN dev.inode[j].blocks :
                dev.inode[i].blocks[k] = dev.inode[j].blocks[m] => i = j /\ k = m

\* What fsckDirectories checks: no directory has two entries of one name, and
\* every entry leads to an inode in use.
EntriesSound ==
    \A i \in Directories :
        /\ \A j, k \in DOMAIN EntriesOf(i) : EntriesOf(i)[j].name = EntriesOf(i)[k].name => j = k
        /\ \A e \in EntrySet(i) : e.ino \in dev.used

\* The link count of a file or symbolic link is the number of names it has, through any series of
\* Link, Unlink and Rename over an existing name: it is freed with its last name.
FileLinksExact ==
    \A f \in dev.used : dev.inode[f].kind # "dir" =>
        dev.inode[f].nlink = Cardinality({<<i, e>> \in Directories \X [name : Names, ino : {f}] : e \in EntrySet(i)})

\* dirCache, keyed by I_block, never answers for a directory with entries that
\* the device does not hold, though blocks are freed and given to other
\* directories, the old key stays cached when a directory grows, and operations
\* that read it are rolled back or fail to commit.  The one that spoils it is a
\* Rename undone after it took its entry out: AddDirEntry has then looked at the
\* directory without that entry.
DirCacheCurrent ==
    ~undone => \A i \in Directories : dev.inode[i].blocks \in DOMAIN dirCache =>
        dirCache[dev.inode[i].blocks] = EntriesOf(i)

\* Every operation that takes a name out of the root also drops the cached
\* listing of the root, commit or not: a listing never shows a name that is gone,
\* until an operation reaches its directory through a symbolic link (the listing
\* that is dropped is then the one of the path it was given).
ListingHasNoGhosts ==
    ~aliased /\ <<>> \in DOMAIN dirs =>
        \A k \in DOMAIN dirs[<<>>] : dirs[<<>>][k] \in EntrySet(Root)

Maps == INSTANCE NameMaps WITH names <- names

\* While there is room (Spare > 0) each operation takes effect on the names as one step of
\* NameMaps or not at all: Rename, with its two copies of what may be the same
\* parent inode, neither loses nor keeps an entry, and Rmdir only takes what is
\* empty.
ImplementsNameMaps == Maps!Spec
=============================================================================

------------------------------ MODULE BtrfsFS -------------------------------
(***************************************************************************)
(* btrfs/fs.go: names, inodes and file data of a btrfs volume.             *)
(*                                                                         *)
(* The operations work on the items of the file system tree; BtrfsTree     *)
(* shows that the tree keeps items as ItemMap says.  There are no          *)
(* transactions: an operation that fails half way leaves what it has done. *)
(* b.mu is held for every operation, so each is one step.  pathCache keeps *)
(* the inode of every path that was resolved, by the string it was asked   *)
(* with.  Callers write a path with one slash before each name; only the   *)
(* listing of the root asks for "//name".                                  *)
(*                                                                         *)
(* Entries are those this driver makes (DIR_INDEX items).                  *)
(***************************************************************************)
EXTENDS Naturals, Sequences, FiniteSets, SequencesExt, FiniteSetsExt

CONSTANTS
    Names,          \* names callers use
    Inodes,         \* inode numbers, 1 .. n; the root directory is 1
    MaxDepth,       \* longest path callers use
    Words,          \* words of file data callers write
    InlineMax,      \* words that are kept in the item itself
    MaxSize,        \* bound: words in a file
    DataBlocks,     \* places for extents in the data chunk
    MaxLinks,       \* bound: link counts
    Linear,         \* the data chunk lies on the device at its logical address
    Faulty,         \* writes of an operation that may be the one to fail
    Beyond          \* subset of {"rename", "chmod", "write"}: calls the driver does
                    \* not handle (below), but that callers make

Root == 1
Paths == UNION {[1 .. n -> Names] : n \in 0 .. MaxDepth}
Zero == "0"         \* a word of zeros
Junk == "?"         \* a word of something else

ASSUME RootAssumption ==
    /\ Root \in Inodes /\ Inodes \subseteq Nat /\ \E n \in Inodes : Inodes = 1 .. n
    /\ IsFiniteSet(Names) /\ MaxDepth \in Nat /\ MaxLinks \in Nat \ {0}
ASSUME WordsAssumption ==
    /\ {Zero, Junk} \cap Words = {} /\ DataBlocks \subseteq Nat \ {0}
    /\ InlineMax \in Nat /\ MaxSize \in Nat \ {0} /\ Linear \in BOOLEAN
ASSUME FaultsAssumption == Faulty \subseteq Nat \ {0} /\ Beyond \subseteq {"rename", "chmod", "write"}

VARIABLES
    inode,          \* inode items: link count, size, and of the type only whether
                    \* it is a directory, which is all the operations ask
    entries,        \* DIR_INDEX items of every inode, in the order of their index
    extents,        \* EXTENT_DATA items of every inode, all with offset 0, with
                    \* the words of the extent
    taken,          \* the extents of file data in the extent tree
    pathCache,      \* inodes by path
    listed,         \* the part of pathCache with keys "//name", by name
    (* history, not in the program *)
    failed,         \* a write has failed, or there was no room for one
    lost,           \* the failed write has taken items with it
    content         \* what callers have made each file hold

vars == <<inode, entries, extents, taken, pathCache, listed, failed, lost, content>>

NoInode == [kind |-> "none", nlink |-> 0, size |-> 0]
Used(s) == {i \in Inodes : s.inode[i].kind # "none"}

Init ==
    /\ inode = [i \in Inodes |-> IF i = Root THEN [kind |-> "dir", nlink |-> 1, size |-> 0] ELSE NoInode]
    /\ entries = [i \in Inodes |-> <<>>]
    /\ extents = [i \in Inodes |-> <<>>]
    /\ taken = {}
    /\ pathCache = <<>> /\ listed = <<>>
    /\ failed = FALSE /\ lost = FALSE
    /\ content = [i \in Inodes |-> <<>>]

-----------------------------------------------------------------------------
(* Operations as results.  A result s has all items and the cache, and     *)
(*   ok       no error so far                                              *)
(*   torn     a write has failed or had no room                            *)
(*   bad      which of the tree writes still to come fails, 0 for none     *)
(*   ino      the inode a call returned                                    *)

Start(bad) == [inode |-> inode, entries |-> entries, extents |-> extents, taken |-> taken,
               cache |-> pathCache, ok |-> TRUE, torn |-> FALSE, bad |-> bad, ino |-> 0]
Fail(s) == [s EXCEPT !.ok = FALSE]
Torn(s) == [s EXCEPT !.ok = FALSE, !.torn = TRUE, !.bad = 0]

\* "if err != nil { return err }".
Then(s, F(_)) == IF s.ok THEN F(s) ELSE s

\* One insertIntoLeaf, updateInLeaf or deleteFromLeaf: s becomes new unless it is the one
\* that fails.  Then the item is as before; what a failure inside a split does is in Cut.
TreeWrite(s, new) ==
    IF s.bad = 1 THEN Torn(s)
    ELSE [new EXCEPT !.bad = IF s.bad = 0 THEN 0 ELSE s.bad - 1]

\* A write whose error the caller ignores.
Unchecked(s) == [s EXCEPT !.ok = TRUE]

PutInode(s, i, r) == TreeWrite(s, [s EXCEPT !.inode[i] = r])
AddEntry(s, d, name, i) == TreeWrite(s, [s EXCEPT !.entries[d] = Append(@, [name |-> name, ino |-> i])])
DeleteEntry(s, d, k) == IF k = 0 THEN Fail(s) ELSE TreeWrite(s, [s EXCEPT !.entries[d] = RemoveAt(@, k)])

\* lookupDirEntryKey and lookupDirEntry: the first entry of that name, 0 if there is none.
Find(s, d, name) == SelectInSeq(s.entries[d], LAMBDA e : e.name = name)
lookupDirEntry(s, d, name) == LET k == Find(s, d, name) IN IF k = 0 THEN 0 ELSE s.entries[d][k].ino

\* The inode that path leads to by the entries, 0 if there is none.
Resolved(s, path) ==
    LET R[k \in 0 .. Len(path)] ==
            IF k = 0 THEN Root ELSE IF R[k - 1] = 0 THEN 0 ELSE lookupDirEntry(s, R[k - 1], path[k])
    IN  R[Len(path)]

\* pathCache.Store.
Store(cache, path, i) == [p \in DOMAIN cache \union {path} |-> IF p = path THEN i ELSE cache[p]]

\* resolvePath: what is found is kept; what is kept is not looked for again.
resolvePath(s, path) ==
    LET i == Resolved(s, path)
    IN  IF path = <<>> THEN [s EXCEPT !.ino = Root]
        ELSE IF path \in DOMAIN s.cache THEN [s EXCEPT !.ino = s.cache[path]]
        ELSE IF i = 0 THEN Fail(s)
        ELSE [s EXCEPT !.ino = i, !.cache = Store(@, path, i)]

\* Forgetting the parent only (faulty).
ForgetFirst(s, paths) == [s EXCEPT !.cache = [p \in DOMAIN @ \ {CHOOSE q \in paths : TRUE} |-> @[p]]]

\* pathCache.Delete of the given paths, at the end of a call that succeeded.
Forget(s, paths) == Then(s, LAMBDA t : [t EXCEPT !.cache = [p \in DOMAIN @ \ paths |-> @[p]]])

\* The next inode number: one above all in use.
NewNumber(s) == Max(Used(s)) + 1

\* insertInodeItem.
insertInodeItem(s, kind) == PutInode(s, NewNumber(s), [kind |-> kind, nlink |-> 1, size |-> 0])

\* The end of createFile and Symlink: the name is only looked up now.
EnterNew(s, d, name, i) == IF lookupDirEntry(s, d, name) # 0 THEN Fail(s) ELSE AddEntry(s, d, name, i)

createFile(s, path, kind) ==
    Then(resolvePath(s, Front(path)), LAMBDA w :
    Then(insertInodeItem(w, kind), LAMBDA n :
        Forget(EnterNew(n, w.ino, Last(path), NewNumber(w)), {Front(path)})))

\* An extent in the item itself.
Inline(words) == [at |-> 0, zip |-> FALSE, words |-> words]

Symlink(s, path, target) ==
    Then(resolvePath(s, Front(path)), LAMBDA w :
        LET i == NewNumber(w) IN
        Then(insertInodeItem(w, "other"), LAMBDA n :
        Then(PutInode(n, i, [n.inode[i] EXCEPT !.size = Len(target)]), LAMBDA z :
        Then(TreeWrite(z, [z EXCEPT !.extents[i] = <<Inline(target)>> \o @]), LAMBDA e :
            Forget(EnterNew(e, w.ino, Last(path), i), {Front(path)})))))

\* Link that enters the name before it counts it (faulty).
LinkEntryFirst(s, old, path) ==
    Then(resolvePath(s, old), LAMBDA t :
    IF t.inode[t.ino].kind = "dir" THEN Fail(t) ELSE
    Then(resolvePath(t, Front(path)), LAMBDA w :
    IF lookupDirEntry(w, w.ino, Last(path)) # 0 THEN Fail(w) ELSE
    Then(AddEntry(w, w.ino, Last(path), t.ino), LAMBDA n :
        Forget(PutInode(n, t.ino, [n.inode[t.ino] EXCEPT !.nlink = @ + 1]), {Front(path), old}))))

Link(s, old, path) ==
    Then(resolvePath(s, old), LAMBDA t :
    IF t.inode[t.ino].kind = "dir" THEN Fail(t) ELSE
    Then(resolvePath(t, Front(path)), LAMBDA w :
    IF lookupDirEntry(w, w.ino, Last(path)) # 0 \/ w.inode[t.ino].kind = "none" THEN Fail(w) ELSE
    Then(PutInode(w, t.ino, [w.inode[t.ino] EXCEPT !.nlink = @ + 1]), LAMBDA n :
        Forget(AddEntry(n, w.ino, Last(path), t.ino), {Front(path), old}))))

\* The extent items of a removed file stay (faulty).
KeepExtents(s, i) == s

\* deleteFromLeaf for each of the extent items of i; errors are ignored.  All have
\* one key, and the last of several goes first.
DeleteExtents(s, i) ==
    LET n == Len(s.extents[i])
    IN  IF s.bad \in 1 .. n THEN Unchecked(Torn([s EXCEPT !.extents[i] = SubSeq(@, 1, 1)]))
        ELSE [s EXCEPT !.extents[i] = <<>>, !.bad = IF @ = 0 THEN 0 ELSE @ - n]

\* One name less for inode i (removeEntry).
DropLink(s, i) ==
    LET r == s.inode[i]
        n == IF r.nlink > 0 THEN r.nlink - 1 ELSE 0
    IN  IF r.kind = "none" THEN s
        ELSE IF n > 0 THEN PutInode(s, i, [r EXCEPT !.nlink = n])
        ELSE Then(PutInode(s, i, NoInode), LAMBDA d : DeleteExtents(d, i))

\* The same for the target of Rename, where no error is looked at.
DropTarget(s, i) ==
    LET r == s.inode[i]
    IN  IF r.kind # "none" /\ r.nlink <= 1 THEN DeleteExtents(Unchecked(PutInode(s, i, NoInode)), i)
        ELSE Unchecked(DropLink(s, i))

\* removeEntry that does not look into the directory (faulty).
RemoveAny(s, path, mustBeDir) ==
    Then(resolvePath(s, Front(path)), LAMBDA w :
        LET k == Find(w, w.ino, Last(path))
            i == lookupDirEntry(w, w.ino, Last(path))
        IN  IF k = 0 THEN Fail(w)
            ELSE IF (w.inode[i].kind = "dir") # mustBeDir THEN Fail(w)
            ELSE Forget(Then(DeleteEntry(w, w.ino, k), LAMBDA d : DropLink(d, i)), {path, Front(path)}))

\* Unlink and, if mustBeDir, Rmdir.
removeEntry(s, path, mustBeDir) ==
    Then(resolvePath(s, Front(path)), LAMBDA w :
        LET k == Find(w, w.ino, Last(path))
            i == lookupDirEntry(w, w.ino, Last(path))
        IN  IF k = 0 THEN Fail(w)
            ELSE IF (w.inode[i].kind = "dir") # mustBeDir \/ (mustBeDir /\ w.entries[i] # <<>>) THEN Fail(w)
            ELSE Forget(Then(DeleteEntry(w, w.ino, k), LAMBDA d : DropLink(d, i)), {path, Front(path)}))

\* Rename: the target goes first, then the old name, then the new name comes.
Rename(s, old, new) ==
    Then(resolvePath(s, Front(old)), LAMBDA po :
    Then(resolvePath(po, Front(new)), LAMBDA pn :
        LET i == lookupDirEntry(pn, po.ino, Last(old))
            k == Find(pn, pn.ino, Last(new))
            gone == IF k = 0 THEN pn
                    ELSE Then(DeleteEntry(pn, pn.ino, k), LAMBDA d :
                            DropTarget(d, lookupDirEntry(pn, pn.ino, Last(new))))
        IN  IF i = 0 THEN Fail(pn)
            ELSE Forget(Then(gone, LAMBDA g :
                        Then(DeleteEntry(g, po.ino, Find(g, po.ino, Last(old))), LAMBDA d :
                            AddEntry(d, pn.ino, Last(new), i))),
                        {old, new, Front(old), Front(new)})))

\* Chmod clears the file type along with the permission bits.  (Chown changes nothing
\* that is modelled.)
Chmod(s, path) ==
    Then(resolvePath(s, path), LAMBDA w :
        IF w.inode[w.ino].kind = "none" THEN Fail(w)
        ELSE PutInode(w, w.ino, [w.inode[w.ino] EXCEPT !.kind = "other"]))

-----------------------------------------------------------------------------
(* File data *)

\* What Write and Truncate take an extent to hold: they do not decompress.
RawWords(x) == IF x.zip THEN [k \in DOMAIN x.words |-> Junk] ELSE x.words

\* The first n words of w, with zeros behind its end.
Resize(w, n) == [k \in 1 .. n |-> IF k <= Len(w) THEN w[k] ELSE Zero]

\* Word k of an extent as readFromExtents finds it: it takes the logical address for the
\* place on the device.  (Write and Truncate go by the chunk, in both directions.)
WordRead(x, k) == IF x.at = 0 \/ Linear THEN x.words[k] ELSE Junk

\* readFile and readFromExtents, of a whole file from its start: items are applied in order,
\* so a later one covers an earlier.
readFile(s, i) ==
    LET xs == s.extents[i]
    IN  [k \in 1 .. Max({0} \union {Len(xs[m].words) : m \in DOMAIN xs}) |->
            WordRead(xs[Max({m \in DOMAIN xs : Len(xs[m].words) >= k})], k)]

\* allocateSpace in the data chunk: what the extent tree or a file names is taken.
FreeBlocks(s) ==
    DataBlocks \ (s.taken \union UNION {{s.extents[i][k].at : k \in DOMAIN s.extents[i]} : i \in Inodes})

\* An extent is allocated, written and registered (an error of that is ignored).
NewExtent(s) ==
    IF FreeBlocks(s) = {} THEN Torn(s)
    ELSE Then(TreeWrite(s, s), LAMBDA w :
            Unchecked(TreeWrite(w, [w EXCEPT !.taken = @ \union {Min(FreeBlocks(s))}])))

\* The item of the extent in block b goes before any that could not be deleted.
AddExtent(s, i, b, words, zip) ==
    TreeWrite(s, [s EXCEPT !.extents[i] = <<[at |-> b, zip |-> zip, words |-> words]>> \o @])

\* The size grows by what was written (faulty).
GrowInodeBy(s, i, n) ==
    IF s.inode[i].kind = "none" THEN s
    ELSE Unchecked(PutInode(s, i, [s.inode[i] EXCEPT !.size = @ + n]))

\* The end of Write: the size of the inode only grows; an error is ignored.
GrowInode(s, i, n) ==
    IF s.inode[i].kind = "none" THEN s
    ELSE Unchecked(PutInode(s, i, [s.inode[i] EXCEPT !.size = Max({@, n})]))

\* Write, from word o on.  What was in the file behind the new words is dropped.
Write(s, path, o, buf, zip) ==
    Then(resolvePath(s, path), LAMBDA w :
        LET i == w.ino
            xs == w.extents[i]
            old == IF xs = <<>> THEN <<>> ELSE RawWords(Last(xs))
            n == o + Len(buf)
            new == [k \in 1 .. n |-> IF k > o THEN buf[k - o] ELSE Resize(old, n)[k]]
            inline == TreeWrite(w, [w EXCEPT !.extents[i] =
                        IF xs = <<>> THEN <<Inline(new)>> ELSE [xs EXCEPT ![Len(xs)] = Inline(new)]])
        IN  Forget(Then(IF n <= InlineMax THEN inline
                        ELSE Then(NewExtent(w), LAMBDA r :
                                AddExtent(DeleteExtents(r, i), i, Min(FreeBlocks(w)), new, zip)), LAMBDA e :
                   GrowInode(e, i, n)), {path}))

\* Truncate: an empty file has no extents to change.
Truncate(s, path, n) ==
    Then(resolvePath(s, path), LAMBDA w :
        LET i == w.ino
            sized == PutInode(w, i, [w.inode[i] EXCEPT !.size = n])
            new(t) == Resize(RawWords(Last(t.extents[i])), n)
            dropLast(r) == Unchecked(TreeWrite(r, [r EXCEPT !.extents[i] = Front(@)]))
        IN  IF w.inode[i].kind = "none" THEN Fail(w)
            ELSE Forget(Then(sized, LAMBDA t :
                IF t.extents[i] = <<>> THEN t
                ELSE IF n = 0
                THEN IF t.bad \in 1 .. Len(t.extents[i])
                     THEN Torn([t EXCEPT !.extents[i] = SubSeq(@, 1, Len(@) - t.bad + 1)])
                     ELSE DeleteExtents(t, i)
                ELSE IF Last(t.extents[i]).at = 0 /\ n <= InlineMax
                THEN TreeWrite(t, [t EXCEPT !.extents[i][Len(t.extents[i])] = Inline(new(t))])
                ELSE Then(NewExtent(t), LAMBDA r :
                        AddExtent(dropLast(r), i, Min(FreeBlocks(t)), new(t), FALSE))), {path}))

-----------------------------------------------------------------------------
(* The actions *)

\* Bound: one failing write in a behaviour.
Faults == {0} \union IF failed THEN {} ELSE Faulty

\* A write failed inside a leaf split: between its writes the upper half of the leaf is
\* nowhere, and a node whose registration failed is given out again.  The items behind
\* the inode item of i are lost, up to the last of j.
Cut(s) == \E i, j \in Inodes :
    /\ i <= j /\ Faults # {0}
    /\ inode' = [k \in Inodes |-> IF k \in i + 1 .. j THEN NoInode ELSE s.inode[k]]
    /\ entries' = [k \in Inodes |-> IF k \in i .. j THEN <<>> ELSE s.entries[k]]
    /\ extents' = [k \in Inodes |-> IF k \in i .. j THEN <<>> ELSE s.extents[k]]
    /\ failed' = TRUE /\ lost' = TRUE

\* The operation with result s is over; items and cache stay as they are, error or not.
Finish(s) ==
    /\ taken' = s.taken /\ pathCache' = s.cache /\ listed' = listed
    /\ \/ /\ inode' = s.inode /\ entries' = s.entries /\ extents' = s.extents
          /\ failed' = (failed \/ s.torn) /\ lost' = lost
       \/ Cut(s)

\* A new inode holds words; the file that path names by its entries holds F of what it held.
\* After a failed write nothing is noted any more.
Nothing == [i \in Inodes |-> <<>>]
Holds(i, words) == content' = IF failed' THEN Nothing ELSE [content EXCEPT ![i] = words]
Changed(ok, path, F(_)) ==
    LET i == Resolved(Start(0), path)
    IN  content' = IF failed' THEN Nothing
                   ELSE IF ok THEN [content EXCEPT ![i] = F(@)] ELSE content
Kept == content' = IF failed' THEN Nothing ELSE content

\* What Getattr, which the Windows side asks first, says a path is.
Kind(path) == LET w == resolvePath(Start(0), path) IN IF w.ok THEN inode[w.ino].kind ELSE "none"
InDirectory(path) == path # <<>> /\ Kind(Front(path)) = "dir"
New == NewNumber(Start(0))

Create == \E p \in Paths, bad \in Faults :
    /\ InDirectory(p) /\ New \in Inodes
    /\ Finish(createFile(Start(bad), p, "other"))
    /\ Holds(New, <<>>)

Mkdir == \E p \in Paths, bad \in Faults :
    /\ InDirectory(p) /\ New \in Inodes
    /\ Finish(createFile(Start(bad), p, "dir"))
    /\ Holds(New, <<>>)

DoSymlink == \E p \in Paths, w \in Words, bad \in Faults :
    /\ InDirectory(p) /\ New \in Inodes
    /\ Finish(Symlink(Start(bad), p, <<w>>))
    /\ Holds(New, <<w>>)

DoLink == \E q, p \in Paths, bad \in Faults :
    /\ Kind(q) # "none" /\ InDirectory(p)
    /\ \A i \in Inodes : Link(Start(bad), q, p).inode[i].nlink <= MaxLinks
    /\ Finish(Link(Start(bad), q, p))
    /\ Kept

Unlink == \E p \in Paths, bad \in Faults :
    InDirectory(p) /\ Finish(removeEntry(Start(bad), p, FALSE)) /\ Kept

Rmdir == \E p \in Paths, bad \in Faults :
    InDirectory(p) /\ Finish(removeEntry(Start(bad), p, TRUE)) /\ Kept

\* The Windows side refuses to replace a directory and to move one below itself; a
\* path is not renamed to itself.
DoRename == \E p, q \in Paths, bad \in Faults :
    /\ InDirectory(p) /\ InDirectory(q)
    /\ Kind(q) # "dir" /\ ~IsPrefix(p, q)
    /\ "rename" \in Beyond \/ Kind(p) # "dir"
    /\ Finish(Rename(Start(bad), p, q))
    /\ Kept

DoChmod == \E p \in Paths, bad \in Faults :
    /\ "chmod" \in Beyond \/ Kind(p) # "dir"
    /\ Finish(Chmod(Start(bad), p))
    /\ Kept

\* The file a path leads the driver to.
At(p) == resolvePath(Start(0), p).ino
IsFile(p) == Kind(p) = "other"
Length(p) == Len(readFile(Start(0), At(p)))
Zipped(p) == LET xs == extents[At(p)] IN xs # <<>> /\ Last(xs).zip

\* Handled: a write that reaches the end of the file, of all of it if it is compressed.
DoWrite == \E p \in Paths, o \in 0 .. MaxSize - 1, n \in 1 .. MaxSize, w \in Words, zip \in BOOLEAN, bad \in Faults :
    /\ IsFile(p) /\ o + n <= MaxSize /\ (zip => o + n > InlineMax)
    /\ "write" \in Beyond \/ (o + n >= Length(p) /\ (Zipped(p) => o = 0))
    /\ LET s == Write(Start(bad), p, o, [k \in 1 .. n |-> w], zip)
       IN  Finish(s) /\ Changed(s.ok, p, LAMBDA old :
                [k \in 1 .. Max({Len(old), o + n}) |-> IF k \in o + 1 .. o + n THEN w ELSE Resize(old, o + n)[k]])

\* Handled: making a file shorter, and longer if it is not empty; not if it is compressed.
DoTruncate == \E p \in Paths, n \in 0 .. MaxSize, bad \in Faults :
    /\ IsFile(p)
    /\ "write" \in Beyond \/ n = 0 \/ (~Zipped(p) /\ Length(p) > 0)
    /\ LET s == Truncate(Start(bad), p, n)
       IN  Finish(s) /\ Changed(s.ok, p, LAMBDA old : Resize(old, n))

\* Getattr, Readdir, Readlink, Open and Read resolve the path.
Getattr == \E p \in Paths :
    pathCache' = resolvePath(Start(0), p).cache
    /\ UNCHANGED <<inode, entries, extents, taken, listed, failed, lost, content>>

\* The listing of the root asks for the attributes of "/" + "/" + name, of every name in it.
\* No operation forgets such a path, and none but the next listing asks for it.
ListRoot ==
    /\ listed' = [n \in DOMAIN listed \union {entries[Root][k].name : k \in DOMAIN entries[Root]} |->
                    IF n \in DOMAIN listed THEN listed[n] ELSE lookupDirEntry(Start(0), Root, n)]
    /\ UNCHANGED <<inode, entries, extents, taken, pathCache, failed, lost, content>>

\* A new start of the driver, before which no root has been split (BtrfsTree is about those).
Mount ==
    /\ pathCache' = <<>> /\ listed' = <<>>
    /\ UNCHANGED <<inode, entries, extents, taken, failed, lost, content>>

Operation ==
    \/ Create \/ Mkdir \/ DoSymlink \/ DoLink \/ Unlink \/ Rmdir \/ DoRename
    \/ DoChmod \/ DoWrite \/ DoTruncate \/ Getattr \/ ListRoot

\* Bound: a volume that has lost items is mounted, but not worked with any more.
Next == (~lost /\ Operation) \/ Mount

Spec == Init /\ [][Next]_vars

-----------------------------------------------------------------------------
(* Properties *)

\* The names of inode i, each with its directory.
NamesOf(i) ==
    {x \in Inodes \X Names : \E k \in DOMAIN entries[x[1]] : entries[x[1]][k] = [name |-> x[2], ino |-> i]}

\* The type invariant.
TypeOK ==
    /\ inode \in [Inodes -> [kind : {"none", "dir", "other"}, nlink : 0 .. MaxLinks, size : 0 .. MaxSize]]
    /\ \A d \in Inodes : entries[d] \in Seq([name : Names, ino : Inodes])
    /\ \A i \in Inodes : \A k \in DOMAIN extents[i] : extents[i][k].at \in DataBlocks \union {0}
    /\ taken \subseteq DataBlocks
    /\ DOMAIN pathCache \subseteq Paths /\ DOMAIN listed \subseteq Names

\* Whichever write of an operation fails, if it does not cut a leaf split short, no entry is left that leads to no inode,
\* no directory has a name twice, and no inode has more names than its link count
\* says; without failures it has as many, or none (Create and Symlink leave an inode
\* behind when the name exists).
NamesSound == lost \/
    /\ \A d \in Inodes : \A j, k \in DOMAIN entries[d] :
            /\ inode[entries[d][j].ino].kind # "none"
            /\ entries[d][j].name = entries[d][k].name => j = k
    /\ \A i \in Inodes :
            /\ Cardinality(NamesOf(i)) <= inode[i].nlink
            /\ failed \/ Cardinality(NamesOf(i)) \in {0, inode[i].nlink}

\* A path that is cached as callers write it, with single slashes, leads to the inode that
\* its entries lead to until a write fails, though inode numbers are used again and Link,
\* Unlink and Rename forget only the paths they were called with.  (Of the keys "//name"
\* this is not true: nothing forgets them.)
PathCacheCurrent ==
    ~failed => \A p \in DOMAIN pathCache : Resolved(Start(0), p) = pathCache[p]

\* No two files share an extent, also after failed writes and registrations that took no
\* items with them; without failures, on a volume whose data chunk lies at its logical
\* address, a file reads back as callers left it, whatever was in an earlier file with its
\* inode number, and whether it is kept inline, in an extent or compressed.
DataIntact ==
    /\ lost \/ \A i, j \in Inodes : \A k \in DOMAIN extents[i], m \in DOMAIN extents[j] :
            extents[i][k].at = extents[j][m].at /\ extents[i][k].at # 0 => i = j
    /\ ~failed => \A i \in Inodes : NamesOf(i) # {} /\ inode[i].kind # "dir" =>
            /\ Linear => readFile(Start(0), i) = content[i]
            /\ inode[i].size = Len(content[i])

\* The names of every directory, as a map.
Held == [d \in Inodes |->
            [n \in {entries[d][k].name : k \in DOMAIN entries[d]} |-> lookupDirEntry(Start(0), d, n)]]

Maps == INSTANCE NameMaps WITH names <- Held

\* An operation none of whose writes failed changes the names as one step of NameMaps
\* does, or not at all; resolving paths in a cache does not show.
ImplementsNameMaps == Maps!Init /\ [][failed' \/ Maps!Next]_Held
=============================================================================

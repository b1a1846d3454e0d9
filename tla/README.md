# Werunos in TLA+

Werunos mounts ext4 and btrfs partitions on Windows. This directory holds TLA+
models of its core, TLC configurations that check them on small instances, and
TLAPS proofs of the results that matter most. Everything is translated from the
Go source; line numbers below are those of the repository.

`PROJECT.json` lists components, runs, hazards, theorems and, for every
definition, the lines it stands for.

To repeat a run: `tlc -config SafeDevice_seq.cfg MCSafeDevice`. To check the
proofs: `tlapm SafeDevice_proofs.tla`.

## 1. The system

A request travels down this stack. Each FUSE callback runs on a thread of its
own. The ext4 driver holds no lock around an operation; the btrfs driver holds
`b.mu` for all of it.

    WinFsp / cgofuse            threads, one per request
    host.OrionFS                host/bridge.go, host/handles.go
    ext4.FileSystem | btrfs     ext4/fs.go (e.mu, e.files, e.dirs), btrfs/fs.go
    vfs.FileSystem              vfs/*.go (fs.dev, fs.sb, fs.Bgds, dirCache)
    TxDevice                    vfs/journal_writer.go (only inside an operation)
    SafeDevice                  vfs/redolog.go (log file, block cache)
    PartitionReader             block/device.go
    AlignedReaderAt             block/aligned.go
    the disk

| component | state | operations | shared with |
|---|---|---|---|
| undo log and block cache, `vfs/redolog.go` | log file and its position, one header buffer, list of at most 64 cached blocks | `NewSafeDevice`, `ReadAt`, `WriteAt`, `Close` | all threads; the cache has a mutex, the log has none |
| transactions and JBD2 writer, `vfs/journal_writer.go` | `fs.dev`, `fs.txMu`, `Tx.dirty`, journal superblock and blocks | `BeginTransaction`, `TxDevice.ReadAt/WriteAt`, `CommitTransaction`, `RollbackTransaction` | all operations use the one `fs.dev` |
| allocator, `vfs/allocate.go`, `vfs/reclaim.go` | bitmaps on the device, `fs.Bgds` and `fs.sb` in memory and on the device | `AllocateBlock/Inode`, `FreeBlock/Inode` | every operation that makes or removes something |
| fsck, `vfs/health.go` | none of its own | six phases, two of which repair counts | runs on an unmounted device |
| directories, `vfs/dirent.go`, `vfs/directory.go` | directory blocks, `dirCache` keyed by `I_block` | `AddDirEntry`, `RemoveDirEntry`, `ReadDirCached`, `Lookup` | path operations |
| ext4 path operations, `ext4/fs.go` | `e.dirs`, listings by path | `Create`, `Symlink`, `Mkdir`, `Link`, `Unlink`, `Rmdir`, `Rename`, `Getattr`, `Readdir` | everything below |
| file data, `ext4/fs.go`, `vfs/extents.go`, `vfs/writer.go`, `vfs/reader.go` | extent trees, `e.files`: extents and size by path | `Open`, `Read`, `Write`, `Truncate`, `Release` | allocator, transactions |
| JBD2 replay, `vfs/jbd2.go` | the journal | `Recover` (no caller) | |
| extended attributes, `vfs/xattr.go`, `ext4/fs.go` | inode tail and one block | get, set, list, remove | allocator, transactions |
| btrfs trees, `btrfs/writer.go`, `btrfs/tree.go` | nodes on the device, roots of the file system tree and the extent tree in memory | `insertIntoLeaf`, `deleteFromLeaf`, `updateInLeaf`, `allocateSpace`, `registerExtent`, `walkTree` | `SafeDevice` |
| btrfs operations, `btrfs/fs.go` | items of the file system tree, `pathCache` | the same path and data operations as ext4, without transactions | btrfs trees |
| partitions and alignment, `block/*.go` | bounds of a partition | `ReadAt`, `WriteAt`, table parsing | |
| bridge and handles, `host/*.go` | table of file handles | one handler per FUSE call | |

What is hard to test here: what a crash leaves behind in the middle of a write,
a commit or a recovery; two threads in one transaction or in the block cache;
caches that outlive the transaction they were filled through; operations that
fail half-way; record and extent arithmetic over a long series of calls. The
hazards in `PROJECT.json` name the lines.

What makes each part correct, in short:

* undo log: after a crash the next mount gives the device before the
  interrupted write; a cache hit is what the device holds;
* transactions: an operation is on the device or it is not, as its result says,
  and journal records precede writes in place;
* allocator: no number is handed out twice; counts agree with bitmaps (neither
  survives a write back that is cut short);
* directories and paths: names form a map per directory and every operation
  changes it at once; link counts are the numbers of names; caches are current;
* file data: what was written is read, blocks belong to one file, cut blocks are
  given back, open files follow their file;
* attributes: a file has those that were set, wherever they are kept, and an
  attribute block has one owner;
* btrfs trees: a map of items, found by key and met in the order of keys, whose
  nodes have one place each;
* btrfs operations: as for ext4, and whatever write of an operation fails, but for
  one inside the split of a leaf, entries lead to inodes and link counts are not too
  low; a cached path is the path's inode.

## 2. The modules

| module | models | extends |
|---|---|---|
| `BlockCache` | the list of cached blocks: `lookupCache`, `updateCache` | |
| `SafeDevice` | `vfs/redolog.go` | `BlockCache` |
| `TxJournal` | `vfs/journal_writer.go` | |
| `FreeSpace` | allocator and the repair of counts | |
| `DirBlock` | records of one directory block, as pure operators | |
| `NameMaps` | abstract: what path operations promise | |
| `Namespace` | ext4 path operations with both directory caches; implements `NameMaps` | `DirBlock` |
| `FileData` | extent trees, reading, writing, cutting, open files | |
| `Xattr` | extended attributes in inode tail and block | |
| `ItemMap` | abstract: what a btrfs tree promises | |
| `BtrfsTree` | `btrfs/writer.go`: trees, splits, allocation; implements `ItemMap` | |
| `BtrfsFS` | `btrfs/fs.go`: path operations and file data over the items; implements `NameMaps` | |
| `Minimum`, `BlockCache_proofs`, `SafeDevice_proofs`, `TxJournal_proofs`, `FreeSpace_proofs`, `Xattr_proofs`, `FileData_proofs`, `BtrfsFS_proofs` | lemmas and theorems | |
| `MCSafeDevice`, `MCTxJournal`, `MCFreeSpace`, `MCNamespace`, `MCFileData`, `MCXattr`, `MCBtrfsTree`, `MCBtrfsFS` | instances for TLC | |

The interleavings are where the code has them and where they matter: in
`SafeDevice` a call is a sequence of steps of its thread, cut at each lock,
log write and device word; in `TxJournal` an operation is cut at each write and
each step of a commit. `FreeSpace`, `Namespace`, `FileData` and `Xattr` run one operation
at a time, with the ways in which it can fail. In btrfs operations do run one at
a time (`b.mu`), so each is one step.

The abstract specifications come in by `INSTANCE ... WITH`: `NameMaps` with the
names that a user sees, which `Namespace` keeps as history and `BtrfsFS` computes
from its entries (`Held`); `ItemMap` with the items that a walk of the tree meets. What
`BtrfsTree` is shown to implement is what `BtrfsFS` is built on.

### BlockCache and SafeDevice

The unit is the 4-byte word. The device is a function of addresses, a request a
set of addresses, a buffer a function on a request. The log file is kept word by
word, because reader and writer disagree about it: `removeLastEntry` truncates
the file but does not move the position, so the next entry is written behind a
hole of zeros, and `readPending` parses from the start.

`op[t].pc` is the next step of the call thread `t` is in. `WriteAt` is
`WriteHit`/`WriteMiss`, `PreRead`, `PreFill`, the four steps of `appendEntry`
(offset and length into the shared header buffer, header, data), `Sync`, the
device write one word at a time, `PostFill` and `Remove`. Every read, write, log
append and mount step has a failing twin, enabled by `Faults`. `Crash` is
possible in every state. `pre`, `base`, `goal` and `seen` are history.

Requests lie inside the device and, in the instances, are nested or disjoint, as
the ext4 driver's are: whole blocks, and inodes, descriptors or the superblock
within one block. (`PartitionReader` refuses an offset at or past the end and cuts a
request that crosses it.)

### TxJournal

A block is two words: the place of the JBD2 magic number, and the rest. An
operation is `Begin`, some `DoWrite`, then `Commit...` or `Rollback`. A commit is
`descriptor`, data blocks in the order of Go's map iteration (any order),
`commit` block, journal superblock, then the writes in place, each a step, each
may fail, and a crash may come between any two. With `JournalKinds` "other" the
journal is missing or its magic is not recognised and a commit writes in place
at once. (That is the common case: JBD2 is big-endian and the code decodes its
superblock as little-endian, so journals made by Linux are not recognised and
`journal_writer.go:184` takes the direct way.)

A crash during the write back has the outcome "torn", any other "crash".
`FairSpec` adds weak fairness for the steps of each thread: a goroutine that can
run is run, and a Go mutex that is released again and again is eventually had by
everyone who waits for it (it hands over after a millisecond of starvation). A
new operation need not begin, so fairness does not force one.

`fs.dev` is a Go interface value that is read and written without a lock. The
model reads and writes it at once; a torn read of its two words is not modelled.

### FreeSpace

Blocks and inodes (`Kinds`) are handled alike, as in the code: bitmap, group
count, total. `view` is the device through the transaction, `disk` the device,
`mem` `fs.Bgds` and `fs.sb`. `Rollback` restores `view` but not `mem`; `Unmount`
writes `mem` (`Destroy`). `AllocateFails`, `FreeLeaks` and `FreeUncounted` are the
calls that stop half-way on a device error: between bitmap and descriptor, or
between descriptor and superblock. A write back writes bitmaps, descriptors and
superblock one by one: `CommitTorn` and `CrashInCommit` leave any of these `Pieces` new and
the others old (`Mixed`), and of the inodes and extents that were to be changed any
choice, so `ownedDisk` too becomes a mixture; `torn` remembers that. What is released
afterwards may already be free (`FreeRefused`). A bitmap block holds `PerGroup`
bits, all of them blocks or inodes of the group. `FsckFix` is the repair of an unmounted
device as the code computes it.

Not in the model: padding bits of a bitmap behind the last block of a group and
`BLOCK_UNINIT` groups (the search runs over the whole block, `allocate.go:35`), and the 16-bit width of group counts.

### DirBlock, Namespace, NameMaps

A directory block is a sequence of records (inode, length, name); lengths are in
words. `Split`, `Drop` and `writeDirBlock` are the edits of `AddDirEntry` and
`RemoveDirEntry`. Each operation of `ext4/fs.go` is an operator from a result to
a result (status, view of the device, `dirCache`, last inode copy), composed with
`Then`, Go's `if err != nil { return err }`. Inode copies are kept apart
from inodes, so a copy that is written back late overwrites what happened in
between, as in `Rename`, which has two copies of what may be one parent.
`Finish` is the deferred commit or rollback; the caches are outside of both. A commit
that fails has written nothing in place here; one that is torn is in `TxJournal`
and `FreeSpace`, and its effect on names, file data and attributes is not modelled.

`walk` follows symbolic links as `ResolvePath` does, the last component included, up to
`MaxSymlinks` of them. A link's `target` is one of `Targets`, a path from the root: the
code resolves relative targets from there too. So the path of a link
leads to its target, and only operations that take the last name from the parent directory
(`Unlink`, `Rename`) touch the link itself; a hard link to it cannot be made. `Listed` are the paths that `Readdir` is asked for.

Two history variables mark what no property can follow: `undone`, that a `Rename` was
rolled back after it had taken its entry out (`dirCache` then holds the directory
without that entry), and `aliased`, that an operation reached its directory
through a symbolic link, so that it dropped the listing of another path.

`NameMaps` is what a user is promised: a map from names to inodes per directory
that each operation changes in one step. `Namespace` implements it
(`ImplementsNameMaps`) while a block stays free (`Spare = 1`), so that
`AddDirEntry` finds one whenever `Rename` needs it.

A rename of a directory below itself is left out: the kernel side of the mount
refuses it before the driver sees it.

### FileData

A file has a size and an `I_block` with depth, count and entries; blocks hold
words or extents. `AppendExtent` joins, adds, moves the root's extents to a leaf,
or splits a leaf. The branches of `insertIdxIntoParent` that split an index node
or deepen the tree are never reached: its "parent" is the leaf that has just
been halved, so there is always room.

`Write` has three outcomes: committed; committed in memory only (the commit
fails after `e.files` was refreshed); and a panic. A write that starts inside a
block computes `blockStart - start` on unsigned numbers (`writer.go:73`) and
panics; the deferred function finds no error and commits what was done so far,
without the inode. cgofuse recovers and the mount goes on.

`content` is what each file should hold, `seen` what each open path is entitled
to: everything after `Open` or its own `Write`, the start of the file after
growth by others, nothing after a cut or a failed commit.

Uninitialized extents (made by fallocate on Linux) and trees made elsewhere that
are deeper than one level are not modelled; files start empty. `Grow` is one
`WriteFileAt` of zeros where `Truncate` makes one for every 4096 bytes
(`ext4/fs.go:592-606`). In the instance each file has one path, so it grows by another
name only through `Truncate`; the theorem `HandlesFollowCorrect` is about any number
of paths.

### Xattr

Words of 4 bytes: entries from the start of the table, values from its end, a word
of zeros behind the entries. The tail of an inode is `<<>>` without the magic
number. `SetXAttr` is three actions: `ToTail`, `ToNothing`, `ToBlock`. A call that
fails is rolled back, so only successful calls are steps. `ListXAttrs` reads the
tail and then the block over it, the block's values from its start though they
were counted from behind the header; `moved` remembers which attributes that
concerns. `InitNewInode` leaves the tail as it was, and clears what says that there is one.

Files start without an attribute block. One that Linux has made and several inodes share
(its header has a reference count) is overwritten by `xattr.go:376` and freed by
`xattr.go:339` without a look at the count; that is outside of the model. `Table`
has only the breaks of the loop in `ListXAttrs` that tables written by this code reach; those for
lengths that exceed the table (`xattr.go:112-131`) are not among them.

### ItemMap, BtrfsTree

A node is a level and a sequence of entries; an entry of a leaf is a key and a
size, of an index node a key and an address. `insertIntoLeaf` calls `SplitNode`,
that calls `registerExtent`, which is an `insertIntoLeaf` in the extent tree, and
then `insertPtrIntoParent` with the path as it was found before the split. The
roots `fs` and `ext` are in memory; `Mount` takes them from the root tree
(`findFSTreeRoot`), which the driver never writes. A block that was never a node
is taken to hold zeros (`writeItemsToLeaf` keeps the header it finds, level
included). `Mount` presumes that there is an extent root: without one
`registerExtent` does nothing (`writer.go:671`).

### BtrfsFS

Items are kept as functions of the inode number. An operation is an operator from
a result to a result, as in `Namespace`; each tree write is a `TreeWrite`, and one of
them may fail (`bad` counts down to it). There is no rollback: `Finish` keeps what
was done. A write that fails leaves its item as it was, or, when the leaf was being
split, takes other items with it: a split writes the left half before the right half
and both before the index key, and ignores errors of `registerExtent`, after which a
node in use is given out again. `Cut` is any such loss: the items behind the
inode item of one inode, up to the last of another. `lost` remembers it; a volume with losses
is only mounted again, nothing is claimed of it. A write of file data takes an extent, writes it, registers it, removes
the old items and enters the new one. `Beyond` switches on calls that the driver
does not handle (section 5).

`Write` and `Truncate` place an extent at its chunk's physical address and read it from there;
`readFromExtents` takes the logical address for the place on the device. With
`Linear` the two are the same, without it `WordRead` yields junk. `readFile` is a
read of the whole file from its start.

`pathCache` is keyed by the string of the path. The bridge asks for `"//name"` when it
lists the root: `ListRoot` fills that part of the cache, `listed`, which nothing but
`Mount` empties and nothing but the next listing reads. All other callers write one slash
before each name, so there the keys are sequences of names.

`Mount` here keeps every item: it presumes that no root has been split since the last
one. What happens otherwise is `BtrfsTree_mount`.

## 3. The runs

Deadlock is checked in every run. Liveness is stated where something waits: the
two mutexes of a transaction (`OperationsEnd`, under `FairSpec`, see TxJournal above).
Everything else in the modelled code runs to its end without waiting.

| run | instance | shows |
|---|---|---|
| `SafeDevice_seq` | 1 thread, 3 words, 3 nested requests, 2 cache slots, log of up to 14 words | cached blocks shadow narrower, older ones (`WiderFirst`); a hit is what the device holds (`CacheServesDevice`); a crash at any step of a write is undone if the entry starts on a header boundary (`AlignedUndo`); an interrupted recovery can be repeated (`RecoveryIdempotent`) |
| `SafeDevice_mt` | 2 threads, 2 words, 2 requests, all faults | what survives threads without a lock on the log: the cache holds only what the device had (`CacheNeverInvents`) |
| `TxJournal_seq` | 1 thread, 3 blocks, 2 transactions of 3 writes, journal of 6 blocks, with and without journal, failing writes; blocks are interchangeable (`SYMMETRY`) | `ReadsOwnWrites`, `SuccessIsOnDevice`, `FailureLeavesDevice` (failing writes and crashes) |
| `TxJournal_mt` | 2 threads with a block each, journal of 8, failing writes, crashes, fair threads | `WriteAhead` when operations join and end each other's transactions; every operation ends (`OperationsEnd`) |
| `FreeSpace_all` | 2 groups of 2, 2 calls per operation, 1 failure (a torn commit is one), device errors, crashes, fsck | no number twice until a write back is torn (`NothingLostOrShared`); counts exact until something fails (`CountsExact`) |
| `Namespace_tree` | 3 inodes, 5 blocks of 9 words, 2 names, paths of 2 names, a block always free | `EntriesSound`, `FileLinksExact`, `DirCacheCurrent`, `ImplementsNameMaps` |
| `Namespace_flat` | 3 inodes, 3 blocks, 2 names, symbolic links to the root and paths through them, device errors and failing commits, listings of the root; not followed beyond a `Rename` undone half-way (`CONSTRAINT NotUndone`) | `BlocksIntact`, `DirCacheCurrent` and `ListingHasNoGhosts` on a full and failing device |
| `FileData_append` | 2 files of 3 and 1 blocks, 2 extents in `I_block`, extents of at most 2 blocks, 1 cut, failing commits, unaligned writes | `DataIntact`, `BlocksOwned`, `DataReclaimed`, `HandlesFollow` |
| `BtrfsTree_split` | 6 keys, items of 3 or 4 units in leaves of 10, 3 pointers in an index node, 9 metadata blocks, an extent tree of one leaf | the trees are sound (`TypeOK`, `NodesOwned`), items are found (`ItemsFound`), and the tree is an `ItemMap` (`ImplementsItemMap`) |
| `BtrfsTree_mount` | the same, with a mount after a split | **violated**: README.md:61 "transactionally commits updated roots directly to the superblock" |
| `BtrfsFS_ops` | 3 inodes, 2 names, paths of 2 names, files of up to 2 words of which 1 is kept inline, 2 places for extents at their logical address (`Linear`), the second or fourth tree write of one operation may fail, or lose items; names are interchangeable (`SYMMETRY`), and listings of the root are left out (`CONSTRAINT NotListed`: only they read what they cache) | `NamesSound`, `PathCacheCurrent`, `DataIntact`, `ImplementsNameMaps` |
| `Xattr_move` | 2 inodes, one with a tail, 2 names, values of 1 or 2 words, tail of 13 words, block of 22, 2 blocks | `AttrsListed`, `AclBlocksOwned` |

Why these bounds are enough to be of interest:

* `SafeDevice`: two slots make the cache evict; a block, a structure in it and a
  neighbour give every relation nested requests can have; 14 words of log hold three
  entries, so aligned and unaligned holes both occur.
* `TxJournal`: three blocks exceed `MaxTags`, so the panic for too many tags
  happens; the second transaction runs into the end of the journal; the words
  include the magic number, so escaping happens.
* `FreeSpace`: two groups make numbers cross a group boundary and one group
  become full; one failure is enough to put `mem` off the device, and the calls
  after it run on wrong counts.
* `Namespace`: in a block of 9 words the names "a" (3 words) and "b" (4 words)
  split a record, leave slack, join a freed one and overflow into a second block; a block
  that one directory gave up is used by the next.
* `FileData`: the third extent moves the root into a leaf; three blocks exceed
  the longest extent; a cut keeps whole extents, part of one, or more than
  `I_block` can hold.
* `BtrfsTree`: a leaf holds two or three items, so six keys split leaves, fill the
  root's three pointers, split it and make a tree of three levels; deletions
  empty leaves and leave index keys that no item has any more.
* `BtrfsFS`: the root, a directory and a file, or two files; two links; a file
  goes from inline to an extent and back, and the second extent is the last. The
  second write of an operation is the entry of `Create` and `Link`, the inode
  of `Unlink`, the new entry of `Rename` (or, with a target, its inode), and the
  registration of a data extent; the fourth the entry of `Symlink`, the new entry of a
  `Rename` with a target, and the new item of a file that had an extent.
* `Xattr`: both names fit in the tail with two words of values but not with three
  or more; in the block with three but not with four.

The scope of the weaker-looking statements is deliberate. `AlignedUndo` has a
premise because without it the statement is false.
`CacheServesDevice` is for one thread, `CountsExact` stops at the first failure,
`HandlesFollow` at a cut, `NothingLostOrShared` at a torn write back, `BlocksIntact` and
`DirCacheCurrent` at a `Rename` undone half-way, `ListingHasNoGhosts` at an operation through a
symbolic link, `NamesSound` where a split loses items, `DataIntact` of btrfs needs
`Linear`, `FileData_append` has no holes, `BtrfsTree_split` has
an extent tree of one leaf, and `BtrfsFS_ops` only the calls that are handled, because the code
does not do better; section 5 says what happens there.

## 4. The proofs

Every theorem is about all values of the constants that satisfy the named
assumptions of its module, and rests on nothing else.

`SafeDevice_proofs` (on `BlockCache_proofs`):

* `TypeCorrect`, `ShapeCorrect`: each step of each call holds what it needs, log and
  buffers hold words of their width, and the cache never exceeds its slots.
* `WiderFirstCorrect`: no cached block ever lies inside one behind it.
* `CacheServesCorrect`: with one thread, requests that are nested or disjoint
  (`Laminar`) and no failing device write, a hit is what the device holds.
* `CacheNeverInventsCorrect`: with any threads and faults the cache holds only
  words the device had at that address since the mount.
* `RecoveryIdempotentCorrect`: with any threads and faults, a write back of the log
  that is interrupted and started over ends with the same device.
* `AlignedUndoCorrect`: with one thread, `Laminar` and no failing device write or
  log append, a crash in a write whose entry starts on a header boundary is undone.

`TxJournal_proofs`:

* `TypeCorrect`, `WriteAheadCorrect`: for any threads that join and end each other's
  transactions, with failing writes and crashes.
* `ReadsOwnWritesCorrect`, `SuccessCorrect`, `FailureCorrect`: with `OneThread`. Two
  threads share one transaction, and each commits or discards what the other wrote
  (section 5), so none of the three holds with more.

`FreeSpace_proofs`:

* `TypeCorrect`, `SpaceCorrect`: until a write back is cut short, no number is handed out
  twice, through failed operations, device errors inside a call, crashes at any other point
  and `fsck --fix`.
* `CountsCorrect`: while nothing has failed, a torn write back included, bitmaps, group
  counts and totals agree.

`Xattr_proofs`:

* `TypeCorrect`, `AclBlocksCorrect`: an attribute block has one owner.
* `AttrsCorrect`: a file has exactly the attributes that were set and not removed.

`FileData_proofs`, for any number of files of at most `LeafMax` blocks (`NoSplit`):

* `TypeCorrect`: `I_block` and leaves never hold more than fits.
* `BlocksOwnedCorrect`: no block is in two files, twice in one, or data and node at
  once; through failing commits, panics, cuts, and writes that leave holes.
* `DataReclaimedCorrect`: without holes (`~Sparse`), a block in use is a file's or a node.
* `DataIntactCorrect`: without holes, a file reads back word by word as it was written,
  grown and cut.
* `HandlesFollowCorrect`: without holes, an open path reads its file, or a start of it,
  until the file is cut or a commit fails.

  A file of at most as many blocks as a leaf has entries never splits a leaf. Where
  one does, the first two theorems are false, because the leaf is taken for its own
  parent (section 5: three calls of `Grow` lead there in the instance named there).
  `DataReclaimed` is false with holes: a write that starts inside a block nobody
  has written before panics after it took the block. `DataIntact` is false with
  holes too, because `ReadFileAt` ignores `EE_block`; for `HandlesFollow` nothing is
  claimed there.

`BtrfsFS_proofs`:

* `TypeCorrect`: for any calls, also those the driver does not handle.
* `NamesSoundCorrect`: wherever an operation stops, but for a loss of items in a split,
  entries lead to inodes, names are unique and link counts not too low.
* `PathCacheCurrentCorrect`: until a write fails, a path cached as callers write it, with
  single slashes, is the path's inode. Of the keys `"//name"` nothing is claimed.
* `NameMapsCorrect`: operations none of whose writes failed implement `NameMaps`.
* `ExtentsApartCorrect`: no two files name one extent, for any calls and failures that lose
  no items.
* `DataIntactCorrect`: until a write fails, a file reads back as callers left it if the data
  chunk lies at its logical address, and has the right size in any case; no two files share
  an extent, also after a failure that lost no items.

  The second, third, fourth and last assume `Handled`: directories are not renamed and not
  given to `Chmod`; `NamesSound` and `PathCacheCurrent` are false with these calls
  (section 5). The last assumes also `"write" \notin Beyond`: a write reaches the
  end of the file, and of a compressed file it is of all of it; a truncation keeps nothing, or something of a file that is
  neither empty nor compressed.

The inductive invariants, and why they are needed:

* `ListInv` is `ShapeOK /\ WiderFirst`. `WiderFirst` alone is not inductive:
  what `updateCache` does depends on which requests are cached. Either a cached
  block covers the request, is patched and moved to the front (which keeps the
  order, because in an ordered list the first block that covers it is the widest), or
  none does and the request becomes the first block.
* A hit is right although the list has stale blocks, and the reason is
  `CacheInv`: each block agrees with the device or lies inside one in front of
  it, but for the words of the write in progress; and what a call has read, or
  written so far, is still true. With nested requests a stale block that meets a
  request is found inside a wider, fresh one. A failing write breaks this (the
  device has changed and the cache has not), hence `"write" \notin Faults`.
* `SeenInv` adds to `CacheNeverInvents` that the device itself and the
  buffers on their way into the cache hold only such words.
* `RecoveryInv`: the entries still pending lead to the same device as all of them
  from the start. Undoing an entry twice, with any others in between that come
  after it, is undoing it once (`UndoAgain`), and an entry outside the device stops
  both runs at the same place (`UndoRefused`).
* `UndoInv` says of each step of a write what is already in the log: nothing, an
  entry's header, the entry; and that everything before it is already undone by the
  device as it is. A header of zeros, which is what the file shows when only the end
  of it was reached, reads as an empty entry (`ZeroSkip`).
* `JournalInv` says for each step of a commit how much of descriptor, data
  and commit block is in the journal, and who holds `fs.txMu`: other threads write
  only into a transaction that is no longer the one being committed. `SerialInv` adds
  that the dirty blocks are the device before the operation with its words in them.
* `SpaceInv` strengthens `NothingLostOrShared`, and like it holds until `torn`, by the types of bitmaps and by
  `Balanced`: a bit is set exactly if it was at the start or its number is
  owned. The counts play no part, which is why wrong counts and fsck cannot
  break it. The arithmetic (`NumberUnique`, `NumberFound`) is that of
  group and bit with blocks counted from 0 and inodes from 1.
* `Settled` adds to `CountsExact` that what the transaction shows is what memory
  holds, and that before its first call it shows the device. A bit set or cleared moves
  one count by one, and with it the sum (`SumChanged`).
* `XattrInv` has the owners of blocks, and `AttrsInv` says that the attributes of a
  file are nowhere, in its tail alone or in its block alone, as a table that fits. That
  what is read is what was written (`TailRoundTrip`, `BlockRoundTrip`) is where the
  word of zeros behind the entries is needed: without it the loop of `ListXAttrs`
  would run into the values.

* `Inv` of `FileData_proofs` says that trees are `Sound`: well formed, no logical block
  in two extents, no block in two places, all in use. `BlocksOwned` alone is not
  inductive: that a new extent starts on a block of nobody needs `Apart` for every
  place of every file, and that the leaf has room for it (`LeafHasRoom`) needs that
  each of its extents is for logical blocks of its own. `WriteFileAt` reads the
  extents once, before its loop; that the ones it then works with are still right, though
  `AppendExtent` joins, adds and moves them, is what `Loop` says of its rounds
  (`Extends`: entry by entry, what was there is there). After a cut,
  `Trimmed` relates what is kept to the blocks given back (`Behind`). `DataReclaimed`
  needs that files are `Covered`, mapped up to their size: then the panic of a
  write happens before it allocates anything.
* `WordsInv` of `FileData_proofs` adds the words. A file's list has the `Shape` of its size:
  in the order of the file, for exactly the blocks it has words in. From that and
  from no block being in two entries follows that the entries are `Consecutive`, and
  only then does `Physical`, which takes them to be, find block `n` as the
  `n + 1`st (`PlaceInRun`, `WordPlace`). `Carries` says that each block holds its words.
  A write is followed round by round (`Laid`): what it brought is in the blocks done so
  far, the rest of this file and all other files are as before (`OldWords`,
  `OthersWords`, from `Apart`), and a block that was not there is the next of the file
  (`Ready`), so that appending at the end of the list is appending in order. An open
  path `Knows` a list that the file's list `Extends` and that has the
  `Shape` of the size it knows; writes by other names keep that, a cut does not.
* `BtrfsFS_proofs` shows `Inv \/ Ruin`: `Ruin` is a volume that has lost items, which only
  `Mount` is done to. `Inv` has two parts. `Weak` holds after every single tree write, so it
  does not matter which of them fails: it counts the names of each inode (`Count`, by
  what a lookup finds) and bounds them by the link count. `Whole` holds until a write has
  failed: only directories have entries, a directory has at most one name, and
  what is cached is current. From one name per directory follows that different paths
  lead to different directories (`UniquePath`), and that is why it is enough to forget
  the path that was called with: no other cached path ends with the entry that
  changed. `WalkChange` says that an entry which leads to no directory with names
  affects only paths that end with it, and so needs the check of `removeEntry` that the directory is empty and that
  `Rename` replaces no directory.
* `DataPart` adds to it, for the data, that the places of different inodes are disjoint
  (`Alone`, which every single tree write keeps, and which the search of
  `allocateSpace` through the items of all files is needed for: the extent tree may not have
  an extent whose registration failed), and, until a write has failed, that every
  file `Fits`: at most one item, which holds exactly what callers left, with its size in
  the inode, and no item for an inode number that is not in use. The last is
  why a new file does not start with the data of an earlier one.
  `Half` is the same for all files but one, and holds between the writes of `Write` and
  `Truncate`; that they leave the file right needs that the path cache led to it.

Sums over groups, replays of the log, tables of entries, the rounds of a write, the
concatenation of extents and the walk along a path are defined by recursive
functions, and what they compute is proved from the smallest number for which it
fails (`Minimum!SmallestExists`), which the provers can follow where they cannot
instantiate an induction rule.

The assumptions that the proofs need and the code gives: block, name and inode
sets are finite; blocks are counted from 1 where 0 means none; a block is larger than its
header; names are different from each other, and none of them or of the words
written is one of the marks the models use for what is not there; btrfs inode numbers are counted
from the root's.

Only model-checked: `BtrfsTree` and its refinement of `ItemMap`, whose trees are walked
by recursive operators, which the provers do not support; `OperationsEnd`, which is
liveness; and `Namespace` with its refinement of `NameMaps`. The invariants of
`Namespace` rest on each other: a block has one owner only if no name leads to a freed inode,
which needs exact link counts, which need that `dirCache` answers right. It
does not always (section 5: entries of a rolled-back operation stay in it), so
they hold together for the calls and faults of the two runs, not for
all values of `Calls`, `Faults` and `Spare`.

## 5. Where the code and its documents disagree

With a run:

* `BtrfsTree_mount`: after a split of the root the new root is only in memory
  (`btrfs/writer.go:864`; nothing calls `writeSuperBlock`). The next mount starts
  from the old root, the left half of the tree. README.md:61 and :122 say that
  roots are committed to the superblock; nodes are also changed in place, not copied.

Seen while modelling, without a run of their own. In the ext4 driver and below:

* a crash in a write whose log entry follows a hole that is not a multiple of 12
  bytes is not undone, or undone with wrong data (`vfs/redolog.go:102`; README.md:354
  "restore the pre-write state"): drop the premise about `base` from `AlignedUndo`.
* the journal superblock moves past a transaction before its blocks are in place,
  and no mount replays, so a crash in the write back leaves half an operation
  (`vfs/journal_writer.go:296`; README.md:32 "Crash-safe writes"): that is the outcome
  "torn" of `TxJournal`.
* operations of two threads share a transaction, and whoever ends first ends it
  for both: a rollback drops the writes of another operation that then reports
  success (`vfs/journal_writer.go:116`; README.md:123).
* the index entry of a new leaf is written into the old leaf and reads as an
  extent that starts at block 0; the next write to these logical blocks goes to
  the superblock (`vfs/allocate.go:514`; README.md:118 "splits, and tree depth
  scaling for large files"). It takes more extents than fit in a block, 340 for
  blocks of 4 KiB. Check `DataIntact`, `BlocksOwned` or `TypeOK` of `FileData` with `BlockCount = 12`,
  `BlockWords = 1`, `MaxLen = 4`, `MaxSize <- FourBlocks`, `MaxBuf = 1`, `MaxCuts = 0`.
* with two threads, a read that missed the cache can fill it with what a write
  has replaced meanwhile, and the old words are served from then on
  (`vfs/redolog.go:211`; README.md:59 "thread-safe"). Set `Threads = {t1, t2}` in
  `SafeDevice_seq.cfg` to see `CacheServesDevice` and `AlignedUndo` fail.
* the journal position wraps when it exceeds `S_maxlen`, one too late, so a
  commit that reaches the end fails (`vfs/journal_writer.go:255`; README.md:60
  "circularly"). In `TxJournal` this is the outcome "no journal block".
* a commit that stops among its writes in place leaves bitmaps, counts and inodes of
  different ages, and what is in use may be free in the bitmap and is handed out again
  (`vfs/journal_writer.go:311`; README.md:32): remove `~torn =>` from `NothingLostOrShared`.
* a rolled-back operation leaves `fs.Bgds` and `fs.sb` off, and `Destroy` writes
  `fs.sb` out (`ext4/fs.go:65`; `vfs/health.go:266` reports such a device).
* `fsck --fix` computes `expectedFree` as the number of used objects
  (`vfs/health.go:99`; README.md:73 "Auto-corrects mismatch states").
* `dirCache` keeps entries read through a transaction that is rolled back; after a
  `Rename` that is, a `Lookup` misses a name that exists and `AddDirEntry` adds it twice.
  Removing one of the two removes the first entry but frees the inode the other leads to, whose blocks a
  new directory may then get (`vfs/dirent.go:38`). Set `MaxLinks = 3`, drop
  `CONSTRAINT NotUndone` and add `EntriesSound` in `Namespace_flat.cfg` to see the second entry.
* an operation by a path through a symbolic link drops the listing of that path, not
  of the directory's own: a name that is gone stays listed (`ext4/fs.go:421`). Remove `~aliased`
  from `ListingHasNoGhosts`. Relative targets are resolved from the root
  (`vfs/core.go:94-106`), and `Readlink` resolves its path through the link it is to read.
* `Rename` of a directory to another parent leaves both link counts, so `Rmdir`
  of the old parent stops at 1 and its inode stays in use without a name
  (`ext4/fs.go:507`; README.md:212).
* `Mkdir` makes no `.` and `..` and leaks the block it allocates
  (`ext4/fs.go:276`; README.md:211).
* `Create`, `Link` and `Symlink` do not drop the cached listing of the parent
  (`ext4/fs.go:178`; README.md:206).
* `ReadFileAt` ignores `EE_block`, so files with holes or with blocks written out
  of order read shifted, and a new block shows what its last owner left. Set
  `Sparse = TRUE` in `FileData_append.cfg` to see `DataIntact` and `DataReclaimed` fail
  (`vfs/reader.go:102`, `vfs/writer.go:68`).
* a cut that keeps more than four extents stores four and counts all of them;
  the file cannot be read any more, and a leaf is never freed
  (`vfs/reclaim.go:183`; README.md:209).
* writes that do not start on a block boundary always fail (`vfs/writer.go:73`).
* attribute values in a block are read 32 bytes before the place where they were
  written (`vfs/xattr.go:181`), and go on being wrong when the list moves back into
  the tail. `I_blocks` is not reduced when the block is given back, and removing
  the file leaks it. Files made by the driver have `I_extra_isize` 0 and so no
  tail at all.

In the btrfs driver:

* data reads overlap in any way, and then a cached block can hide a newer one:
  with requests `Interval(0, 2)` and `Interval(1, 2)` in `SafeDevice_seq`,
  `CacheServesDevice` fails (`btrfs/fs.go:1447`).
* when the leaf of the extent tree is split while a node is registered, the root
  has moved when the outer split comes to its end, and nodes are lost: set `Extents = 6` and six
  `DataBlocks` in `BtrfsTree_split.cfg` to see `NodesOwned` fail (`btrfs/writer.go:810`).
* a split cuts by number of items, so a half may still not fit; a split that
  finds no block for its index node has already cut the leaf and loses the upper
  half; a new leaf keeps the level byte it finds in its block, which need not be 0
  on a volume that Linux has used; an insert below the first key of a tree does not lower the
  index keys, and a later split of that leaf enters its upper half in front of it.
* a failing write in the split of a leaf loses the upper half
  (`btrfs/writer.go:789-935`), and after a registration that failed (`:810`, `:861`, `:928`,
  errors ignored) a node in use is given out again: `lost` of `BtrfsFS`.
* file data is read from the logical address of an extent and written to its physical one
  (`btrfs/fs.go:1423` and `:1446` against `:265` and `btrfs/writer.go:663`): set `Linear = FALSE`
  in `BtrfsFS_ops.cfg` and remove `Linear =>` from `DataIntact`. A read that starts inside
  an extent may also return words from behind its end (`btrfs/fs.go:1415`, `:1440`), which is not modelled.
* a listing of the root caches `"//name"` (`host/bridge.go:85`), `Unlink` and `Rename` forget
  `"/name"` (`btrfs/fs.go:455`, `:570`): later listings show the attributes of what the name
  led to before. In `BtrfsFS` `listed` is then different from `lookupDirEntry`.
* renaming a directory leaves its descendants in `pathCache`
  (`Beyond = {"rename"}`: `PathCacheCurrent`, `btrfs/fs.go:570`); renaming a path to
  itself removes it.
* `Chmod` clears the file type, so a directory becomes something `Unlink` removes
  with all that is below it (`Beyond = {"chmod"}`: `NamesSound`, `btrfs/fs.go:601`).
* a `Write` inside a file drops what is behind it; compressed extents are taken
  as they are by the next `Write` or `Truncate`; `Truncate` of an empty file
  changes only the size (`Beyond = {"write"}`: `DataIntact`, `btrfs/fs.go:214`).
* `Create` and `Symlink` look the name up after they have made the inode, which stays when
  the name exists (`btrfs/writer.go:204`). Extents are never given back.
* symbolic links are taken for regular files: the test for `0x8000` comes first
  (`btrfs/fs.go:1166`). Entries made by Linux come twice (`DIR_ITEM` and `DIR_INDEX`)
  and only one is removed.

## 6. Not modelled

Readlink, attributes of inodes (mode, owner, times); the JBD2 replay: `Recover` has
no caller, and it expects records the writer does not write, so no behaviour of
the program depends on it; btrfs volumes with files made by Linux, several chunks of one kind, checksums,
its fsck (which only reports), node writes that fail in `BtrfsTree`; the partition tables; the read-modify-write of
`AlignedReaderAt`; the bridge, which forwards each call (of it only the listing of the root is in
`BtrfsFS`), and its handle table;
command line, installer, web pages. `PROJECT.json` gives the reason for each.

## 7. Plan

Done: undo log and cache, transactions, allocator, paths, file data, extended
attributes, btrfs trees and operations, and the theorems of section 4. What could
still be modelled:

1. `AlignedReaderAt` under two threads, against a device of words; `SafeDevice` over it.
2. two operations in one transaction that read the same bitmap block
   (composition of `TxJournal` and `FreeSpace`).
3. the handle table of `host/handles.go`.

Theorems next: what `Split` and `Drop` of `DirBlock` do to a tiled block, and for which
calls and faults the invariants of `Namespace` hold together.

----------------------------- MODULE FreeSpace ------------------------------
(***************************************************************************)
(* Allocation in the ext4 driver (vfs/allocate.go, vfs/reclaim.go) and the *)
(* repair of its counters (vfs/health.go).                                 *)
(*                                                                         *)
(* Blocks and inodes are kept the same way: a bitmap per group, a free     *)
(* count per group in the group descriptors, and a total in the            *)
(* superblock.  The driver keeps descriptors and superblock in memory      *)
(* (fs.Bgds, fs.sb) for the whole mount and writes them out after each     *)
(* change, bitmaps it reads back each time.  All of that happens inside a  *)
(* transaction, which a failing operation rolls back: on the device, but   *)
(* not in memory.  The commit writes the dirty blocks one by one, so an    *)
(* error or a crash among these writes leaves some blocks new and some old *)
(* (the outcome "torn" of TxJournal): what the bitmaps say of the files is *)
(* then anybody's guess, and is exempted below by name.                    *)
(***************************************************************************)
EXTENDS Integers, FiniteSets, FiniteSetsExt, Functions

CONSTANTS
    GroupCount,     \* block groups
    PerGroup,       \* blocks, and inodes, of a group
    FirstInode,     \* bit AllocateInode starts at in group 0 (11 in the code)
    InitUsed,       \* the bits in use at the start: [Kinds -> [Groups -> SUBSET Bits]]
    MaxCalls,       \* bound: allocations and releases of one operation
    MaxFailures,    \* bound: operations that fail after a call, releases that fail, torn commits
    IoErrors        \* TRUE if the device may fail inside a call

Kinds == {"block", "inode"}
Groups == 0 .. GroupCount - 1
Bits == 0 .. PerGroup - 1

ASSUME GroupsAssumption == GroupCount \in Nat \ {0} /\ PerGroup \in Nat \ {0}
ASSUME InitUsedAssumption == InitUsed \in [Kinds -> [Groups -> SUBSET Bits]]
ASSUME BoundsAssumption == FirstInode \in Nat /\ MaxCalls \in Nat /\ MaxFailures \in Nat
ASSUME ErrorsAssumption == IoErrors \in BOOLEAN

VARIABLES
    disk,       \* the device: bitmaps, descriptors' free counts, superblock totals
    view,       \* the device as seen through the transaction in progress
    mem,        \* fs.Bgds and fs.sb
    mode,       \* "down", "up" or "op" (inside an operation)
    calls,      \* allocations and releases made by the operation
    failures,   \* operations that failed after a call, releases that failed, torn commits
    (* history, not in the program *)
    torn,       \* TRUE once a write back was cut short
    fsck,       \* TRUE once `fsck --fix` has run
    owned,      \* what the operations have allocated, as of view
    ownedDisk   \* the same as of disk

vars == <<disk, view, mem, mode, calls, failures, torn, fsck, owned, ownedDisk>>

Layout == [bitmap : [Kinds -> [Groups -> SUBSET Bits]],
           free : [Kinds -> [Groups -> Int]], sb : [Kinds -> Int]]

Clear(used) == Cardinality(Bits \ used)

\* The counts of all groups, added up group by group.
SumOf(free) ==
    LET sum[i \in 0 .. GroupCount] == IF i = 0 THEN 0 ELSE sum[i - 1] + free[i - 1]
    IN  sum[GroupCount]

\* A freshly made file system: all counts are right.
Formatted ==
    LET free == [k \in Kinds |-> [g \in Groups |-> Clear(InitUsed[k][g])]]
    IN  [bitmap |-> InitUsed, free |-> free, sb |-> [k \in Kinds |-> SumOf(free[k])]]

Loaded(d) == [free |-> d.free, sb |-> d.sb]
None == [k \in Kinds |-> {}]

Init ==
    /\ disk = Formatted /\ view = Formatted /\ mem = Loaded(Formatted)
    /\ mode = "down" /\ calls = 0 /\ failures = 0 /\ torn = FALSE /\ fsck = FALSE
    /\ owned = None /\ ownedDisk = None

-----------------------------------------------------------------------------
\* Block and inode numbers: inodes count from 1.
Base(k) == IF k = "inode" THEN 1 ELSE 0
Number(k, g, b) == g * PerGroup + b + Base(k)

GroupOf(k, n) == (n - Base(k)) \div PerGroup

\* FreeInode that forgets that inode numbers start at 1.
BitOfFromZero(k, n) == n % PerGroup

BitOf(k, n) == (n - Base(k)) % PerGroup

\* A search that also tries the bit behind the last one (faulty).
CandidatesPastEnd(k, g) ==
    {b \in (0 .. PerGroup) \ view.bitmap[k][g] : k = "inode" /\ g = 0 => b >= FirstInode}

\* The bits AllocateBlock and AllocateInode may take in group g.
Candidates(k, g) ==
    {b \in Bits \ view.bitmap[k][g] : k = "inode" /\ g = 0 => b >= FirstInode}

\* Groups the search does not pass over: the descriptor counts free ones and
\* the bitmap has one.
Eligible(k) == {g \in Groups : mem.free[k][g] > 0 /\ Candidates(k, g) # {}}

\* The device with the group's descriptor and the superblock written from memory.
WriteBackCounts(v, g, m) ==
    [v EXCEPT !.free = [k \in Kinds |-> [@[k] EXCEPT ![g] = m.free[k][g]]], !.sb = m.sb]

\* The bgd count in memory, changed by delta: the first of two steps.
CountedInGroup(k, g, delta) == [mem EXCEPT !.free[k][g] = @ + delta]

\* bgd count and superblock total in memory, changed by delta (the total is never
\* taken below 0).
Counted(k, g, delta) ==
    [mem EXCEPT !.free[k][g] = @ + delta, !.sb[k] = Max({@ + delta, 0})]

MountUnchanged == UNCHANGED <<disk, failures, torn, fsck, ownedDisk>>

-----------------------------------------------------------------------------
(* An operation: BeginTransaction, allocations and releases, Commit/Rollback *)

Begin ==
    /\ mode = "up"
    /\ mode' = "op" /\ view' = disk /\ calls' = 0 /\ owned' = ownedDisk
    /\ UNCHANGED mem /\ MountUnchanged

\* AllocateBlock, AllocateInode: the first bit of the first eligible group.
Allocate(k) ==
    /\ mode = "op" /\ calls < MaxCalls /\ Eligible(k) # {}
    /\ LET g == Min(Eligible(k))
           b == Min(Candidates(k, g))
       IN  /\ mem' = Counted(k, g, -1)
           /\ view' = WriteBackCounts([view EXCEPT !.bitmap[k][g] = @ \union {b}], g, mem')
           /\ owned' = [owned EXCEPT ![k] = @ \union {Number(k, g, b)}]
    /\ calls' = calls + 1
    /\ UNCHANGED mode /\ MountUnchanged

\* FreeBlock, FreeInode of something in use.
Free(k, n) ==
    /\ mode = "op" /\ calls < MaxCalls
    /\ LET g == GroupOf(k, n)
           b == BitOf(k, n)
       IN  /\ g \in Groups /\ b \in view.bitmap[k][g]
           /\ mem' = Counted(k, g, 1)
           /\ view' = WriteBackCounts([view EXCEPT !.bitmap[k][g] = @ \ {b}], g, mem')
    /\ owned' = [owned EXCEPT ![k] = @ \ {n}]
    /\ calls' = calls + 1
    /\ UNCHANGED mode /\ MountUnchanged

\* The descriptor cannot be written: the bit is set in the transaction and the
\* group counted down in memory.  The operation fails.
AllocateFails(k) ==
    /\ mode = "op" /\ calls < MaxCalls /\ Eligible(k) # {}
    /\ IoErrors /\ failures < MaxFailures
    /\ mem' = CountedInGroup(k, Min(Eligible(k)), -1)
    /\ mode' = "up" /\ view' = disk /\ owned' = ownedDisk /\ calls' = 0
    /\ failures' = failures + 1
    /\ UNCHANGED <<disk, torn, fsck, ownedDisk>>

\* FreeBlock and FreeInode fail and no caller looks at the error: the operation
\* goes on.  With the bitmap unreadable the number stays in use for good ...
FreeLeaks ==
    /\ mode = "op" /\ calls < MaxCalls
    /\ IoErrors /\ failures < MaxFailures
    /\ calls' = calls + 1 /\ failures' = failures + 1
    /\ UNCHANGED <<disk, view, mem, mode, torn, fsck, owned, ownedDisk>>

\* ... with the descriptor unwritable it is free but not counted in the total.
FreeUncounted(k, n) ==
    /\ mode = "op" /\ calls < MaxCalls
    /\ IoErrors /\ failures < MaxFailures
    /\ LET g == GroupOf(k, n)
           b == BitOf(k, n)
       IN  /\ g \in Groups /\ b \in view.bitmap[k][g]
           /\ mem' = CountedInGroup(k, g, 1)
           /\ view' = [view EXCEPT !.bitmap[k][g] = @ \ {b}]
    /\ owned' = [owned EXCEPT ![k] = @ \ {n}]
    /\ calls' = calls + 1 /\ failures' = failures + 1
    /\ UNCHANGED <<disk, mode, torn, fsck, ownedDisk>>

\* A release of what the bitmap has as free already (after a torn write back)
\* changes nothing; its owner drops it all the same.
FreeRefused(k, n) ==
    /\ mode = "op" /\ calls < MaxCalls
    /\ GroupOf(k, n) \in Groups /\ BitOf(k, n) \notin view.bitmap[k][GroupOf(k, n)]
    /\ owned' = [owned EXCEPT ![k] = @ \ {n}]
    /\ calls' = calls + 1
    /\ UNCHANGED <<view, mem, mode>> /\ MountUnchanged

Commit ==
    /\ mode = "op"
    /\ mode' = "up" /\ disk' = view /\ ownedDisk' = owned /\ calls' = 0
    /\ UNCHANGED <<view, mem, failures, torn, fsck, owned>>

\* What the write back writes to: bitmap blocks, descriptors, superblock.
Pieces ==
    {<<"bitmap", k, g>> : k \in Kinds, g \in Groups}
        \union {<<"descriptor", g>> : g \in Groups} \union {<<"superblock">>}

\* The device when of the dirty blocks only those of W were written.
Mixed(W) ==
    [bitmap |-> [k \in Kinds |-> [g \in Groups |->
                    IF <<"bitmap", k, g>> \in W THEN view.bitmap[k][g] ELSE disk.bitmap[k][g]]],
     free   |-> [k \in Kinds |-> [g \in Groups |->
                    IF <<"descriptor", g>> \in W THEN view.free[k][g] ELSE disk.free[k][g]]],
     sb     |-> IF <<"superblock">> \in W THEN view.sb ELSE disk.sb]

\* writeDirtyBlocksDirectly stops among its writes: some blocks are new, the
\* inodes and extents that say who owns what among them.
WriteBackCut ==
    /\ mode = "op" /\ calls > 0 /\ failures < MaxFailures
    /\ \E W \in SUBSET Pieces : disk' = Mixed(W)
    /\ \E own \in [Kinds -> SUBSET UNION {owned[k] \union ownedDisk[k] : k \in Kinds}] :
        /\ \A k \in Kinds : /\ owned[k] \intersect ownedDisk[k] \subseteq own[k]
                             /\ own[k] \subseteq owned[k] \union ownedDisk[k]
        /\ ownedDisk' = own /\ owned' = own
    /\ view' = disk' /\ calls' = 0 /\ failures' = failures + 1 /\ torn' = TRUE
    /\ UNCHANGED fsck

\* ... because a write failed: the operation fails, the mount goes on, ...
CommitTorn == IoErrors /\ WriteBackCut /\ mode' = "up" /\ UNCHANGED mem

\* ... or because the machine did.
CrashInCommit == WriteBackCut /\ mode' = "down" /\ mem' = Loaded(disk')

\* The operation fails: at its start or after some of its calls (no space
\* left, a name that exists, an I/O error, a commit that fails before its write back).
\* The transaction is
\* dropped; fs.Bgds and fs.sb stay as they are.
Rollback ==
    /\ mode = "op"
    /\ IF calls = 0 THEN UNCHANGED failures
       ELSE failures < MaxFailures /\ failures' = failures + 1
    /\ mode' = "up" /\ view' = disk /\ owned' = ownedDisk /\ calls' = 0
    /\ UNCHANGED <<disk, mem, torn, fsck, ownedDisk>>

-----------------------------------------------------------------------------
(* Mount, unmount, crash, fsck *)

Mount ==
    /\ mode = "down"
    /\ mode' = "up" /\ mem' = Loaded(disk)
    /\ UNCHANGED <<disk, view, calls, failures, torn, fsck, owned, ownedDisk>>

\* Destroy writes the superblock of the mount, outside any transaction.
Unmount ==
    /\ mode = "up"
    /\ mode' = "down" /\ disk' = [disk EXCEPT !.sb = mem.sb] /\ view' = disk'
    /\ mem' = Loaded(disk')
    /\ UNCHANGED <<calls, failures, torn, fsck, owned, ownedDisk>>

\* Anywhere but in the write back of a commit (CrashInCommit).
Crash ==
    /\ mode # "down"
    /\ mode' = "down" /\ view' = disk /\ owned' = ownedDisk
    /\ mem' = Loaded(disk) /\ calls' = 0
    /\ MountUnchanged

\* fsckBlockBitmaps and fsckInodeBitmaps: what they take for the number of free
\* objects of a group.  "used" is total - set, "expectedFree" total - used.
expectedFree(used) == PerGroup - (PerGroup - Cardinality(used))

\* Fsck(fix = TRUE) on an unmounted device: each group's count, then the totals.
FsckFix ==
    /\ mode = "down"
    /\ LET free == [k \in Kinds |-> [g \in Groups |-> expectedFree(disk.bitmap[k][g])]]
       IN  disk' = [disk EXCEPT !.free = free, !.sb = [k \in Kinds |-> SumOf(free[k])]]
    /\ view' = disk' /\ mem' = Loaded(disk') /\ fsck' = TRUE
    /\ UNCHANGED <<mode, calls, failures, torn, owned, ownedDisk>>

Operation ==
    \/ Begin \/ Commit \/ CommitTorn \/ Rollback \/ FreeLeaks
    \/ \E k \in Kinds :
        \/ Allocate(k) \/ AllocateFails(k)
        \/ \E n \in owned[k] : Free(k, n) \/ FreeUncounted(k, n) \/ FreeRefused(k, n)

Next == Operation \/ CrashInCommit \/ Mount \/ Unmount \/ Crash \/ FsckFix

Spec == Init /\ [][Next]_vars

-----------------------------------------------------------------------------
(* Properties *)

\* The type invariant.
TypeOK ==
    /\ disk \in Layout /\ view \in Layout
    /\ mem \in [free : [Kinds -> [Groups -> Int]], sb : [Kinds -> Int]]
    /\ mode \in {"down", "up", "op"} /\ calls \in 0 .. MaxCalls /\ failures \in Nat
    /\ torn \in BOOLEAN /\ fsck \in BOOLEAN
    /\ owned \in [Kinds -> SUBSET Nat] /\ ownedDisk \in [Kinds -> SUBSET Nat]

\* The bits in use on a device are those in use at the start and those of the
\* numbers handed out and not released (leaked ones included).
Accounts(d, own) ==
    \A k \in Kinds : \A g \in Groups :
        d.bitmap[k][g] = InitUsed[k][g]
            \union {b \in Bits : Number(k, g, b) \in own[k]}

\* Until a write back is cut short, no number is handed out twice, and none goes
\* missing without a release that failed: across commits, operations that fail and
\* are rolled back, device errors in the middle of a call, crashes at any other
\* point and remounts, and whatever the free counts say (fsck --fix included).
NothingLostOrShared ==
    ~torn =>
        /\ Accounts(disk, ownedDisk) /\ Accounts(view, owned)
        /\ \A k \in Kinds : \A n \in owned[k] :
            GroupOf(k, n) \in Groups /\ BitOf(k, n) \notin InitUsed[k][GroupOf(k, n)]

\* A count of free objects per group and in total that agrees with the bitmaps.
CountsRight(bitmap, free, sb) ==
    \A k \in Kinds :
        /\ \A g \in Groups : free[k][g] = Clear(bitmap[k][g])
        /\ sb[k] = SumOf(free[k])

\* As long as nothing fails after an allocation or a release and no write back is
\* cut short (both count as failures), memory agrees with the transaction and the
\* device with itself, at every step of every operation and across crashes before
\* and after a write back.
CountsExact ==
    failures = 0 /\ ~fsck =>
        /\ CountsRight(disk.bitmap, disk.free, disk.sb)
        /\ mode # "down" => CountsRight(view.bitmap, mem.free, mem.sb)
=============================================================================

----------------------------- MODULE SafeDevice -----------------------------
(***************************************************************************)
(* vfs/redolog.go: SafeDevice, the layer every write to the device passes  *)
(* through.  WriteAt saves the old contents in a log file, writes the      *)
(* device, and truncates the log again; NewSafeDevice writes pending log   *)
(* entries back.  A block cache answers reads.                             *)
(*                                                                         *)
(* The unit is the 4-byte word: offsets, lengths and file positions are    *)
(* counted in words.  The log is kept word by word because its reader and  *)
(* its writer do not agree on where an entry starts: Truncate does not     *)
(* move the file position, so the next append leaves a hole of zeros.      *)
(*                                                                         *)
(* FUSE callbacks run on several threads and only the cache is locked, so  *)
(* each call is a sequence of steps of its thread.                         *)
(***************************************************************************)
EXTENDS BlockCache, Integers

CONSTANTS
    DevSize,        \* words on the device
    Requests,       \* the address ranges callers read and write
    DataWords,      \* the words callers write
    CacheSlots,     \* 64 in the code
    Threads,        \* threads that run FUSE callbacks
    Faults,         \* which device operations may return an error
    MaxPos          \* bound: words of log file written in one mount

Addr == 0 .. DevSize - 1

\* The addresses from off, n words long.
Interval(off, n) == {a \in Addr : off <= a /\ a < off + n}

ASSUME SizesAssumption == DevSize \in Nat /\ CacheSlots \in Nat \ {0} /\ MaxPos \in Nat
ASSUME RequestsAssumption ==
    \A R \in Requests : \E off \in Addr : \E n \in 1 .. DevSize : R = Interval(off, n)
ASSUME WordsAssumption == DataWords \subseteq Nat /\ 0 \in DataWords

VARIABLES
    disk,       \* the device: a word for every address
    log,        \* the log file: a sequence of words
    pos,        \* position of the log's file descriptor
    hdr,        \* safeLog.hdr, the one header buffer all threads share
    cache,      \* the block cache
    mode,       \* "down", "recovering" or "up"
    pend,       \* log entries NewSafeDevice has still to write back
    op,         \* the call each thread is in
    (* history, not in the program *)
    pre,        \* the device before the write in progress
    base,       \* where in the log that write's entry starts
    goal,       \* the device as one uninterrupted recovery would leave it
    seen        \* words each address has held since the mount

vars == <<disk, log, pos, hdr, cache, mode, pend, op, pre, base, goal, seen>>

hdrSize == 3            \* safeHdrSize: offset (two words) and length

\* A buffer for one request.
IsBlock(b) == \E R \in Requests : b \in [R -> Nat]
Idle == [pc |-> "idle"]

-----------------------------------------------------------------------------
(* The log file. *)

\* os.File.Write at position p: overwrites, or extends over a hole of zeros.
WriteLog(l, p, ws) ==
    [i \in 1 .. Max({Len(l), p + Len(ws)}) |->
        IF i \in p + 1 .. p + Len(ws) THEN ws[i - p]
        ELSE IF i <= Len(l) THEN l[i] ELSE 0]

\* The words of block b in address order, as they are written to the log.
Words(b) ==
    LET first == Min(DOMAIN b) IN [i \in 1 .. Cardinality(DOMAIN b) |-> b[first + i - 1]]

\* readPending: header after header from the start of the file, until the
\* rest is too short for a header or for the data its length promises.
readPending(l) ==
    LET E[p \in 0 .. Len(l)] ==
            IF p + hdrSize > Len(l) \/ p + hdrSize + l[p + 3] > Len(l) THEN <<>>
            ELSE LET q == p + hdrSize
                     n == l[p + 3]
                 IN  <<[lo |-> l[p + 1], hi |-> l[p + 2],
                        data |-> SubSeq(l, q + 1, q + n)]>> \o E[q + n]
    IN  E[0]

\* PartitionReader.WriteAt refuses an offset that is negative or past the end;
\* a non-zero high word is one or the other.
InDevice(e) == e.hi = 0 /\ e.lo \in Addr

\* inner.WriteAt of a log entry, cut off at the end of the device.
Undo(d, e) ==
    [a \in Addr |-> IF a \in Interval(e.lo, Len(e.data)) THEN e.data[a - e.lo + 1] ELSE d[a]]

\* The device after NewSafeDevice has written back all entries es, in order,
\* up to the first one the device refuses.
UndoAll(d, es) ==
    LET U[i \in 0 .. Len(es)] ==
            IF i = 0 THEN [ok |-> TRUE, disk |-> d]
            ELSE IF U[i - 1].ok /\ InDevice(es[i])
                 THEN [ok |-> TRUE, disk |-> Undo(U[i - 1].disk, es[i])]
                 ELSE [ok |-> FALSE, disk |-> U[i - 1].disk]
    IN  U[Len(es)].disk

\* What a restart would make of the device now.
Recovered == UndoAll(disk, readPending(log))

-----------------------------------------------------------------------------
Init ==
    /\ disk \in [Addr -> {0}]
    /\ log = <<>> /\ pos = 0 /\ hdr = <<0, 0, 0>>
    /\ cache = <<>> /\ mode = "down" /\ pend = <<>>
    /\ op = [t \in Threads |-> Idle]
    /\ pre = disk /\ base = 0 /\ goal = disk
    /\ seen = [a \in Addr |-> {disk[a]}]

\* Thread t goes on at pc with the fields of its call as they are.
Goto(t, pc) == op' = [op EXCEPT ![t].pc = pc]
Return(t) == op' = [op EXCEPT ![t] = Idle]
At(t, pc) == mode = "up" /\ op[t].pc = pc

LogUnchanged == UNCHANGED <<log, pos, hdr>>
MountUnchanged == UNCHANGED <<mode, pend, base, goal>>

-----------------------------------------------------------------------------
(* ReadAt *)

ReadHit(t, R) ==
    /\ At(t, "idle") /\ CacheHit(cache, R)
    /\ UNCHANGED vars

ReadMiss(t, R) ==
    /\ At(t, "idle") /\ ~CacheHit(cache, R)
    /\ op' = [op EXCEPT ![t] = [pc |-> "readInner", rng |-> R]]
    /\ UNCHANGED <<disk, cache, pre, seen>> /\ LogUnchanged /\ MountUnchanged

ReadInner(t) ==
    /\ At(t, "readInner")
    /\ op' = [op EXCEPT ![t] = [pc |-> "readFill", old |-> [a \in op[t].rng |-> disk[a]]]]
    /\ UNCHANGED <<disk, cache, pre, seen>> /\ LogUnchanged /\ MountUnchanged

\* inner.ReadAt fails: the error is returned and nothing is cached.
ReadFails(t) ==
    /\ "read" \in Faults /\ At(t, "readInner")
    /\ Return(t)
    /\ UNCHANGED <<disk, cache, pre, seen>> /\ LogUnchanged /\ MountUnchanged

ReadFill(t) ==
    /\ At(t, "readFill")
    /\ cache' = updateCache(cache, op[t].old, CacheSlots)
    /\ Return(t)
    /\ UNCHANGED <<disk, pre, seen>> /\ LogUnchanged /\ MountUnchanged

-----------------------------------------------------------------------------
(* WriteAt *)

\* The old contents come from the cache if a block covers the request.
WriteHit(t, R, d) ==
    /\ At(t, "idle") /\ CacheHit(cache, R)
    /\ pos + hdrSize + Cardinality(R) <= MaxPos
    /\ pre' = disk /\ base' = pos
    /\ op' = [op EXCEPT ![t] = [pc |-> "setOff", new |-> d, old |-> lookupCache(cache, R)]]
    /\ UNCHANGED <<disk, cache, seen>> /\ LogUnchanged /\ UNCHANGED <<mode, pend, goal>>

\* WriteAt that writes the device before the old contents are in the log.
WriteMissUnlogged(t, R, d) ==
    /\ At(t, "idle") /\ ~CacheHit(cache, R)
    /\ pos + hdrSize + Cardinality(R) <= MaxPos
    /\ pre' = disk /\ base' = pos
    /\ op' = [op EXCEPT ![t] = [pc |-> "writing", new |-> d, left |-> R,
                                old |-> [a \in R |-> disk[a]]]]
    /\ UNCHANGED <<disk, cache, seen>> /\ LogUnchanged /\ UNCHANGED <<mode, pend, goal>>

WriteMiss(t, R, d) ==
    /\ At(t, "idle") /\ ~CacheHit(cache, R)
    /\ pos + hdrSize + Cardinality(R) <= MaxPos
    /\ pre' = disk /\ base' = pos
    /\ op' = [op EXCEPT ![t] = [pc |-> "preRead", new |-> d]]
    /\ UNCHANGED <<disk, cache, seen>> /\ LogUnchanged /\ UNCHANGED <<mode, pend, goal>>

PreRead(t) ==
    /\ At(t, "preRead")
    /\ op' = [op EXCEPT ![t] = [pc |-> "preFill", new |-> op[t].new,
                                old |-> [a \in DOMAIN op[t].new |-> disk[a]]]]
    /\ UNCHANGED <<disk, cache, pre, seen>> /\ LogUnchanged /\ MountUnchanged

PreReadFails(t) ==
    /\ "read" \in Faults /\ At(t, "preRead")
    /\ Return(t)
    /\ UNCHANGED <<disk, cache, pre, seen>> /\ LogUnchanged /\ MountUnchanged

PreFill(t) ==
    /\ At(t, "preFill")
    /\ cache' = updateCache(cache, op[t].old, CacheSlots)
    /\ Goto(t, "setOff")
    /\ UNCHANGED <<disk, pre, seen>> /\ LogUnchanged /\ MountUnchanged

\* appendEntry fills the header buffer of the log in two stores ...
SetOff(t) ==
    /\ At(t, "setOff")
    /\ hdr' = [hdr EXCEPT ![1] = Min(DOMAIN op[t].old), ![2] = 0]
    /\ Goto(t, "setLen")
    /\ UNCHANGED <<disk, log, pos, cache, pre, seen>> /\ MountUnchanged

SetLen(t) ==
    /\ At(t, "setLen")
    /\ hdr' = [hdr EXCEPT ![3] = Cardinality(DOMAIN op[t].old)]
    /\ Goto(t, "header")
    /\ UNCHANGED <<disk, log, pos, cache, pre, seen>> /\ MountUnchanged

\* ... and writes it, then the old contents, at the descriptor's position.
AppendHeader(t) ==
    /\ At(t, "header")
    /\ log' = WriteLog(log, pos, hdr) /\ pos' = pos + hdrSize
    /\ Goto(t, "data")
    /\ UNCHANGED <<disk, hdr, cache, pre, seen>> /\ MountUnchanged

AppendData(t) ==
    /\ At(t, "data")
    /\ log' = WriteLog(log, pos, Words(op[t].old))
    /\ pos' = pos + Cardinality(DOMAIN op[t].old)
    /\ Goto(t, "sync")
    /\ UNCHANGED <<disk, hdr, cache, pre, seen>> /\ MountUnchanged

Sync(t) ==
    /\ At(t, "sync")
    /\ op' = [op EXCEPT ![t] = [pc |-> "writing", new |-> op[t].new, old |-> op[t].old,
                                left |-> DOMAIN op[t].new]]
    /\ UNCHANGED <<disk, cache, pre, seen>> /\ LogUnchanged /\ MountUnchanged

\* A write to the log or its Sync fails: the call returns, the log stays.
AppendFails(t) ==
    /\ "log" \in Faults /\ (At(t, "header") \/ At(t, "data") \/ At(t, "sync"))
    /\ Return(t)
    /\ UNCHANGED <<disk, cache, pre, seen>> /\ LogUnchanged /\ MountUnchanged

\* inner.WriteAt reaches the device word by word; op.left is what is to come.
InnerWriteWord(t) ==
    /\ At(t, "writing")
    /\ LET a == Min(op[t].left) IN
        /\ disk' = [disk EXCEPT ![a] = op[t].new[a]]
        /\ seen' = [seen EXCEPT ![a] = @ \union {op[t].new[a]}]
        /\ op' = [op EXCEPT ![t].left = @ \ {a},
                            ![t].pc = IF op[t].left = {a} THEN "postFill" ELSE @]
    /\ UNCHANGED <<cache, pre>> /\ LogUnchanged /\ MountUnchanged

\* The device fails after any number of words: the error is returned at once,
\* so neither the cache nor the log hears of it.
InnerWriteFails(t) ==
    /\ "write" \in Faults /\ At(t, "writing")
    /\ Return(t)
    /\ UNCHANGED <<disk, cache, pre, seen>> /\ LogUnchanged /\ MountUnchanged

\* WriteAt without the second updateCache.
PostFillSkipped(t) ==
    /\ At(t, "postFill")
    /\ Goto(t, "remove")
    /\ UNCHANGED <<disk, cache, pre, seen>> /\ LogUnchanged /\ MountUnchanged

PostFill(t) ==
    /\ At(t, "postFill")
    /\ cache' = updateCache(cache, op[t].new, CacheSlots)
    /\ Goto(t, "remove")
    /\ UNCHANGED <<disk, pre, seen>> /\ LogUnchanged /\ MountUnchanged

\* removeLastEntry: the file gets shorter; the descriptor stays where it is.
RemoveLast(t) ==
    /\ At(t, "remove")
    /\ LET size == Len(log) - (hdrSize + Cardinality(DOMAIN op[t].old))
       IN  log' = SubSeq(log, 1, Max({size, 0}))
    /\ pre' = disk
    /\ Return(t)
    /\ UNCHANGED <<disk, pos, hdr, cache, seen>> /\ MountUnchanged

\* The Stat or Truncate of removeLastEntry fails; WriteAt ignores the error.
RemoveFails(t) ==
    /\ "log" \in Faults /\ At(t, "remove")
    /\ pre' = disk
    /\ Return(t)
    /\ UNCHANGED <<disk, cache, seen>> /\ LogUnchanged /\ MountUnchanged

-----------------------------------------------------------------------------
(* NewSafeDevice, Close, crash *)

\* A process that has just started: its log descriptor is at 0, its cache empty.
Fresh ==
    /\ pend' = <<>> /\ pos' = 0 /\ hdr' = <<0, 0, 0>> /\ cache' = <<>>
    /\ op' = [t \in Threads |-> Idle]
    /\ pre' = disk /\ base' = 0 /\ seen' = [a \in Addr |-> {disk[a]}]

\* No complete entry in the log: whatever is in the file stays there.
MountClean ==
    /\ mode = "down" /\ readPending(log) = <<>>
    /\ mode' = "up" /\ Fresh
    /\ UNCHANGED <<disk, log, goal>>

\* A mount that clears the log before it writes the entries back.
MountPendingCleared ==
    /\ mode = "down" /\ readPending(log) # <<>>
    /\ mode' = "recovering" /\ pend' = readPending(log) /\ log' = <<>>
    /\ UNCHANGED <<disk, pos, hdr, cache, op, pre, base, goal, seen>>

MountPending ==
    /\ mode = "down" /\ readPending(log) # <<>>
    /\ mode' = "recovering" /\ pend' = readPending(log)
    /\ UNCHANGED <<disk, log, pos, hdr, cache, op, pre, base, goal, seen>>

RecoverEntry ==
    /\ mode = "recovering" /\ pend # <<>> /\ InDevice(Head(pend))
    /\ disk' = Undo(disk, Head(pend)) /\ pend' = Tail(pend)
    /\ UNCHANGED <<log, pos, hdr, cache, mode, op, pre, base, goal, seen>>

\* An entry the device refuses: the log file is deleted and the mount given up.
RecoverRefused ==
    /\ mode = "recovering" /\ pend # <<>> /\ ~InDevice(Head(pend))
    /\ log' = <<>> /\ pend' = <<>> /\ mode' = "down"
    /\ UNCHANGED <<disk, pos, hdr, cache, op, pre, base, goal, seen>>

\* The same when reading the log, a write back, or clearing the log fails.
RecoverFails ==
    /\ "recovery" \in Faults /\ mode # "up"
    /\ log' = <<>> /\ pend' = <<>> /\ mode' = "down" /\ goal' = disk
    /\ UNCHANGED <<disk, pos, hdr, cache, op, pre, base, seen>>

RecoverDone ==
    /\ mode = "recovering" /\ pend = <<>>
    /\ mode' = "up" /\ log' = <<>> /\ Fresh
    /\ UNCHANGED <<disk, goal>>

\* Close deletes the log file; a later open creates an empty one.
Close ==
    /\ mode = "up" /\ \A t \in Threads : op[t] = Idle
    /\ mode' = "down" /\ log' = <<>> /\ goal' = disk /\ Fresh
    /\ UNCHANGED disk

\* The process dies.  Device and log file stay as they are.
Crash ==
    /\ mode # "down"
    /\ mode' = "down" /\ Fresh
    /\ goal' = IF mode = "up" THEN Recovered ELSE goal
    /\ UNCHANGED <<disk, log>>

-----------------------------------------------------------------------------
Read(t) ==
    \/ \E R \in Requests : ReadHit(t, R) \/ ReadMiss(t, R)
    \/ ReadInner(t) \/ ReadFails(t) \/ ReadFill(t)

Write(t) ==
    \/ \E R \in Requests : \E d \in [R -> DataWords] : WriteHit(t, R, d) \/ WriteMiss(t, R, d)
    \/ PreRead(t) \/ PreReadFails(t) \/ PreFill(t)
    \/ SetOff(t) \/ SetLen(t) \/ AppendHeader(t) \/ AppendData(t) \/ Sync(t)
    \/ AppendFails(t) \/ InnerWriteWord(t) \/ InnerWriteFails(t)
    \/ PostFill(t) \/ RemoveLast(t) \/ RemoveFails(t)

Mount ==
    \/ MountClean \/ MountPending
    \/ RecoverEntry \/ RecoverRefused \/ RecoverFails \/ RecoverDone

Next == (\E t \in Threads : Read(t) \/ Write(t)) \/ Mount \/ Close \/ Crash

Spec == Init /\ [][Next]_vars

-----------------------------------------------------------------------------
(* Properties *)

\* A pending entry of the log.
LogEntries == [lo : Nat, hi : Nat, data : Seq(Nat)]

\* What each step of a call holds: its request, the words to write, the old
\* words (for the same addresses) and, from the device write on, what is left.
CallShape(o) ==
    \/ o = Idle
    \/ o.pc = "readInner" /\ o = [pc |-> o.pc, rng |-> o.rng] /\ o.rng \in Requests
    \/ o.pc = "readFill" /\ o = [pc |-> o.pc, old |-> o.old] /\ DOMAIN o.old \in Requests
    \/ o.pc = "preRead" /\ o = [pc |-> o.pc, new |-> o.new] /\ DOMAIN o.new \in Requests
    \/ /\ o.pc \in {"preFill", "setOff", "setLen", "header", "data", "sync"}
       /\ o = [pc |-> o.pc, new |-> o.new, old |-> o.old]
       /\ DOMAIN o.new \in Requests /\ DOMAIN o.old = DOMAIN o.new
    \/ /\ o.pc \in {"writing", "postFill", "remove"}
       /\ o = [pc |-> o.pc, new |-> o.new, old |-> o.old, left |-> o.left]
       /\ DOMAIN o.new \in Requests /\ DOMAIN o.old = DOMAIN o.new
       /\ o.left \subseteq DOMAIN o.new /\ (o.pc = "writing" <=> o.left # {})

\* The parts of the type invariant that do not depend on the words: the cache
\* never has more than CacheSlots blocks (the 64 of updateCache), a device that
\* is not mounted has none and is in no call, and each call holds what its step
\* needs.
ShapeOK ==
    /\ disk = [a \in Addr |-> disk[a]] /\ seen = [a \in Addr |-> seen[a]]
    /\ IsBlockList(cache, Requests, CacheSlots)
    /\ mode \in {"down", "recovering", "up"}
    /\ mode # "up" => cache = <<>> /\ \A t \in Threads : op[t] = Idle
    /\ op = [t \in Threads |-> op[t]] /\ \A t \in Threads : CallShape(op[t])

\* The type invariant.
TypeOK ==
    /\ ShapeOK
    /\ disk \in [Addr -> Nat] /\ pre \in [Addr -> Nat] /\ goal \in [Addr -> Nat]
    /\ log \in Seq(Nat) /\ pos \in Nat /\ base \in Nat
    /\ hdr \in Seq(Nat) /\ Len(hdr) = hdrSize
    /\ \A i \in DOMAIN cache : IsBlock(cache[i])
    /\ pend \in Seq(LogEntries)
    /\ seen \in [Addr -> SUBSET Nat]

\* Requests that overlap are nested, as ext4's are: whole file system blocks
\* and structures inside one block.
Laminar == \A R, S \in Requests : R \cap S = {} \/ R \subseteq S \/ S \subseteq R

\* No block of the cache lies inside a block behind it, so the front-to-back
\* search of lookupCache always meets the widest copy first.
WiderFirst == WidestFirst(cache)

\* With one thread and nested requests a cache hit gives what the device holds,
\* whatever stale narrower copies the list still has: ReadAt and the pre-read of
\* WriteAt may trust lookupCache.  (A write in progress is exempt.)
CacheServesDevice ==
    (mode = "up" /\ \A t \in Threads : op[t].pc \notin {"writing", "postFill"}) =>
        \A R \in Requests : CacheHit(cache, R) => lookupCache(cache, R) = [a \in R |-> disk[a]]

\* What makes it so, of call o, cache c and device d: every block agrees with the
\* device, but for the request being written, or lies inside one before it; what
\* has been read is still true, and so is what has been written.
Busy(o) == IF o.pc \in {"writing", "postFill"} THEN DOMAIN o.new ELSE {}

Sound(m, c, d, o) ==
    /\ m = "up" => FreshOrShadowed(c, d, Busy(o))
    /\ o.pc \in {"readFill", "preFill"} => Agrees(o.old, d, {})
    /\ o.pc = "writing" => Agrees(o.new, d, o.left)
    /\ o.pc = "postFill" => Agrees(o.new, d, {})

CacheInv == \A t \in Threads : Sound(mode, cache, disk, op[t])

\* Under any interleaving of the threads, and after failed writes, the cache
\* holds only words the device itself held at that address since the mount.
CacheNeverInvents ==
    mode = "up" => \A i \in DOMAIN cache : \A a \in DOMAIN cache[i] : cache[i][a] \in seen[a]

\* What makes it so: the device holds only such words, and so do the buffers that
\* the calls will still put into the cache.
CallKnown(o, s) ==
    /\ o.pc \in {"readFill", "preFill"} => \A a \in DOMAIN o.old : o.old[a] \in s[a]
    /\ o.pc \in {"writing", "postFill"} => \A a \in DOMAIN o.new \ o.left : o.new[a] \in s[a]

SeenInv ==
    /\ CacheNeverInvents
    /\ mode = "up" =>
        /\ \A a \in Addr : disk[a] \in seen[a]
        /\ \A t \in Threads : CallKnown(op[t], seen)

\* If the entry of the write in progress starts a whole number of headers into
\* the file, a crash at any step of WriteAt is undone completely: the zeros of
\* the hole before the entry read as empty entries.
AlignedUndo == mode = "up" /\ base % hdrSize = 0 => Recovered = pre

\* NewSafeDevice may itself be interrupted: after any number of crashes during
\* the write back, a restart still leads to the device the first one would have
\* produced (or a failing mount has deleted the log).
RecoveryIdempotent == mode # "up" => Recovered = goal
=============================================================================

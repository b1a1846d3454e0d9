----------------------------- MODULE TxJournal ------------------------------
(***************************************************************************)
(* vfs/journal_writer.go: the write transactions of the ext4 driver.       *)
(*                                                                         *)
(* BeginTransaction puts a TxDevice over the device, which keeps changed   *)
(* blocks in memory; CommitTransaction writes them to the JBD2 journal and *)
(* then to their places; RollbackTransaction drops them.  Every operation  *)
(* of ext4/fs.go is one Begin, some writes, and a Commit (the operation    *)
(* succeeded) or a Rollback (it did not).  The operations run on FUSE      *)
(* threads; there is one fs.dev for all of them.                           *)
(*                                                                         *)
(* A block is two words: the first is where a JBD2 record has its magic    *)
(* number, the second stands for the rest.  Writes are of one word, so a   *)
(* write is a read-modify-write of its block.  The device writes a block   *)
(* atomically (what the undo log of SafeDevice is for).                    *)
(***************************************************************************)
EXTENDS Naturals, Sequences, FiniteSets, SequencesExt

CONSTANTS
    Threads,        \* threads running operations
    Blocks,         \* file system blocks outside the journal
    BlocksOf(_),    \* the blocks the operations of a thread write
    Data,           \* ordinary words
    Writes,         \* what operations write: pairs of a position and a word
    Magic, Escaped, \* JBD2_MAGIC, and JBD2_MAGIC with the escape mask xored in
    JournalKinds,   \* of "jbd2", and "other": none, or not recognised by its magic
    S_maxlen,       \* length of the journal; its blocks are 0 .. S_maxlen - 1
    MaxTags,        \* tags that fit in a descriptor block
    MaxTx,          \* bound: transactions begun
    MaxWrites,      \* bound: writes of one operation
    Faults          \* TRUE if device writes of a commit may fail

ASSUME JournalAssumption ==
    /\ JournalKinds \subseteq {"jbd2", "other"} /\ S_maxlen \in Nat \ {0} /\ MaxTags \in Nat
    /\ MaxTx \in Nat /\ MaxWrites \in Nat /\ Faults \in BOOLEAN
ASSUME BlocksAssumption == IsFiniteSet(Blocks) /\ \A t \in Threads : BlocksOf(t) \subseteq Blocks
ASSUME WordsAssumption ==
    /\ Data # {} /\ {Magic, Escaped} \cap Data = {} /\ Magic # Escaped
    /\ Writes \subseteq {1, 2} \X (Data \union {Magic})

Word == Data \union {Magic, Escaped}
BlockData == [{1, 2} -> Word]
TxId == 1 .. MaxTx
Raw == 0                    \* fs.dev is the device itself

VARIABLES
    home,       \* the file system blocks on the device
    journal,    \* the journal's blocks 1 .. S_maxlen - 1
    jsb,        \* journal superblock: its kind, S_start and S_sequence
    dev,        \* fs.dev: Raw, or the transaction whose TxDevice it is
    dirty,      \* Tx.dirty of every transaction ever begun
    ntx,        \* transactions begun
    txMu,       \* the holder of fs.txMu, a set of at most one thread
    op,         \* the operation each thread is in
    (* history, not in the program *)
    wrote,      \* the words the last operation of each thread wrote, by <<block, word>>
    before,     \* home when the last operation began
    outcome     \* how each thread's last operation ended

vars == <<home, journal, jsb, dev, dirty, ntx, txMu, op, wrote, before, outcome>>

Blank == [type |-> "blank"]
Idle == [pc |-> "idle"]
NoBlocks == [b \in {} |-> [i \in {1, 2} |-> Magic]]

-----------------------------------------------------------------------------
(* TxDevice *)

\* TxDevice.ReadAt that forgets the transaction's copy (faulty).
ReadAtDevice(d, b) == home[b]

\* TxDevice.ReadAt: the device's block with the transaction's copy over it.
ReadAt(d, b) == IF d # Raw /\ b \in DOMAIN dirty[d] THEN dirty[d][b] ELSE home[b]

\* TxDevice.WriteAt: the block is read from the device on its first change.
WriteAt(dm, b, i, w) ==
    [c \in DOMAIN dm \union {b} |->
        IF c # b THEN dm[c]
        ELSE [(IF b \in DOMAIN dm THEN dm[b] ELSE home[b]) EXCEPT ![i] = w]]

\* Escape that forgets to change the block.
EscapeNot(blk) == blk

\* A data block as it is written to the journal.
Escape(blk) == IF blk[1] = Magic THEN [blk EXCEPT ![1] = Escaped] ELSE blk

-----------------------------------------------------------------------------
\* The journal position a commit starts at ...
FirstPos == IF jsb.start = 0 \/ jsb.start > S_maxlen THEN 1 ELSE jsb.start

\* ... and the one after p.  S_maxlen itself is taken for a position.
NextPos(p) == IF p + 1 > S_maxlen THEN 1 ELSE p + 1

\* findPhysicalBlock on the extents of the journal inode.
HasBlock(p) == p \in 1 .. S_maxlen - 1

Init ==
    /\ home \in [Blocks -> {[i \in {1, 2} |-> CHOOSE d \in Data : TRUE]}]
    /\ journal = [p \in 1 .. S_maxlen - 1 |-> Blank]
    /\ jsb \in {[kind |-> k, start |-> 0, sequence |-> 1] : k \in JournalKinds}
    /\ dev = Raw /\ ntx = 0 /\ txMu = {}
    /\ dirty = [x \in TxId |-> NoBlocks]
    /\ op = [t \in Threads |-> Idle]
    /\ wrote = [t \in Threads |-> <<>>]
    /\ before = home
    /\ outcome = [t \in Threads |-> "none"]

DeviceUnchanged == UNCHANGED <<home, journal, jsb>>
HistoryUnchanged == UNCHANGED <<wrote, before, outcome>>

Return(t, how) ==
    /\ op' = [op EXCEPT ![t] = Idle]
    /\ outcome' = [outcome EXCEPT ![t] = how]

-----------------------------------------------------------------------------
(* The body of an operation *)

\* BeginTransaction: an operation that finds a TxDevice in place joins it.
BeginTransaction(t) ==
    /\ op[t].pc = "idle" /\ txMu = {}
    /\ IF dev # Raw THEN UNCHANGED <<dev, dirty, ntx>>
       ELSE /\ ntx < MaxTx
            /\ ntx' = ntx + 1 /\ dev' = ntx + 1
            /\ UNCHANGED dirty
    /\ op' = [op EXCEPT ![t] = [pc |-> "body", n |-> 0]]
    /\ wrote' = [wrote EXCEPT ![t] = <<>>]
    /\ before' = home
    /\ UNCHANGED <<txMu, outcome>> /\ DeviceUnchanged

\* The operation has taken the device from fs.dev to call its WriteAt.
TakeDevice(t, b, i, w) ==
    /\ op[t].pc = "body" /\ op[t].n < MaxWrites
    /\ op' = [op EXCEPT ![t] = [pc |-> "write", n |-> op[t].n + 1, on |-> dev,
                                b |-> b, i |-> i, w |-> w]]
    /\ UNCHANGED <<dev, dirty, ntx, txMu>> /\ DeviceUnchanged /\ HistoryUnchanged

\* The history of an operation that wrote, after it writes word i of block b.
Noted(ws, b, i, w) ==
    [x \in DOMAIN ws \union {<<b, i>>} |-> IF x = <<b, i>> THEN w ELSE ws[x]]

\* WriteAt of a TxDevice that hands the write on to the device (faulty).
DoWriteThrough(t) ==
    /\ op[t].pc = "write"
    /\ LET o == op[t] IN
        /\ home' = [home EXCEPT ![o.b][o.i] = o.w]
        /\ wrote' = [wrote EXCEPT ![t] = Noted(@, o.b, o.i, o.w)]
        /\ op' = [op EXCEPT ![t] = [pc |-> "body", n |-> o.n]]
    /\ UNCHANGED <<journal, jsb, dev, dirty, ntx, txMu, before, outcome>>

\* Thread t is inside CommitTransaction.
Committing(t) == op[t].pc \in {"descriptor", "data", "jsb", "writeback"}

\* WriteAt on that device.  On a TxDevice it waits for a commit of the same
\* transaction to end (Tx.mu).
DoWrite(t) ==
    /\ op[t].pc = "write"
    /\ LET o == op[t] IN
        /\ IF o.on = Raw
           THEN /\ home' = [home EXCEPT ![o.b][o.i] = o.w]
                /\ UNCHANGED dirty
           ELSE /\ \A s \in Threads : Committing(s) => op[s].tx # o.on
                /\ dirty' = [dirty EXCEPT ![o.on] = WriteAt(@, o.b, o.i, o.w)]
                /\ UNCHANGED home
        /\ wrote' = [wrote EXCEPT ![t] = Noted(@, o.b, o.i, o.w)]
        /\ op' = [op EXCEPT ![t] = [pc |-> "body", n |-> o.n]]
    /\ UNCHANGED <<journal, jsb, dev, ntx, txMu, before, outcome>>

\* RollbackTransaction: the operation failed; the TxDevice is taken off.
RollbackTransaction(t) ==
    /\ op[t].pc = "body" /\ txMu = {}
    /\ dev' = Raw
    /\ Return(t, "error")
    /\ UNCHANGED <<dirty, ntx, txMu, wrote, before>> /\ DeviceUnchanged

-----------------------------------------------------------------------------
(* CommitTransaction: with fs.txMu held to the end *)

\* The blocks a commit of fs.dev would write.
DirtyBlocks == IF dev = Raw THEN {} ELSE DOMAIN dirty[dev]

\* Nothing to commit: no transaction (another thread ended it), or no writes.
CommitEmpty(t) ==
    /\ op[t].pc = "body" /\ txMu = {}
    /\ DirtyBlocks = {}
    /\ dev' = Raw
    /\ Return(t, "ok")
    /\ UNCHANGED <<dirty, ntx, txMu, wrote, before>> /\ DeviceUnchanged

\* The device is put back first.  Without a usable journal the dirty blocks
\* are written in place at once.
CommitDirect(t) ==
    /\ op[t].pc = "body" /\ txMu = {} /\ jsb.kind = "other"
    /\ DirtyBlocks # {}
    /\ dev' = Raw /\ txMu' = {t}
    /\ op' = [op EXCEPT ![t] = [pc |-> "writeback", tx |-> dev, left |-> DirtyBlocks]]
    /\ UNCHANGED <<dirty, ntx>> /\ DeviceUnchanged /\ HistoryUnchanged

\* The dirty blocks are laid out in the map's iteration order, any order.
CommitJournal(t, order) ==
    /\ op[t].pc = "body" /\ txMu = {} /\ jsb.kind = "jbd2"
    /\ DirtyBlocks # {}
    /\ dev' = Raw /\ txMu' = {t}
    /\ op' = [op EXCEPT ![t] = [pc |-> "descriptor", tx |-> dev, order |-> order,
                                pos |-> FirstPos]]
    /\ UNCHANGED <<dirty, ntx>> /\ DeviceUnchanged /\ HistoryUnchanged

\* Record r goes to the position of t's commit, which goes on as the record next.
WriteRecord(t, r, next) ==
    /\ HasBlock(op[t].pos)
    /\ journal' = [journal EXCEPT ![op[t].pos] = r]
    /\ op' = [op EXCEPT ![t] = next]
    /\ UNCHANGED <<home, jsb, dev, dirty, ntx, txMu>> /\ HistoryUnchanged

WriteDescriptor(t) ==
    /\ op[t].pc = "descriptor" /\ Len(op[t].order) <= MaxTags
    /\ LET o == op[t]
           tag(k) == [block |-> o.order[k], esc |-> dirty[o.tx][o.order[k]][1] = Magic]
       IN  WriteRecord(t, [type |-> "descriptor", sequence |-> jsb.sequence,
                           tags |-> [k \in 1 .. Len(o.order) |-> tag(k)]],
                       [pc |-> "data", tx |-> o.tx, order |-> o.order, k |-> 1,
                        first |-> o.pos, pos |-> NextPos(o.pos)])

WriteData(t) ==
    /\ op[t].pc = "data" /\ op[t].k <= Len(op[t].order)
    /\ LET o == op[t] IN
           WriteRecord(t, [type |-> "data", data |-> Escape(dirty[o.tx][o.order[o.k]])],
                       [o EXCEPT !.k = @ + 1, !.pos = NextPos(@)])

WriteCommitBlock(t) ==
    /\ op[t].pc = "data" /\ op[t].k > Len(op[t].order)
    /\ LET o == op[t] IN
           WriteRecord(t, [type |-> "commit", sequence |-> jsb.sequence],
                       [pc |-> "jsb", tx |-> o.tx, first |-> o.first, pos |-> o.pos])

\* The journal superblock moves past the transaction before its blocks are in
\* place.
WriteJournalSuper(t) ==
    /\ op[t].pc = "jsb"
    /\ jsb' = [jsb EXCEPT !.start = NextPos(op[t].pos), !.sequence = @ + 1]
    /\ op' = [op EXCEPT ![t] = [pc |-> "writeback", tx |-> op[t].tx, first |-> op[t].first,
                                left |-> DOMAIN dirty[op[t].tx]]]
    /\ UNCHANGED <<home, journal, dev, dirty, ntx, txMu>> /\ HistoryUnchanged

\* writeDirtyBlocksDirectly that leaves out the last block of the map.
WriteBackShort(t, b) ==
    /\ op[t].pc = "writeback" /\ b \in op[t].left
    /\ home' = [home EXCEPT ![b] = IF op[t].left = {b} THEN @ ELSE dirty[op[t].tx][b]]
    /\ IF op[t].left = {b}
       THEN txMu' = {} /\ Return(t, "ok")
       ELSE /\ op' = [op EXCEPT ![t].left = @ \ {b}]
            /\ UNCHANGED <<txMu, outcome>>
    /\ UNCHANGED <<journal, jsb, dev, dirty, ntx, wrote, before>>

\* writeDirtyBlocksDirectly, again in any order; the last block ends the call.
WriteBack(t, b) ==
    /\ op[t].pc = "writeback" /\ b \in op[t].left
    /\ home' = [home EXCEPT ![b] = dirty[op[t].tx][b]]
    /\ IF op[t].left = {b}
       THEN txMu' = {} /\ Return(t, "ok")
       ELSE /\ op' = [op EXCEPT ![t].left = @ \ {b}]
            /\ UNCHANGED <<txMu, outcome>>
    /\ UNCHANGED <<journal, jsb, dev, dirty, ntx, wrote, before>>

\* The next journal position has no block: the operation fails with what was
\* written so far; the dirty blocks are dropped.
NoPhysicalBlock(t) ==
    /\ op[t].pc \in {"descriptor", "data"} /\ ~HasBlock(op[t].pos)
    /\ txMu' = {} /\ Return(t, "no journal block")
    /\ UNCHANGED <<dev, dirty, ntx, wrote, before>> /\ DeviceUnchanged

\* More tags than a descriptor block holds: the index out of range panics, and
\* the FUSE handler turns the panic into an error.
TooManyTags(t) ==
    /\ op[t].pc = "descriptor" /\ Len(op[t].order) > MaxTags
    /\ txMu' = {} /\ Return(t, "error")
    /\ UNCHANGED <<dev, dirty, ntx, wrote, before>> /\ DeviceUnchanged

\* A failing commit that returns with fs.txMu locked (faulty).
CommitFailsLocked(t) ==
    /\ Faults /\ Committing(t)
    /\ Return(t, IF op[t].pc = "writeback" THEN "torn" ELSE "error")
    /\ UNCHANGED <<dev, dirty, ntx, txMu, wrote, before>> /\ DeviceUnchanged

\* A device write of the commit fails.
CommitFails(t) ==
    /\ Faults /\ Committing(t)
    /\ txMu' = {}
    /\ Return(t, IF op[t].pc = "writeback" THEN "torn" ELSE "error")
    /\ UNCHANGED <<dev, dirty, ntx, wrote, before>> /\ DeviceUnchanged

\* The process dies and is started again; no mount replays the journal.  During the
\* write back it leaves the device torn.
Crash ==
    /\ \E t \in Threads : op[t].pc # "idle"
    /\ dev' = Raw /\ txMu' = {}
    /\ dirty' = [x \in TxId |-> NoBlocks]
    /\ op' = [t \in Threads |-> Idle]
    /\ outcome' = [t \in Threads |->
                    IF op[t].pc = "idle" THEN outcome[t]
                    ELSE IF op[t].pc = "writeback" THEN "torn" ELSE "crash"]
    /\ UNCHANGED <<ntx, wrote, before>> /\ DeviceUnchanged

-----------------------------------------------------------------------------
Body(t) ==
    \/ BeginTransaction(t)
    \/ \E b \in BlocksOf(t) : \E x \in Writes : TakeDevice(t, b, x[1], x[2])
    \/ DoWrite(t)
    \/ RollbackTransaction(t)

CommitTransaction(t) ==
    \/ CommitEmpty(t) \/ CommitDirect(t)
    \/ \E order \in SetToSeqs(DirtyBlocks) : CommitJournal(t, order)
    \/ WriteDescriptor(t) \/ WriteData(t) \/ WriteCommitBlock(t) \/ WriteJournalSuper(t)
    \/ \E b \in Blocks : WriteBack(t, b)
    \/ NoPhysicalBlock(t) \/ TooManyTags(t) \/ CommitFails(t)

\* Every transaction has been used up: the bound, not the program, stops here.
Exhausted ==
    /\ ntx = MaxTx /\ dev = Raw /\ \A t \in Threads : op[t] = Idle
    /\ UNCHANGED vars

Next == (\E t \in Threads : Body(t) \/ CommitTransaction(t)) \/ Crash \/ Exhausted

Spec == Init /\ [][Next]_vars

\* The operation t is in takes a step.  A thread that can go on does so: Go schedules
\* every goroutine, and its mutexes do not starve a waiter.
Step(t) == op[t].pc # "idle" /\ (Body(t) \/ CommitTransaction(t))

FairSpec == Spec /\ \A t \in Threads : WF_vars(Step(t))
-----------------------------------------------------------------------------
(* Properties *)

Records ==
    {Blank}
    \union [type : {"descriptor"}, sequence : Nat,
            tags : UNION {[1 .. n -> [block : Blocks, esc : BOOLEAN]] :
                            n \in 1 .. Cardinality(Blocks)}]
    \union [type : {"data"}, data : BlockData]
    \union [type : {"commit"}, sequence : Nat]

\* The type invariant, with the lock discipline: whoever commits holds fs.txMu,
\* and fs.dev is never the TxDevice of the transaction being committed.
TypeOK ==
    /\ home \in [Blocks -> BlockData] /\ before \in [Blocks -> BlockData]
    /\ DOMAIN journal = 1 .. S_maxlen - 1
    /\ \A p \in DOMAIN journal : journal[p] \in Records
    /\ jsb \in [kind : JournalKinds, start : 0 .. S_maxlen, sequence : Nat]
    /\ dev \in 0 .. ntx /\ ntx \in 0 .. MaxTx
    /\ \A x \in TxId : DOMAIN dirty[x] \subseteq Blocks /\ dirty[x] \in [DOMAIN dirty[x] -> BlockData]
    /\ txMu = {t \in Threads : Committing(t)} /\ Cardinality(txMu) <= 1
    /\ \A t \in txMu : op[t].tx \in 1 .. ntx /\ op[t].tx # dev

\* The operation of t sees its own writes through fs.dev, whatever blocks they
\* share (one thread).
ReadsOwnWrites ==
    \A t \in Threads : op[t].pc = "body" =>
        \A x \in DOMAIN wrote[t] : ReadAt(dev, x[1])[x[2]] = wrote[t][x]

\* What the last operation of t made of the device it began with.
Intended(t) ==
    [b \in Blocks |-> [i \in {1, 2} |->
        IF <<b, i>> \in DOMAIN wrote[t] THEN wrote[t][<<b, i>>] ELSE before[b][i]]]

\* An operation that reported success is on the device, every word of it and
\* nothing else, whether it went through the journal or not (one thread).
SuccessIsOnDevice ==
    \A t \in Threads : op[t] = Idle /\ outcome[t] = "ok" => home = Intended(t)

\* An operation that failed, or died with the process, has changed nothing, also when
\* its commit got as far as the journal.  Only the final write back may be cut short
\* (outcome "torn"), and then every block is the old one or the new one (one thread).
FailureLeavesDevice ==
    \A t \in Threads : op[t] = Idle =>
        /\ outcome[t] \in {"error", "no journal block", "crash"} => home = before
        /\ outcome[t] = "torn" => \A b \in Blocks : home[b] \in {before[b], Intended(t)[b]}

\* The block of a data record as a replay restores it.
Unescape(r, tag) == IF tag.esc THEN [r.data EXCEPT ![1] = Magic] ELSE r.data

\* The journal from position p on holds a complete transaction with the blocks d, and
\* the superblock stands behind it.
HoldsTransaction(p, d) ==
    /\ journal[p].type = "descriptor"
    /\ LET tags == journal[p].tags
           n == Len(tags)
       IN  /\ {tags[k].block : k \in 1 .. n} = DOMAIN d
           /\ \A k \in 1 .. n :
                /\ journal[p + k].type = "data"
                /\ journal[p + k].data[1] # Magic
                /\ Unescape(journal[p + k], tags[k]) = d[tags[k].block]
           /\ journal[p + n + 1] = [type |-> "commit", sequence |-> journal[p].sequence]
           /\ jsb.start = NextPos(p + n + 1) /\ jsb.sequence = journal[p].sequence + 1

\* Write-ahead: when a commit starts to write blocks in place, all of them are in
\* the journal between a descriptor and its commit block, no data block can be taken
\* for a record, and the journal superblock stands just behind the commit block.
\* Writes of other threads do not disturb that.
WriteAhead ==
    \A t \in Threads : jsb.kind = "jbd2" /\ op[t].pc = "writeback" =>
        HoldsTransaction(op[t].first, dirty[op[t].tx])

\* Every operation ends: whatever fails in a commit, and whichever thread ends the
\* transaction, the others are not left waiting for fs.txMu or Tx.mu.
OperationsEnd == \A t \in Threads : op[t].pc # "idle" ~> op[t].pc = "idle"
=============================================================================

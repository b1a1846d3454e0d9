-------------------------- MODULE TxJournal_proofs --------------------------
(***************************************************************************)
(* Theorems about the write transactions of vfs/journal_writer.go, for any *)
(* number of threads, blocks, words and transactions and a journal of any  *)
(* length.                                                                 *)
(***************************************************************************)
EXTENDS TxJournal, FiniteSetTheorems, TLAPS

-----------------------------------------------------------------------------
(* The inductive invariant *)

\* The sequence q goes through the set S, each element once or more.
Enumerates(q, S) ==
    /\ Len(q) \in 1 .. Cardinality(Blocks) /\ q \in [1 .. Len(q) -> S]
    /\ \A b \in S : \E k \in 1 .. Len(q) : q[k] = b

\* A map of dirty blocks.
IsDirtyMap(d) == DOMAIN d \subseteq Blocks /\ d \in [DOMAIN d -> BlockData]

\* The operation record o, with transactions of those begun.
OpShape(o) ==
    \/ o = Idle
    \/ o.pc = "body" /\ o = [pc |-> "body", n |-> o.n]
    \/ /\ o.pc = "write"
       /\ o = [pc |-> "write", n |-> o.n, on |-> o.on, b |-> o.b, i |-> o.i, w |-> o.w]
       /\ o.on \in 0 .. ntx /\ o.b \in Blocks /\ o.i \in {1, 2} /\ o.w \in Word
    \/ /\ o.pc = "descriptor"
       /\ o = [pc |-> "descriptor", tx |-> o.tx, order |-> o.order, pos |-> o.pos]
       /\ o.tx \in 1 .. ntx
    \/ /\ o.pc = "data"
       /\ o = [pc |-> "data", tx |-> o.tx, order |-> o.order, k |-> o.k,
               first |-> o.first, pos |-> o.pos]
       /\ o.tx \in 1 .. ntx
    \/ /\ o.pc = "jsb"
       /\ o = [pc |-> "jsb", tx |-> o.tx, first |-> o.first, pos |-> o.pos]
       /\ o.tx \in 1 .. ntx
    \/ /\ o.pc = "writeback"
       /\ \/ o = [pc |-> "writeback", tx |-> o.tx, left |-> o.left]
          \/ o = [pc |-> "writeback", tx |-> o.tx, first |-> o.first, left |-> o.left]
       /\ o.tx \in 1 .. ntx /\ o.left \subseteq DOMAIN dirty[o.tx]

\* The shape of the device, and of what is kept in memory.
DeviceShape ==
    /\ home \in [Blocks -> BlockData] /\ before \in [Blocks -> BlockData]
    /\ journal = [p \in 1 .. S_maxlen - 1 |-> journal[p]]
    /\ \A p \in 1 .. S_maxlen - 1 : journal[p] \in Records
    /\ jsb \in [kind : JournalKinds, start : 0 .. S_maxlen, sequence : Nat]

MemoryShape ==
    /\ ntx \in 0 .. MaxTx /\ dev \in 0 .. ntx
    /\ dirty = [x \in TxId |-> dirty[x]] /\ \A x \in TxId : IsDirtyMap(dirty[x])
    /\ op = [t \in Threads |-> op[t]] /\ \A t \in Threads : OpShape(op[t])

\* fs.txMu is held by the one thread that commits, whose TxDevice is off fs.dev.
LockInv ==
    /\ txMu = {t \in Threads : Committing(t)}
    /\ \A s, t \in txMu : s = t
    /\ \A t \in txMu : op[t].tx # dev

\* In journal j the descriptor of transaction seq with the blocks d is at p, with n tags.
HasDescriptor(j, seq, p, d, n) ==
    /\ p \in 1 .. S_maxlen - 1 /\ n \in 1 .. Cardinality(Blocks)
    /\ LET tags == j[p].tags IN
        /\ j[p] = [type |-> "descriptor", sequence |-> seq, tags |-> tags]
        /\ tags \in [1 .. n -> [block : Blocks, esc : BOOLEAN]]
        /\ \A b \in DOMAIN d : \E k \in 1 .. n : tags[k].block = b
        /\ \A k \in 1 .. n : /\ tags[k].block \in DOMAIN d
                             /\ tags[k].esc <=> d[tags[k].block][1] = Magic

\* The first m data records behind it are there.
HasData(j, p, d, m) ==
    \A k \in 1 .. m : j[p + k] = [type |-> "data", data |-> Escape(d[j[p].tags[k].block])]

\* How far the commit of t is: what the journal holds at each of its steps.
CommitStage(t) ==
    LET o == op[t]
        d == dirty[o.tx]
    IN  /\ o.pc = "descriptor" => o.pos \in 1 .. S_maxlen /\ Enumerates(o.order, DOMAIN d)
        /\ o.pc = "data" =>
              LET n == Len(o.order) IN
                /\ Enumerates(o.order, DOMAIN d)
                /\ o.k \in 1 .. n + 1 /\ o.pos = o.first + o.k /\ o.pos <= S_maxlen
                /\ HasDescriptor(journal, jsb.sequence, o.first, d, n) /\ HasData(journal, o.first, d, o.k - 1)
                /\ \A k \in 1 .. n : journal[o.first].tags[k].block = o.order[k]
        /\ o.pc = "jsb" =>
              \E n \in 1 .. Cardinality(Blocks) :
                /\ o.pos = o.first + n + 1 /\ o.pos <= S_maxlen - 1
                /\ HasDescriptor(journal, jsb.sequence, o.first, d, n) /\ HasData(journal, o.first, d, n)
                /\ journal[o.pos] = [type |-> "commit", sequence |-> jsb.sequence]
        /\ o.pc = "writeback" /\ jsb.kind = "jbd2" => HoldsTransaction(o.first, d)

CommitInv == \A t \in Threads : CommitStage(t)

JournalInv == DeviceShape /\ MemoryShape /\ LockInv /\ CommitInv

-----------------------------------------------------------------------------
(* Facts about the operators *)

\* Cardinality(Blocks) and the journal's length are natural numbers.
LEMMA Sizes ==
    /\ Cardinality(Blocks) \in Nat
    /\ S_maxlen \in Nat /\ S_maxlen >= 1 /\ MaxTx \in Nat
  BY FS_CardinalityType, BlocksAssumption, JournalAssumption

\* The iteration over a map of dirty blocks meets every one of them.
LEMMA OrderEnumerates ==
    ASSUME NEW S \in SUBSET Blocks, S # {}, NEW order \in SetToSeqs(S)
    PROVE  Enumerates(order, S)
  <1> DEFINE n == Cardinality(S)
  <1>1. IsFiniteSet(S) /\ n \in Nat /\ n <= Cardinality(Blocks)
    BY BlocksAssumption, FS_Subset, FS_CardinalityType
  <1>2. n # 0
    BY <1>1, FS_EmptySet
  <1>3. order \in [1 .. n -> S] /\ \A i, j \in 1 .. n : i # j => order[i] # order[j]
    BY DEF SetToSeqs
  <1>4. order \in Injection(1 .. n, S)
    BY <1>3 DEF Injection, IsInjective
  <1>5. IsFiniteSet(1 .. n) /\ Cardinality(1 .. n) = n
    BY <1>1, FS_Interval
  <1>6. order \in Surjection(1 .. n, S)
    BY <1>1, <1>4, <1>5, FS_Injection
  <1>7. \A b \in S : \E k \in 1 .. n : order[k] = b
    BY <1>6 DEF Surjection
  <1>8. Len(order) = n
    BY <1>1, <1>3
  <1> HIDE DEF n
  <1> QED
    BY <1>1, <1>2, <1>3, <1>7, <1>8, Sizes DEF Enumerates

\* A block of the journal is never taken for a record, and a replay gets it back.
LEMMA EscapeInverts ==
    ASSUME NEW blk \in BlockData
    PROVE  /\ Escape(blk) \in BlockData /\ Escape(blk)[1] # Magic
           /\ blk[1] = Magic => [Escape(blk) EXCEPT ![1] = Magic] = blk
           /\ blk[1] # Magic => Escape(blk) = blk
  BY WordsAssumption DEF Escape, BlockData, Word

\* A write keeps a map of dirty blocks one.
LEMMA WriteKeepsMap ==
    ASSUME home \in [Blocks -> BlockData], NEW d, IsDirtyMap(d),
           NEW b \in Blocks, NEW i \in {1, 2}, NEW w \in Word
    PROVE  IsDirtyMap(WriteAt(d, b, i, w))
  <1> DEFINE old == IF b \in DOMAIN d THEN d[b] ELSE home[b]
  <1>1. old \in BlockData
    BY DEF IsDirtyMap
  <1>2. [old EXCEPT ![i] = w] \in BlockData
    BY <1>1 DEF BlockData
  <1> HIDE DEF old
  <1> DEFINE e == WriteAt(d, b, i, w)
  <1>3. e = [c \in DOMAIN d \union {b} |-> IF c # b THEN d[c] ELSE [old EXCEPT ![i] = w]]
    BY DEF WriteAt, old
  <1>4. DOMAIN e = DOMAIN d \union {b} /\ \A c \in DOMAIN e : e[c] \in BlockData
    BY <1>2, <1>3 DEF IsDirtyMap
  <1>5. e = [c \in DOMAIN e |-> e[c]]
    BY <1>3, <1>4
  <1> HIDE DEF e
  <1> QED
    BY <1>4, <1>5 DEF IsDirtyMap, e

\* The journal position of a commit, and the one after it.
LEMMA Positions ==
    ASSUME DeviceShape
    PROVE  /\ FirstPos \in 1 .. S_maxlen
           /\ \A p \in 1 .. S_maxlen : NextPos(p) \in 1 .. S_maxlen
           /\ \A p \in 1 .. S_maxlen - 1 : NextPos(p) = p + 1
  BY Sizes DEF DeviceShape, FirstPos, NextPos

-----------------------------------------------------------------------------
(* Initially *)

LEMMA InitHolds ==
    ASSUME Init
    PROVE  JournalInv
  <1>1. (CHOOSE d \in Data : TRUE) \in Word
    BY WordsAssumption DEF Word
  <1>2. [i \in {1, 2} |-> CHOOSE d \in Data : TRUE] \in BlockData
    BY <1>1 DEF BlockData
  <1>3. home \in [Blocks -> BlockData] /\ before = home
    BY <1>2 DEF Init
  <1>4. DeviceShape
    <2>1. jsb \in [kind : JournalKinds, start : 0 .. S_maxlen, sequence : Nat]
      BY Sizes DEF Init
    <2>2. \A p \in 1 .. S_maxlen - 1 : journal[p] \in Records
      BY DEF Init, Records
    <2> QED
      BY <1>3, <2>1, <2>2 DEF Init, DeviceShape
  <1>5. \A t \in Threads : op[t] = Idle /\ ~Committing(t)
    BY DEF Init, Idle, Committing
  <1>6. MemoryShape
    <2>1. IsDirtyMap(NoBlocks)
      BY DEF IsDirtyMap, NoBlocks
    <2> QED
      BY <2>1, <1>5, Sizes DEF Init, MemoryShape, OpShape, Raw
  <1>7. LockInv
    BY <1>5 DEF Init, LockInv
  <1>8. CommitInv
    BY <1>5 DEF CommitInv, CommitStage, Idle
  <1> QED
    BY <1>4, <1>6, <1>7, <1>8 DEF JournalInv

-----------------------------------------------------------------------------
(* What a step of one thread leaves alone *)

\* Thread t goes on with the record v, the others stay where they are.
LEMMA ThreadStep ==
    ASSUME MemoryShape, NEW t \in Threads, NEW v, op' = [op EXCEPT ![t] = v]
    PROVE  /\ op' = [s \in Threads |-> op'[s]] /\ op'[t] = v
           /\ \A s \in Threads \ {t} : op'[s] = op[s]
  <1>1. op = [s \in Threads |-> op[s]]
    BY DEF MemoryShape
  <1> QED
    BY <1>1

\* A step of t, during which no other thread commits or journal and transaction of
\* the one that does are left alone.
OthersKept(t) ==
    /\ op' = [s \in Threads |-> op'[s]]
    /\ \A s \in Threads \ {t} : op'[s] = op[s]
    /\ ntx' \in 0 .. MaxTx /\ ntx <= ntx'
    /\ \A s \in Threads \ {t} : Committing(s) =>
          UNCHANGED <<journal, jsb>> /\ dirty'[op[s].tx] = dirty[op[s].tx]

\* It keeps the invariant of the others.
LEMMA OthersStay ==
    ASSUME JournalInv, NEW t \in Threads, OthersKept(t), NEW s \in Threads \ {t}
    PROVE  OpShape(op[s])' /\ CommitStage(s)'
  <1>1. OpShape(op[s]) /\ CommitStage(s) /\ ntx \in Nat
    BY Sizes DEF JournalInv, MemoryShape, CommitInv
  <1>2. op'[s] = op[s] /\ ntx' \in Nat /\ ntx <= ntx'
    BY Sizes DEF OthersKept
  <1>3. CASE Committing(s)
    <2>1. UNCHANGED <<journal, jsb>> /\ dirty'[op[s].tx] = dirty[op[s].tx]
      BY <1>3 DEF OthersKept
    <2>2. OpShape(op[s])'
      BY <1>1, <1>2, <2>1 DEF OpShape, Idle
    <2>3. dirty[op[s].tx]' = dirty[op[s].tx]
      BY <1>2, <2>1
    <2>4. HoldsTransaction(op[s].first, dirty[op[s].tx])
            <=> HoldsTransaction(op[s].first, dirty[op[s].tx])'
      BY <1>2, <2>1, <2>3 DEF HoldsTransaction
    <2>5. CommitStage(s)'
      BY <1>1, <1>2, <2>1, <2>3, <2>4 DEF CommitStage
    <2> QED
      BY <2>2, <2>5
  <1>4. CASE ~Committing(s)
    <2>1. op[s].pc \notin {"descriptor", "data", "jsb", "writeback"}
      BY <1>4 DEF Committing
    <2>2. OpShape(op[s])'
      BY <1>1, <1>2, <2>1 DEF OpShape, Idle
    <2>3. CommitStage(s)'
      BY <1>2, <2>1 DEF CommitStage
    <2> QED
      BY <2>2, <2>3
  <1> QED
    BY <1>3, <1>4

\* What is left to show of a step of t.
LEMMA StepKeepsInv ==
    ASSUME JournalInv, NEW t \in Threads, OthersKept(t), DeviceShape', LockInv',
           dev' \in 0 .. ntx', dirty' = [x \in TxId |-> dirty'[x]],
           \A x \in TxId : IsDirtyMap(dirty[x])',
           OpShape(op[t])', CommitStage(t)'
    PROVE  JournalInv'
  <1>1. \A s \in Threads : OpShape(op[s])' /\ CommitStage(s)'
    BY OthersStay
  <1>2. MemoryShape'
    BY <1>1 DEF MemoryShape, OthersKept
  <1>3. CommitInv'
    BY <1>1 DEF CommitInv
  <1> QED
    BY <1>2, <1>3 DEF JournalInv

\* While t commits, no other thread does.
LEMMA Exclusive ==
    ASSUME LockInv, NEW t \in Threads, Committing(t)
    PROVE  txMu = {t} /\ \A s \in Threads \ {t} : ~Committing(s)
  BY DEF LockInv

\* While fs.txMu is free, nobody commits.
LEMMA Free ==
    ASSUME LockInv, txMu = {}
    PROVE  \A s \in Threads : ~Committing(s)
  BY DEF LockInv

\* fs.txMu at a step of t: it stays as it is, ...
LEMMA LockStays ==
    ASSUME LockInv, NEW t \in Threads, \A s \in Threads \ {t} : op'[s] = op[s],
           UNCHANGED txMu,
           Committing(t)' <=> Committing(t), Committing(t) => op'[t].tx = op[t].tx,
           \A s \in txMu : op[s].tx # dev'
    PROVE  LockInv'
  <1>1. \A s \in Threads : Committing(s)' <=> Committing(s)
    BY DEF Committing
  <1>2. txMu' = {s \in Threads : Committing(s)'}
    BY <1>1 DEF LockInv
  <1>3. \A s \in txMu : op'[s].tx = op[s].tx
    BY DEF LockInv
  <1> QED
    BY <1>2, <1>3 DEF LockInv

\* ... is taken, ...
LEMMA LockTaken ==
    ASSUME LockInv, NEW t \in Threads, \A s \in Threads \ {t} : op'[s] = op[s],
           txMu = {}, txMu' = {t}, Committing(t)', op'[t].tx # dev'
    PROVE  LockInv'
  <1>1. \A s \in Threads : Committing(s)' <=> s = t
    BY Free DEF Committing
  <1> QED
    BY <1>1 DEF LockInv

\* ... or given back.
LEMMA LockReleased ==
    ASSUME LockInv, NEW t \in Threads, \A s \in Threads \ {t} : op'[s] = op[s],
           Committing(t), txMu' = {}, ~Committing(t)'
    PROVE  LockInv'
  <1>1. \A s \in Threads : ~Committing(s)'
    BY Exclusive DEF Committing
  <1> QED
    BY <1>1 DEF LockInv

-----------------------------------------------------------------------------
(* The body of an operation *)

LEMMA BeginKeeps ==
    ASSUME JournalInv, NEW t \in Threads, BeginTransaction(t)
    PROVE  JournalInv'
  <1> USE DEF JournalInv
  <1> DEFINE v == [pc |-> "body", n |-> 0]
  <1>1. op'[t] = v /\ op' = [s \in Threads |-> op'[s]] /\ \A s \in Threads \ {t} : op'[s] = op[s]
    BY ThreadStep DEF BeginTransaction
  <1>2. ntx' \in 0 .. MaxTx /\ ntx <= ntx' /\ dev' \in 0 .. ntx'
    BY Sizes DEF BeginTransaction, MemoryShape
  <1>3. UNCHANGED <<home, journal, jsb, dirty, txMu>> /\ before' = home
    BY DEF BeginTransaction, DeviceUnchanged
  <1>4. OthersKept(t)
    BY <1>1, <1>2, <1>3 DEF OthersKept
  <1>5. DeviceShape'
    BY <1>3 DEF DeviceShape
  <1>6. ~Committing(t) /\ ~Committing(t)' /\ txMu = {}
    BY <1>1 DEF BeginTransaction, Committing
  <1>7. LockInv'
    BY <1>1, <1>3, <1>6, LockStays
  <1>8. OpShape(op[t])' /\ CommitStage(t)'
    BY <1>1 DEF OpShape, CommitStage
  <1>9. dirty' = [x \in TxId |-> dirty'[x]] /\ \A x \in TxId : IsDirtyMap(dirty[x])'
    BY <1>3 DEF MemoryShape, IsDirtyMap
  <1> HIDE DEF v, JournalInv
  <1> QED
    BY <1>2, <1>4, <1>5, <1>7, <1>8, <1>9, StepKeepsInv

LEMMA TakeKeeps ==
    ASSUME JournalInv, NEW t \in Threads, NEW b \in BlocksOf(t), NEW x \in Writes,
           TakeDevice(t, b, x[1], x[2])
    PROVE  JournalInv'
  <1> USE DEF JournalInv
  <1> DEFINE v == [pc |-> "write", n |-> op[t].n + 1, on |-> dev, b |-> b, i |-> x[1], w |-> x[2]]
  <1>1. op'[t] = v /\ op' = [s \in Threads |-> op'[s]] /\ \A s \in Threads \ {t} : op'[s] = op[s]
    BY ThreadStep DEF TakeDevice
  <1>2. UNCHANGED <<home, journal, jsb, dev, dirty, ntx, txMu, before>>
    BY DEF TakeDevice, DeviceUnchanged, HistoryUnchanged
  <1>3. OthersKept(t)
    BY <1>1, <1>2, Sizes DEF OthersKept, MemoryShape
  <1>4. DeviceShape'
    BY <1>2 DEF DeviceShape
  <1>5. ~Committing(t) /\ ~Committing(t)'
    BY <1>1 DEF TakeDevice, Committing
  <1>6. LockInv'
    <2>1. \A s \in txMu : op[s].tx # dev'
      BY <1>2 DEF LockInv
    <2> QED
      BY <1>1, <1>2, <1>5, <2>1, LockStays
  <1>7. b \in Blocks /\ x[1] \in {1, 2} /\ x[2] \in Word
    BY BlocksAssumption, WordsAssumption DEF Word
  <1>8. dev' \in 0 .. ntx'
    BY <1>2 DEF MemoryShape
  <1>9. OpShape(op[t])' /\ CommitStage(t)'
    BY <1>1, <1>2, <1>7, <1>8 DEF OpShape, CommitStage
  <1>10. dirty' = [y \in TxId |-> dirty'[y]] /\ \A y \in TxId : IsDirtyMap(dirty[y])'
    BY <1>2 DEF MemoryShape, IsDirtyMap
  <1> HIDE DEF v, JournalInv
  <1> QED
    BY <1>3, <1>4, <1>6, <1>8, <1>9, <1>10, StepKeepsInv

LEMMA WriteKeeps ==
    ASSUME JournalInv, NEW t \in Threads, DoWrite(t)
    PROVE  JournalInv'
  <1> USE DEF JournalInv
  <1> DEFINE o == op[t]
  <1>0. o.on \in 0 .. ntx /\ o.b \in Blocks /\ o.i \in {1, 2} /\ o.w \in Word
    BY DEF DoWrite, MemoryShape, OpShape, Idle
  <1>1. op'[t] = [pc |-> "body", n |-> o.n] /\ op' = [s \in Threads |-> op'[s]]
        /\ \A s \in Threads \ {t} : op'[s] = op[s]
    BY ThreadStep DEF DoWrite
  <1>2. UNCHANGED <<journal, jsb, dev, ntx, txMu, before>>
    BY DEF DoWrite
  <1>3. ~Committing(t) /\ ~Committing(t)'
    BY <1>1 DEF DoWrite, Committing
  <1>4. LockInv'
    <2>1. \A s \in txMu : op[s].tx # dev'
      BY <1>2 DEF LockInv
    <2> QED
      BY <1>1, <1>2, <1>3, <2>1, LockStays
  <1>5. OpShape(op[t])' /\ CommitStage(t)'
    BY <1>1 DEF OpShape, CommitStage
  <1>6. ntx' \in 0 .. MaxTx /\ ntx <= ntx' /\ dev' \in 0 .. ntx'
    BY <1>2, Sizes DEF MemoryShape
  <1>7. CASE o.on = Raw
    <2>1. home' = [home EXCEPT ![o.b][o.i] = o.w] /\ UNCHANGED dirty
      BY <1>7 DEF DoWrite
    <2>2. home' \in [Blocks -> BlockData]
      BY <1>0, <2>1 DEF DeviceShape, BlockData
    <2>3. DeviceShape'
      BY <1>2, <2>2 DEF DeviceShape
    <2>4. OthersKept(t)
      BY <1>1, <1>2, <1>6, <2>1 DEF OthersKept
    <2>5. dirty' = [x \in TxId |-> dirty'[x]] /\ \A x \in TxId : IsDirtyMap(dirty[x])'
      BY <2>1 DEF MemoryShape, IsDirtyMap
    <2> HIDE DEF JournalInv, o
    <2> QED
      BY <1>4, <1>5, <1>6, <2>3, <2>4, <2>5, StepKeepsInv
  <1>8. CASE o.on # Raw
    <2>1. /\ \A s \in Threads : Committing(s) => op[s].tx # o.on
          /\ dirty' = [dirty EXCEPT ![o.on] = WriteAt(@, o.b, o.i, o.w)]
          /\ UNCHANGED home
      BY <1>8 DEF DoWrite
    <2>2. o.on \in TxId
      BY <1>0, <1>8, Sizes DEF MemoryShape, TxId, Raw
    <2>3. DeviceShape'
      BY <1>2, <2>1 DEF DeviceShape
    <2>4. dirty = [x \in TxId |-> dirty[x]] /\ \A x \in TxId : IsDirtyMap(dirty[x])
      BY DEF MemoryShape
    <2>5. dirty' = [x \in TxId |-> dirty'[x]] /\ dirty'[o.on] = WriteAt(dirty[o.on], o.b, o.i, o.w)
          /\ \A x \in TxId \ {o.on} : dirty'[x] = dirty[x]
      BY <2>1, <2>2, <2>4
    <2>6. IsDirtyMap(WriteAt(dirty[o.on], o.b, o.i, o.w))
      BY <1>0, <2>2, <2>4, WriteKeepsMap DEF DeviceShape
    <2>7. \A x \in TxId : IsDirtyMap(dirty[x])'
      BY <2>4, <2>5, <2>6 DEF IsDirtyMap
    <2>8. \A s \in Threads : Committing(s) => op[s].tx \in TxId
      BY Sizes DEF MemoryShape, OpShape, Committing, Idle, TxId
    <2>9. OthersKept(t)
      BY <1>1, <1>2, <1>6, <2>1, <2>5, <2>8 DEF OthersKept
    <2> HIDE DEF JournalInv, o
    <2> QED
      BY <1>4, <1>5, <1>6, <2>3, <2>5, <2>7, <2>9, StepKeepsInv
  <1> QED
    BY <1>7, <1>8

-----------------------------------------------------------------------------
(* The end of an operation, and its commit *)

\* The operation of t returns, with or without having held fs.txMu.
LEMMA ReturnKeeps ==
    ASSUME JournalInv, NEW t \in Threads, op' = [op EXCEPT ![t] = Idle],
           UNCHANGED <<journal, jsb, dirty, ntx, before>>,
           home' \in [Blocks -> BlockData], dev' \in {dev, Raw},
           Committing(t) \/ txMu = {}, txMu' = {}
    PROVE  JournalInv'
  <1> USE DEF JournalInv
  <1>1. op'[t] = Idle /\ op' = [s \in Threads |-> op'[s]] /\ \A s \in Threads \ {t} : op'[s] = op[s]
    BY ThreadStep
  <1>2. OthersKept(t)
    BY <1>1, Sizes DEF OthersKept, MemoryShape
  <1>3. DeviceShape'
    BY DEF DeviceShape
  <1>4. ~Committing(t)'
    BY <1>1 DEF Committing, Idle
  <1>5. LockInv'
    <2>1. \A s \in Threads : ~Committing(s)'
      BY <1>1, <1>4, Exclusive, Free DEF Committing
    <2> QED
      BY <2>1 DEF LockInv
  <1>6. OpShape(op[t])' /\ CommitStage(t)'
    BY <1>1 DEF OpShape, CommitStage, Idle
  <1>7. dev' \in 0 .. ntx'
    BY Sizes DEF MemoryShape, Raw
  <1>8. dirty' = [y \in TxId |-> dirty'[y]] /\ \A y \in TxId : IsDirtyMap(dirty[y])'
    BY DEF MemoryShape, IsDirtyMap
  <1> HIDE DEF JournalInv
  <1> QED
    BY <1>2, <1>3, <1>5, <1>6, <1>7, <1>8, StepKeepsInv

\* A commit starts: the device is put back and fs.txMu taken.
LEMMA StartKeeps ==
    ASSUME JournalInv, NEW t \in Threads, NEW v, op' = [op EXCEPT ![t] = v],
           v.pc \in {"descriptor", "writeback"}, v.tx = dev, dev # Raw,
           UNCHANGED <<home, journal, jsb, dirty, ntx, before>>,
           dev' = Raw, txMu = {}, txMu' = {t}, OpShape(v), CommitStage(t)'
    PROVE  JournalInv'
  <1> USE DEF JournalInv
  <1>1. op'[t] = v /\ op' = [s \in Threads |-> op'[s]] /\ \A s \in Threads \ {t} : op'[s] = op[s]
    BY ThreadStep
  <1>2. OthersKept(t)
    BY <1>1, Sizes DEF OthersKept, MemoryShape
  <1>3. DeviceShape'
    BY DEF DeviceShape
  <1>4. LockInv'
    <2>1. Committing(t)' /\ op'[t].tx # dev'
      BY <1>1 DEF Committing
    <2> QED
      BY <1>1, <2>1, LockTaken
  <1>5. OpShape(op[t])'
    BY <1>1 DEF OpShape
  <1>6. dev' \in 0 .. ntx'
    BY Sizes DEF MemoryShape, Raw
  <1>7. dirty' = [y \in TxId |-> dirty'[y]] /\ \A y \in TxId : IsDirtyMap(dirty[y])'
    BY DEF MemoryShape, IsDirtyMap
  <1> HIDE DEF JournalInv
  <1> QED
    BY <1>2, <1>3, <1>4, <1>5, <1>6, <1>7, StepKeepsInv

\* A commit goes on.
LEMMA CommitGoesOn ==
    ASSUME JournalInv, NEW t \in Threads, NEW v, op' = [op EXCEPT ![t] = v],
           Committing(t), v.pc \in {"data", "jsb", "writeback"}, v.tx = op[t].tx,
           UNCHANGED <<dev, dirty, ntx, txMu, before>>, DeviceShape',
           OpShape(v), CommitStage(t)'
    PROVE  JournalInv'
  <1> USE DEF JournalInv
  <1>1. op'[t] = v /\ op' = [s \in Threads |-> op'[s]] /\ \A s \in Threads \ {t} : op'[s] = op[s]
    BY ThreadStep
  <1>2. OthersKept(t)
    BY <1>1, Sizes, Exclusive DEF OthersKept, MemoryShape
  <1>3. LockInv'
    <2>1. Committing(t)' /\ op'[t].tx = op[t].tx
      BY <1>1 DEF Committing
    <2>2. \A s \in txMu : op[s].tx # dev'
      BY DEF LockInv
    <2> QED
      BY <1>1, <2>1, <2>2, LockStays
  <1>4. OpShape(op[t])'
    BY <1>1 DEF OpShape
  <1>5. dev' \in 0 .. ntx'
    BY DEF MemoryShape
  <1>6. dirty' = [y \in TxId |-> dirty'[y]] /\ \A y \in TxId : IsDirtyMap(dirty[y])'
    BY DEF MemoryShape, IsDirtyMap
  <1> HIDE DEF JournalInv
  <1> QED
    BY <1>2, <1>3, <1>4, <1>5, <1>6, StepKeepsInv

LEMMA CommitDirectKeeps ==
    ASSUME JournalInv, NEW t \in Threads, CommitDirect(t)
    PROVE  JournalInv'
  <1> DEFINE v == [pc |-> "writeback", tx |-> dev, left |-> DirtyBlocks]
  <1>1. dev # Raw /\ dev \in 1 .. ntx /\ DirtyBlocks = DOMAIN dirty[dev]
    BY Sizes DEF CommitDirect, DirtyBlocks, JournalInv, MemoryShape, Raw
  <1>2. OpShape(v)
    BY <1>1 DEF OpShape
  <1>3. op' = [op EXCEPT ![t] = v]
    BY DEF CommitDirect
  <1>4. op'[t] = v
    BY <1>3, ThreadStep DEF JournalInv
  <1>5. CommitStage(t)'
    BY <1>4 DEF CommitStage, CommitDirect, DeviceUnchanged
  <1>6. v.pc = "writeback" /\ v.tx = dev
    OBVIOUS
  <1> HIDE DEF v
  <1> QED
    BY <1>1, <1>2, <1>3, <1>5, <1>6, StartKeeps DEF CommitDirect, DeviceUnchanged, HistoryUnchanged

LEMMA CommitJournalKeeps ==
    ASSUME JournalInv, NEW t \in Threads, NEW order \in SetToSeqs(DirtyBlocks),
           CommitJournal(t, order)
    PROVE  JournalInv'
  <1> DEFINE v == [pc |-> "descriptor", tx |-> dev, order |-> order, pos |-> FirstPos]
  <1>1. dev # Raw /\ dev \in 1 .. ntx /\ DirtyBlocks = DOMAIN dirty[dev]
    BY Sizes DEF CommitJournal, DirtyBlocks, JournalInv, MemoryShape, Raw
  <1>2. OpShape(v)
    BY <1>1 DEF OpShape
  <1>3. op' = [op EXCEPT ![t] = v]
    BY DEF CommitJournal
  <1>4. op'[t] = v
    BY <1>3, ThreadStep DEF JournalInv
  <1>5. DirtyBlocks \subseteq Blocks /\ DirtyBlocks # {}
    BY <1>1, Sizes DEF CommitJournal, JournalInv, MemoryShape, IsDirtyMap, TxId
  <1>6. Enumerates(order, DirtyBlocks)
    BY <1>5, OrderEnumerates
  <1>7. FirstPos \in 1 .. S_maxlen
    BY Positions DEF JournalInv
  <1>8. UNCHANGED <<home, journal, jsb, dirty, ntx, before>>
    BY DEF CommitJournal, DeviceUnchanged, HistoryUnchanged
  <1>9. CommitStage(t)'
    <2>1. Enumerates(op'[t].order, DOMAIN dirty[op'[t].tx])
      BY <1>1, <1>4, <1>6
    <2>2. Enumerates(op[t].order, DOMAIN dirty[op[t].tx])'
      BY <1>8, <2>1 DEF Enumerates
    <2> QED
      BY <1>4, <1>7, <2>2 DEF CommitStage
  <1>10. v.pc = "descriptor" /\ v.tx = dev
    OBVIOUS
  <1> HIDE DEF v
  <1> QED
    BY <1>1, <1>2, <1>3, <1>8, <1>9, <1>10, StartKeeps DEF CommitJournal

-----------------------------------------------------------------------------
(* The records of a commit *)

\* A record is written at a position of the journal.
LEMMA RecordWritten ==
    ASSUME JournalInv, NEW t \in Threads, NEW r \in Records, NEW next, WriteRecord(t, r, next)
    PROVE  /\ op[t].pos \in 1 .. S_maxlen - 1
           /\ journal' = [p \in 1 .. S_maxlen - 1 |-> IF p = op[t].pos THEN r ELSE journal[p]]
           /\ op' = [op EXCEPT ![t] = next] /\ op'[t] = next
           /\ UNCHANGED <<home, jsb, dev, dirty, ntx, txMu, before>> /\ DeviceShape'
  <1>1. op[t].pos \in 1 .. S_maxlen - 1 /\ op' = [op EXCEPT ![t] = next]
        /\ UNCHANGED <<home, jsb, dev, dirty, ntx, txMu, before>>
    BY DEF WriteRecord, HasBlock, HistoryUnchanged
  <1>2. journal' = [p \in 1 .. S_maxlen - 1 |-> IF p = op[t].pos THEN r ELSE journal[p]]
    BY DEF WriteRecord, JournalInv, DeviceShape
  <1>3. op'[t] = next
    BY <1>1, ThreadStep DEF JournalInv
  <1>4. DeviceShape'
    BY <1>1, <1>2 DEF JournalInv, DeviceShape
  <1> QED
    BY <1>1, <1>2, <1>3, <1>4

LEMMA DescriptorKeeps ==
    ASSUME JournalInv, NEW t \in Threads, WriteDescriptor(t)
    PROVE  JournalInv'
  <1> DEFINE o == op[t]
             d == dirty[o.tx]
             n == Len(o.order)
             tags == [k \in 1 .. n |-> [block |-> o.order[k], esc |-> d[o.order[k]][1] = Magic]]
             r == [type |-> "descriptor", sequence |-> jsb.sequence, tags |-> tags]
             v == [pc |-> "data", tx |-> o.tx, order |-> o.order, k |-> 1,
                   first |-> o.pos, pos |-> NextPos(o.pos)]
  <1>1. WriteRecord(t, r, v) /\ o.pc = "descriptor"
    BY DEF WriteDescriptor
  <1>2. o.tx \in 1 .. ntx /\ o.tx \in TxId
    BY <1>1, Sizes DEF JournalInv, MemoryShape, OpShape, Idle, TxId
  <1>3. IsDirtyMap(d)
    BY <1>2 DEF JournalInv, MemoryShape
  <1>4. o.pos \in 1 .. S_maxlen /\ Enumerates(o.order, DOMAIN d)
    BY <1>1 DEF JournalInv, CommitInv, CommitStage
  <1>5. n \in 1 .. Cardinality(Blocks) /\ o.order \in [1 .. n -> DOMAIN d]
        /\ \A b \in DOMAIN d : \E k \in 1 .. n : o.order[k] = b
    BY <1>4 DEF Enumerates
  <1>6. tags \in [1 .. n -> [block : Blocks, esc : BOOLEAN]]
    BY <1>3, <1>5 DEF IsDirtyMap
  <1>7. /\ \A b \in DOMAIN d : \E k \in 1 .. n : tags[k].block = b
        /\ \A k \in 1 .. n : /\ tags[k].block = o.order[k] /\ tags[k].block \in DOMAIN d
                             /\ tags[k].esc <=> d[tags[k].block][1] = Magic
    BY <1>5
  <1>8. jsb.sequence \in Nat
    BY DEF JournalInv, DeviceShape
  <1> HIDE DEF tags, n
  <1>9. r \in Records
    <2>1. tags \in UNION {[1 .. m -> [block : Blocks, esc : BOOLEAN]] : m \in 1 .. Cardinality(Blocks)}
      BY <1>5, <1>6
    <2> QED
      BY <1>8, <2>1 DEF Records
  <1> HIDE DEF v, r
  <1>10. /\ o.pos \in 1 .. S_maxlen - 1 /\ op' = [op EXCEPT ![t] = v] /\ op'[t] = v
         /\ journal'[o.pos] = r
         /\ UNCHANGED <<home, jsb, dev, dirty, ntx, txMu, before>> /\ DeviceShape'
    <2>1. /\ o.pos \in 1 .. S_maxlen - 1
          /\ journal' = [p \in 1 .. S_maxlen - 1 |-> IF p = o.pos THEN r ELSE journal[p]]
          /\ op' = [op EXCEPT ![t] = v] /\ op'[t] = v
          /\ UNCHANGED <<home, jsb, dev, dirty, ntx, txMu, before>> /\ DeviceShape'
      BY <1>1, <1>9, RecordWritten
    <2> QED
      BY <2>1
  <1>11. NextPos(o.pos) = o.pos + 1
    BY <1>10, Positions DEF JournalInv
  <1>12. v.pc = "data" /\ v.tx = o.tx /\ v.order = o.order /\ v.k = 1 /\ v.first = o.pos
         /\ v.pos = o.pos + 1 /\ OpShape(v)
    BY <1>2, <1>11 DEF v, OpShape
  <1>13. Committing(t)
    BY <1>1 DEF Committing
  <1>14. CommitStage(t)'
    <2>1. journal'[o.pos].tags = tags
          /\ journal'[o.pos] = [type |-> "descriptor", sequence |-> jsb'.sequence, tags |-> tags]
      BY <1>10 DEF r
    <2>2. dirty'[op'[t].tx] = d /\ op'[t].first = o.pos /\ Len(op'[t].order) = n
      BY <1>10, <1>12 DEF n
    <2>3. HasDescriptor(journal', jsb'.sequence, o.pos, d, n)
      <3> HIDE DEF d, o
      <3> QED
        BY <1>5, <1>6, <1>7, <1>10, <2>1 DEF HasDescriptor
    <2>4. HasData(journal', o.pos, d, op'[t].k - 1)
      BY <1>10, <1>12 DEF HasData
    <2>5. Enumerates(op[t].order, DOMAIN dirty[op[t].tx])'
      BY <1>4, <1>10, <1>12 DEF Enumerates
    <2>6. \A k \in 1 .. Len(op'[t].order) : journal'[op'[t].first].tags[k].block = op'[t].order[k]
      BY <1>7, <1>10, <1>12, <2>1 DEF n
    <2>7. op'[t].k \in 1 .. Len(op'[t].order) + 1 /\ op'[t].pos = op'[t].first + op'[t].k
          /\ op'[t].pos <= S_maxlen
      BY <1>5, <1>10, <1>12, Sizes DEF n
    <2> QED
      BY <1>10, <1>12, <2>2, <2>3, <2>4, <2>5, <2>6, <2>7 DEF CommitStage
  <1> QED
    BY <1>10, <1>12, <1>13, <1>14, CommitGoesOn

\* The state of a commit between descriptor and commit block.
LEMMA DataStage ==
    ASSUME JournalInv, NEW t \in Threads, op[t].pc = "data"
    PROVE  LET o == op[t]
               d == dirty[o.tx]
               n == Len(o.order)
           IN  /\ o = [pc |-> "data", tx |-> o.tx, order |-> o.order, k |-> o.k,
                       first |-> o.first, pos |-> o.pos]
               /\ o.tx \in 1 .. ntx /\ IsDirtyMap(d) /\ Enumerates(o.order, DOMAIN d)
               /\ n \in 1 .. Cardinality(Blocks) /\ o.order \in [1 .. n -> DOMAIN d]
               /\ o.k \in 1 .. n + 1 /\ o.pos = o.first + o.k /\ o.pos <= S_maxlen
               /\ o.first \in 1 .. S_maxlen - 1
               /\ HasDescriptor(journal, jsb.sequence, o.first, d, n)
               /\ HasData(journal, o.first, d, o.k - 1)
               /\ \A k \in 1 .. n : journal[o.first].tags[k].block = o.order[k]
               /\ Committing(t)
  <1> DEFINE o == op[t]
             d == dirty[o.tx]
  <1>1. o.tx \in 1 .. ntx /\ o.tx \in TxId
        /\ o = [pc |-> "data", tx |-> o.tx, order |-> o.order, k |-> o.k,
                first |-> o.first, pos |-> o.pos]
    BY Sizes DEF JournalInv, MemoryShape, OpShape, Idle, TxId
  <1>2. IsDirtyMap(d)
    BY <1>1 DEF JournalInv, MemoryShape
  <1>3. Enumerates(o.order, DOMAIN d) /\ HasDescriptor(journal, jsb.sequence, o.first, d, Len(o.order))
    BY DEF JournalInv, CommitInv, CommitStage
  <1>4. o.first \in 1 .. S_maxlen - 1
    BY <1>3 DEF HasDescriptor
  <1> QED
    BY <1>1, <1>2, <1>3, <1>4 DEF JournalInv, CommitInv, CommitStage, Enumerates, Committing

\* A record put behind those of an unfinished commit leaves them as they are.
LEMMA RecordsKept ==
    ASSUME NEW j, NEW seq, NEW p, NEW d, NEW n, NEW m \in Nat,
           HasDescriptor(j, seq, p, d, n), HasData(j, p, d, m),
           NEW i, p + m + 1 \in 1 .. S_maxlen - 1,
           \A x \in 1 .. S_maxlen - 1 : x # p + m + 1 => i[x] = j[x]
    PROVE  HasDescriptor(i, seq, p, d, n) /\ HasData(i, p, d, m) /\ i[p] = j[p]
  <1>1. p \in 1 .. S_maxlen - 1 /\ p # p + m + 1
    BY Sizes DEF HasDescriptor
  <1>2. \A k \in 1 .. m : p + k # p + m + 1 /\ p + k \in 1 .. S_maxlen - 1
    BY <1>1, Sizes
  <1>3. i[p] = j[p] /\ \A k \in 1 .. m : i[p + k] = j[p + k]
    BY <1>1, <1>2
  <1>4. HasDescriptor(i, seq, p, d, n)
    BY <1>3 DEF HasDescriptor
  <1>5. HasData(i, p, d, m)
    BY <1>3 DEF HasData
  <1> QED
    BY <1>3, <1>4, <1>5

LEMMA DataKeeps ==
    ASSUME JournalInv, NEW t \in Threads, WriteData(t)
    PROVE  JournalInv'
  <1> DEFINE o == op[t]
             d == dirty[o.tx]
             n == Len(o.order)
             r == [type |-> "data", data |-> Escape(d[o.order[o.k]])]
             v == [o EXCEPT !.k = @ + 1, !.pos = NextPos(@)]
  <1>1. WriteRecord(t, r, v) /\ o.pc = "data" /\ o.k <= n
    BY DEF WriteData
  <1>2. /\ o = [pc |-> "data", tx |-> o.tx, order |-> o.order, k |-> o.k,
                first |-> o.first, pos |-> o.pos]
        /\ o.tx \in 1 .. ntx /\ Committing(t)
    BY <1>1, DataStage
  <1>3. /\ n \in 1 .. Cardinality(Blocks) /\ o.k \in 1 .. n + 1
        /\ o.pos = o.first + o.k /\ o.first \in 1 .. S_maxlen - 1
    BY <1>1, DataStage
  <1>4. IsDirtyMap(d) /\ Enumerates(o.order, DOMAIN d) /\ o.order \in [1 .. n -> DOMAIN d]
        /\ \A k \in 1 .. n : journal[o.first].tags[k].block = o.order[k]
    BY <1>1, DataStage
  <1>5. HasDescriptor(journal, jsb.sequence, o.first, d, n) /\ HasData(journal, o.first, d, o.k - 1)
    BY <1>1, DataStage
  <1> HIDE DEF r, v, n, d
  <1>6. n \in Nat /\ o.k \in 1 .. n /\ o.first \in Nat /\ o.k - 1 \in Nat
        /\ o.pos = o.first + (o.k - 1) + 1
    BY <1>1, <1>3, Sizes
  <1>7. r \in Records
    <2>1. d[o.order[o.k]] \in BlockData
      BY <1>4, <1>6 DEF IsDirtyMap
    <2> QED
      BY <2>1, EscapeInverts DEF Records, r
  <1>8. /\ o.pos \in 1 .. S_maxlen - 1
        /\ journal' = [p \in 1 .. S_maxlen - 1 |-> IF p = o.pos THEN r ELSE journal[p]]
        /\ op' = [op EXCEPT ![t] = v] /\ op'[t] = v
        /\ UNCHANGED <<home, jsb, dev, dirty, ntx, txMu, before>> /\ DeviceShape'
    BY <1>1, <1>7, RecordWritten
  <1>9. OpShape(v) /\ v.pc = "data" /\ v.tx = o.tx /\ v.order = o.order /\ v.k = o.k + 1
        /\ v.first = o.first /\ v.pos = o.pos + 1
    <2>1. v = [pc |-> "data", tx |-> o.tx, order |-> o.order, k |-> o.k + 1,
               first |-> o.first, pos |-> NextPos(o.pos)]
      <3>1. PICK tx, order, k, first, pos :
                o = [pc |-> "data", tx |-> tx, order |-> order, k |-> k, first |-> first, pos |-> pos]
        BY <1>2, Zenon
      <3>2. [o EXCEPT !.k = o.k + 1] = [pc |-> "data", tx |-> tx, order |-> order, k |-> k + 1,
                                        first |-> first, pos |-> pos]
        BY <3>1
      <3>3. v = [[o EXCEPT !.k = o.k + 1] EXCEPT !.pos = NextPos(o.pos)]
        BY DEF v
      <3> QED
        BY <3>1, <3>2, <3>3
    <2>2. NextPos(o.pos) = o.pos + 1
      BY <1>8, Positions DEF JournalInv
    <2> HIDE DEF o
    <2> QED
      BY <1>2, <2>1, <2>2 DEF OpShape
  <1>10. op'[t].pc = "data" /\ op'[t].tx = o.tx /\ op'[t].order = o.order /\ op'[t].k = o.k + 1
         /\ op'[t].first = o.first /\ op'[t].pos = o.pos + 1 /\ dirty'[op'[t].tx] = d
         /\ Len(op'[t].order) = n
    BY <1>8, <1>9 DEF d, n
  <1> HIDE DEF o
  <1>11. /\ HasDescriptor(journal', jsb.sequence, o.first, d, n)
         /\ HasData(journal', o.first, d, o.k - 1)
         /\ journal'[o.first] = journal[o.first] /\ journal'[o.pos] = r
    <2>1. journal'[o.pos] = r /\ \A x \in 1 .. S_maxlen - 1 : x # o.pos => journal'[x] = journal[x]
      BY <1>8
    <2>2. o.first + (o.k - 1) + 1 \in 1 .. S_maxlen - 1
      BY <1>6, <1>8
    <2> QED
      BY <1>5, <1>6, <2>1, <2>2, RecordsKept
  <1>12. HasData(journal', o.first, d, o.k)
    <2>1. SUFFICES ASSUME NEW k \in 1 .. o.k
                   PROVE  journal'[o.first + k] =
                            [type |-> "data", data |-> Escape(d[journal'[o.first].tags[k].block])]
      BY DEF HasData
    <2>2. CASE k = o.k
      BY <1>3, <1>4, <1>6, <1>11, <2>2 DEF r
    <2>3. CASE k # o.k
      BY <1>6, <1>11, <2>3 DEF HasData
    <2> QED
      BY <2>2, <2>3
  <1>13. CommitStage(t)'
    <2>1. Enumerates(op[t].order, DOMAIN dirty[op[t].tx])'
      BY <1>4, <1>10 DEF Enumerates
    <2>2. op'[t].k \in 1 .. n + 1 /\ op'[t].pos = op'[t].first + op'[t].k /\ op'[t].pos <= S_maxlen
      <3>1. o.pos \in 1 .. S_maxlen - 1
        BY <1>8
      <3>2. o.pos + 1 = o.first + (o.k + 1) /\ o.k + 1 \in 1 .. n + 1 /\ o.pos + 1 <= S_maxlen
        BY <1>3, <1>6, <3>1, Sizes
      <3> QED
        BY <1>10, <3>2
    <2>3. op'[t].k - 1 = o.k
      BY <1>6, <1>10
    <2>4. \A k \in 1 .. n : journal'[op'[t].first].tags[k].block = op'[t].order[k]
      BY <1>4, <1>10, <1>11
    <2> QED
      BY <1>8, <1>10, <1>11, <1>12, <2>1, <2>2, <2>3, <2>4 DEF CommitStage
  <1> QED
    BY <1>2, <1>8, <1>9, <1>13, CommitGoesOn DEF o

LEMMA CommitBlockKeeps ==
    ASSUME JournalInv, NEW t \in Threads, WriteCommitBlock(t)
    PROVE  JournalInv'
  <1> DEFINE o == op[t]
             d == dirty[o.tx]
             n == Len(o.order)
             r == [type |-> "commit", sequence |-> jsb.sequence]
             v == [pc |-> "jsb", tx |-> o.tx, first |-> o.first, pos |-> o.pos]
  <1>1. WriteRecord(t, r, v) /\ o.pc = "data" /\ o.k > n
    BY DEF WriteCommitBlock
  <1>2. /\ o.tx \in 1 .. ntx /\ n \in 1 .. Cardinality(Blocks)
        /\ o.k \in 1 .. n + 1 /\ o.pos = o.first + o.k /\ o.first \in 1 .. S_maxlen - 1
        /\ Committing(t)
    BY <1>1, DataStage
  <1>3. HasDescriptor(journal, jsb.sequence, o.first, d, n) /\ HasData(journal, o.first, d, o.k - 1)
    BY <1>1, DataStage
  <1>4. r \in Records
    BY DEF Records, JournalInv, DeviceShape
  <1> HIDE DEF r, v, n, d
  <1>5. /\ o.pos \in 1 .. S_maxlen - 1
        /\ journal' = [p \in 1 .. S_maxlen - 1 |-> IF p = o.pos THEN r ELSE journal[p]]
        /\ op' = [op EXCEPT ![t] = v] /\ op'[t] = v
        /\ UNCHANGED <<home, jsb, dev, dirty, ntx, txMu, before>> /\ DeviceShape'
    BY <1>1, <1>4, RecordWritten
  <1>6. OpShape(v) /\ v.pc = "jsb" /\ v.tx = o.tx /\ v.first = o.first /\ v.pos = o.pos
    BY <1>2 DEF OpShape, v
  <1>7. op'[t].pc = "jsb" /\ op'[t].tx = o.tx /\ op'[t].first = o.first /\ op'[t].pos = o.pos
        /\ dirty'[op'[t].tx] = d
    BY <1>5, <1>6 DEF d
  <1> HIDE DEF o
  <1>8. n \in Nat /\ o.first \in Nat /\ o.pos = o.first + n + 1 /\ o.k - 1 = n
    BY <1>1, <1>2, Sizes
  <1>9. HasDescriptor(journal', jsb.sequence, o.first, d, n) /\ HasData(journal', o.first, d, n)
        /\ journal'[o.pos] = r
    <2>1. journal'[o.pos] = r /\ \A x \in 1 .. S_maxlen - 1 : x # o.pos => journal'[x] = journal[x]
      BY <1>5
    <2>2. o.first + n + 1 \in 1 .. S_maxlen - 1
      BY <1>5, <1>8
    <2> QED
      BY <1>3, <1>8, <2>1, <2>2, RecordsKept
  <1>10. CommitStage(t)'
    <2>1. o.pos <= S_maxlen - 1 /\ journal'[o.pos] = [type |-> "commit", sequence |-> jsb'.sequence]
      BY <1>5, <1>9, Sizes DEF r
    <2> QED
      BY <1>2, <1>5, <1>7, <1>8, <1>9, <2>1 DEF CommitStage
  <1> QED
    BY <1>2, <1>5, <1>6, <1>10, CommitGoesOn DEF o

\* All records of the transaction are there and the superblock moves behind them.
LEMMA SuperKeeps ==
    ASSUME JournalInv, NEW t \in Threads, WriteJournalSuper(t)
    PROVE  JournalInv'
  <1> DEFINE o == op[t]
             d == dirty[o.tx]
             v == [pc |-> "writeback", tx |-> o.tx, first |-> o.first, left |-> DOMAIN d]
  <1>1. o.pc = "jsb" /\ op' = [op EXCEPT ![t] = v] /\ Committing(t)
        /\ UNCHANGED <<home, journal, dev, dirty, ntx, txMu, before>>
        /\ jsb' = [jsb EXCEPT !.start = NextPos(o.pos), !.sequence = @ + 1]
    BY DEF WriteJournalSuper, HistoryUnchanged, Committing
  <1>2. o.tx \in 1 .. ntx /\ o.tx \in TxId
    BY <1>1, Sizes DEF JournalInv, MemoryShape, OpShape, Idle, TxId
  <1>3. IsDirtyMap(d)
    BY <1>2 DEF JournalInv, MemoryShape
  <1>4. PICK n \in 1 .. Cardinality(Blocks) :
            /\ o.pos = o.first + n + 1 /\ o.pos <= S_maxlen - 1
            /\ HasDescriptor(journal, jsb.sequence, o.first, d, n) /\ HasData(journal, o.first, d, n)
            /\ journal[o.pos] = [type |-> "commit", sequence |-> jsb.sequence]
    BY <1>1 DEF JournalInv, CommitInv, CommitStage
  <1>5. o.first \in 1 .. S_maxlen - 1 /\ n \in Nat
    <2>1. o.first \in 1 .. S_maxlen - 1
      BY <1>4 DEF HasDescriptor
    <2> QED
      BY <2>1, Sizes
  <1>6. o.pos \in 1 .. S_maxlen
    BY <1>4, <1>5, Sizes
  <1>7. jsb \in [kind : JournalKinds, start : 0 .. S_maxlen, sequence : Nat]
    BY DEF JournalInv, DeviceShape
  <1>8. NextPos(o.pos) \in 0 .. S_maxlen
    BY <1>6, Positions, Sizes DEF JournalInv
  <1>9. jsb' \in [kind : JournalKinds, start : 0 .. S_maxlen, sequence : Nat]
        /\ jsb'.start = NextPos(o.pos) /\ jsb'.sequence = jsb.sequence + 1
    <2>1. PICK kind \in JournalKinds, start \in 0 .. S_maxlen, seq \in Nat :
              jsb = [kind |-> kind, start |-> start, sequence |-> seq]
      BY <1>7
    <2>2. [jsb EXCEPT !.start = NextPos(o.pos)]
              = [kind |-> kind, start |-> NextPos(o.pos), sequence |-> seq]
      BY <2>1
    <2>3. jsb' = [[jsb EXCEPT !.start = NextPos(o.pos)] EXCEPT !.sequence = jsb.sequence + 1]
      BY <1>1
    <2>4. jsb' = [kind |-> kind, start |-> NextPos(o.pos), sequence |-> seq + 1] /\ jsb.sequence = seq
      BY <2>1, <2>2, <2>3
    <2> HIDE DEF o
    <2> QED
      BY <1>8, <2>4
  <1>10. DeviceShape'
    BY <1>1, <1>9 DEF JournalInv, DeviceShape
  <1>11. op'[t] = v
    BY <1>1, ThreadStep DEF JournalInv
  <1>12. OpShape(v) /\ v.pc = "writeback" /\ v.tx = o.tx
    BY <1>2 DEF OpShape
  <1>13. op'[t].pc = "writeback" /\ op'[t].first = o.first /\ dirty'[op'[t].tx] = d
    BY <1>1, <1>11
  <1> HIDE DEF v, o, d
  <1>14. HoldsTransaction(op[t].first, dirty[op[t].tx])'
    <2> DEFINE tags == journal[o.first].tags
    <2>1. /\ journal[o.first] = [type |-> "descriptor", sequence |-> jsb.sequence, tags |-> tags]
          /\ tags \in [1 .. n -> [block : Blocks, esc : BOOLEAN]]
          /\ \A b \in DOMAIN d : \E k \in 1 .. n : tags[k].block = b
          /\ \A k \in 1 .. n : /\ tags[k].block \in DOMAIN d
                               /\ tags[k].esc <=> d[tags[k].block][1] = Magic
      BY <1>4 DEF HasDescriptor
    <2> HIDE DEF tags
    <2>2. Len(tags) = n /\ {tags[k].block : k \in 1 .. n} = DOMAIN d
      <3>1. Len(tags) = n
        BY <1>5, <2>1
      <3>2. \A k \in 1 .. n : tags[k].block \in DOMAIN d
        BY <2>1
      <3>3. \A b \in DOMAIN d : \E k \in 1 .. n : tags[k].block = b
        BY <2>1
      <3>4. {tags[k].block : k \in 1 .. n} = DOMAIN d
        BY <3>2, <3>3, Zenon
      <3> QED
        BY <3>1, <3>4
    <2>3. ASSUME NEW k \in 1 .. n
          PROVE  /\ journal[o.first + k].type = "data" /\ journal[o.first + k].data[1] # Magic
                 /\ Unescape(journal[o.first + k], tags[k]) = d[tags[k].block]
      <3> DEFINE blk == d[tags[k].block]
      <3>1. journal[o.first + k] = [type |-> "data", data |-> Escape(blk)]
        BY <1>4 DEF HasData, tags
      <3>2. blk \in BlockData
        BY <1>3, <2>1 DEF IsDirtyMap
      <3>3. tags[k].esc <=> blk[1] = Magic
        BY <2>1
      <3> HIDE DEF blk
      <3>4. journal[o.first + k].type = "data" /\ journal[o.first + k].data = Escape(blk)
        BY <3>1
      <3>5. Unescape(journal[o.first + k], tags[k]) = blk
        BY <3>2, <3>3, <3>4, EscapeInverts DEF Unescape
      <3>6. journal[o.first + k].data[1] # Magic
        BY <3>2, <3>4, EscapeInverts
      <3> QED
        BY <3>4, <3>5, <3>6 DEF blk
    <2>4. journal'[op'[t].first].tags = tags /\ journal[o.first].type = "descriptor"
          /\ journal[o.first].sequence = jsb.sequence
      BY <1>1, <1>13, <2>1 DEF tags
    <2>5. journal'[o.first + n + 1] = [type |-> "commit", sequence |-> journal[o.first].sequence]
          /\ jsb'.start = NextPos(o.first + n + 1) /\ jsb'.sequence = journal[o.first].sequence + 1
      BY <1>1, <1>4, <1>9, <2>4
    <2> DEFINE p == op'[t].first
               e == dirty'[op'[t].tx]
    <2>6. p = o.first /\ e = d /\ journal' = journal
      BY <1>1, <1>13
    <2> HIDE DEF p, e
    <2>7. journal'[p].type = "descriptor" /\ journal'[p].tags = tags
          /\ journal'[p + n + 1] = [type |-> "commit", sequence |-> journal'[p].sequence]
          /\ jsb'.start = NextPos(p + n + 1) /\ jsb'.sequence = journal'[p].sequence + 1
      BY <2>4, <2>5, <2>6 DEF p
    <2>8. {tags[k].block : k \in 1 .. n} = DOMAIN e
      BY <2>2, <2>6
    <2>9. \A k \in 1 .. n :
            /\ journal'[p + k].type = "data" /\ journal'[p + k].data[1] # Magic
            /\ Unescape(journal'[p + k], tags[k]) = e[tags[k].block]
      BY <2>3, <2>6
    <2> QED
      BY <2>2, <2>7, <2>8, <2>9 DEF HoldsTransaction, p, e
  <1>15. CommitStage(t)'
    BY <1>13, <1>14 DEF CommitStage
  <1> QED
    BY <1>1, <1>10, <1>12, <1>15, CommitGoesOn DEF o

\* A block is written in place.
LEMMA WriteBackKeeps ==
    ASSUME JournalInv, NEW t \in Threads, NEW b \in Blocks, WriteBack(t, b)
    PROVE  JournalInv'
  <1> DEFINE o == op[t]
             v == [o EXCEPT !.left = @ \ {b}]
  <1>1. o.pc = "writeback" /\ b \in o.left /\ Committing(t)
        /\ home' = [home EXCEPT ![b] = dirty[o.tx][b]]
        /\ UNCHANGED <<journal, jsb, dev, dirty, ntx, before>>
    BY DEF WriteBack, Committing
  <1>2. /\ \/ o = [pc |-> "writeback", tx |-> o.tx, left |-> o.left]
           \/ o = [pc |-> "writeback", tx |-> o.tx, first |-> o.first, left |-> o.left]
        /\ o.tx \in 1 .. ntx /\ o.left \subseteq DOMAIN dirty[o.tx] /\ o.tx \in TxId
    BY <1>1, Sizes DEF JournalInv, MemoryShape, OpShape, Idle, TxId
  <1>3. IsDirtyMap(dirty[o.tx])
    BY <1>2 DEF JournalInv, MemoryShape
  <1>4. dirty[o.tx][b] \in BlockData
    BY <1>1, <1>2, <1>3 DEF IsDirtyMap
  <1>5. home' \in [Blocks -> BlockData]
    BY <1>1, <1>4 DEF JournalInv, DeviceShape
  <1>6. CASE o.left = {b}
    BY <1>1, <1>5, <1>6, ReturnKeeps DEF WriteBack, Return
  <1>7. CASE o.left # {b}
    <2>1. op' = [op EXCEPT ![t].left = @ \ {b}] /\ UNCHANGED txMu
      BY <1>7 DEF WriteBack
    <2>2. op' = [op EXCEPT ![t] = v]
      BY <2>1
    <2>3. \/ v = [pc |-> "writeback", tx |-> o.tx, left |-> o.left \ {b}]
          \/ v = [pc |-> "writeback", tx |-> o.tx, first |-> o.first, left |-> o.left \ {b}]
      BY <1>2
    <2>4. v.pc = "writeback" /\ v.tx = o.tx /\ v.left = o.left \ {b}
      BY <2>3
    <2>5. v.first = o.first
      BY <1>2
    <2> HIDE DEF v
    <2>6. OpShape(v)
      BY <1>2, <2>3, <2>4, <2>5 DEF OpShape
    <2>7. DeviceShape'
      BY <1>1, <1>5 DEF JournalInv, DeviceShape
    <2>8. op'[t] = v
      BY <2>2, ThreadStep DEF JournalInv
    <2>9. CommitStage(t)'
      <3>1. jsb.kind = "jbd2" => HoldsTransaction(o.first, dirty[o.tx])
        BY <1>1 DEF JournalInv, CommitInv, CommitStage
      <3>2. op'[t].first = o.first /\ dirty'[op'[t].tx] = dirty[o.tx] /\ op'[t].pc = "writeback"
        BY <1>1, <2>4, <2>5, <2>8
      <3>3. HoldsTransaction(op[t].first, dirty[op[t].tx])'
              <=> HoldsTransaction(op[t].first, dirty[op[t].tx])
        BY <1>1, <3>2 DEF HoldsTransaction
      <3> QED
        BY <1>1, <3>1, <3>2, <3>3 DEF CommitStage
    <2> QED
      BY <1>1, <2>1, <2>2, <2>4, <2>6, <2>7, <2>9, CommitGoesOn
  <1> QED
    BY <1>6, <1>7

\* The steps of an operation keep the invariant, and so does the end of the process.
LEMMA StepHolds ==
    ASSUME JournalInv, NEW t \in Threads, Body(t) \/ CommitTransaction(t)
    PROVE  JournalInv'
  <1>1. CASE BeginTransaction(t)
    BY <1>1, BeginKeeps
  <1>2. ASSUME NEW b \in BlocksOf(t), NEW x \in Writes, TakeDevice(t, b, x[1], x[2])
        PROVE  JournalInv'
    BY <1>2, TakeKeeps
  <1>3. CASE DoWrite(t)
    BY <1>3, WriteKeeps
  <1> DEFINE homeOK == home \in [Blocks -> BlockData]
  <1>4. homeOK
    BY DEF JournalInv, DeviceShape
  <1>5. CASE RollbackTransaction(t)
    BY <1>4, <1>5, ReturnKeeps DEF RollbackTransaction, Return, DeviceUnchanged
  <1>6. CASE CommitEmpty(t)
    BY <1>4, <1>6, ReturnKeeps DEF CommitEmpty, Return, DeviceUnchanged
  <1>7. CASE CommitDirect(t)
    BY <1>7, CommitDirectKeeps
  <1>8. ASSUME NEW order \in SetToSeqs(DirtyBlocks), CommitJournal(t, order)
        PROVE  JournalInv'
    BY <1>8, CommitJournalKeeps
  <1>9. CASE WriteDescriptor(t) \/ WriteData(t) \/ WriteCommitBlock(t) \/ WriteJournalSuper(t)
    BY <1>9, DescriptorKeeps, DataKeeps, CommitBlockKeeps, SuperKeeps
  <1>10. ASSUME NEW b \in Blocks, WriteBack(t, b)
         PROVE  JournalInv'
    BY <1>10, WriteBackKeeps
  <1>11. CASE NoPhysicalBlock(t)
    BY <1>4, <1>11, ReturnKeeps DEF NoPhysicalBlock, Return, DeviceUnchanged, Committing
  <1>12. CASE TooManyTags(t)
    BY <1>4, <1>12, ReturnKeeps DEF TooManyTags, Return, DeviceUnchanged, Committing
  <1>13. CASE CommitFails(t)
    BY <1>4, <1>13, ReturnKeeps DEF CommitFails, Return, DeviceUnchanged
  <1> QED
    BY <1>1, <1>2, <1>3, <1>5, <1>6, <1>7, <1>8, <1>9, <1>10, <1>11, <1>12, <1>13
       DEF Body, CommitTransaction

LEMMA CrashHolds ==
    ASSUME JournalInv, Crash
    PROVE  JournalInv'
  <1>1. DeviceShape'
    BY DEF Crash, JournalInv, DeviceShape, DeviceUnchanged
  <1>2. \A t \in Threads : op'[t] = Idle
    BY DEF Crash
  <1>3. IsDirtyMap(NoBlocks)
    BY DEF IsDirtyMap, NoBlocks
  <1>4. MemoryShape'
    <2>1. dirty' = [x \in TxId |-> NoBlocks] /\ op' = [t \in Threads |-> Idle]
          /\ dev' = 0 /\ ntx' = ntx /\ ntx \in 0 .. MaxTx
      BY DEF Crash, JournalInv, MemoryShape, Raw
    <2>2. \A x \in TxId : IsDirtyMap(dirty[x])'
      BY <1>3, <2>1 DEF IsDirtyMap
    <2>3. \A t \in Threads : OpShape(op[t])'
      BY <1>2 DEF OpShape
    <2> QED
      BY <2>1, <2>2, <2>3, Sizes DEF MemoryShape
  <1>5. LockInv'
    BY <1>2 DEF Crash, LockInv, Committing, Idle
  <1>6. CommitInv'
    BY <1>2 DEF CommitInv, CommitStage, Idle
  <1> QED
    BY <1>1, <1>4, <1>5, <1>6 DEF JournalInv

LEMMA StutterHolds ==
    ASSUME JournalInv, UNCHANGED vars
    PROVE  JournalInv'
  <1>1. DeviceShape' /\ LockInv'
    BY DEF vars, JournalInv, DeviceShape, LockInv, Committing
  <1>2. MemoryShape'
    BY DEF vars, JournalInv, MemoryShape, OpShape, IsDirtyMap
  <1>3. ASSUME NEW t \in Threads
        PROVE  CommitStage(t)'
    <2>1. HoldsTransaction(op[t].first, dirty[op[t].tx])'
            <=> HoldsTransaction(op[t].first, dirty[op[t].tx])
      BY DEF vars, HoldsTransaction
    <2>2. CommitStage(t)
      BY DEF JournalInv, CommitInv
    <2> QED
      BY <2>1, <2>2 DEF CommitStage, vars, Enumerates
  <1> QED
    BY <1>1, <1>2, <1>3 DEF JournalInv, CommitInv

LEMMA JournalInvariant == Spec => []JournalInv
  <1>1. Init => JournalInv
    BY InitHolds
  <1>2. JournalInv /\ [Next]_vars => JournalInv'
    <2> SUFFICES ASSUME JournalInv, [Next]_vars
                 PROVE  JournalInv'
      OBVIOUS
    <2>1. CASE UNCHANGED vars
      BY <2>1, StutterHolds
    <2>2. CASE Exhausted
      BY <2>1, <2>2 DEF Exhausted
    <2> QED
      BY <2>1, <2>2, StepHolds, CrashHolds DEF Next
  <1> QED
    BY <1>1, <1>2, PTL DEF Spec

-----------------------------------------------------------------------------
(* What it gives *)

\* The type invariant, and with it the lock discipline of CommitTransaction: whoever
\* writes the journal or blocks in place holds fs.txMu, alone, and its TxDevice is no
\* longer fs.dev, however the threads interleave and wherever a commit fails.
THEOREM TypeCorrect == Spec => []TypeOK
  <1>1. JournalInv => TypeOK
    <2> SUFFICES ASSUME JournalInv
                 PROVE  TypeOK
      OBVIOUS
    <2>1. Cardinality(txMu) <= 1
      <3>1. CASE txMu = {}
        BY <3>1, FS_EmptySet
      <3>2. CASE txMu # {}
        <4>1. PICK t \in txMu : txMu = {t}
          BY <3>2 DEF JournalInv, LockInv
        <4> QED
          BY <4>1, FS_Singleton
      <3> QED
        BY <3>1, <3>2
    <2>2. \A t \in txMu : op[t].tx \in 1 .. ntx
      BY DEF JournalInv, LockInv, MemoryShape, OpShape, Committing, Idle
    <2>3. \A x \in TxId : DOMAIN dirty[x] \subseteq Blocks /\ dirty[x] \in [DOMAIN dirty[x] -> BlockData]
      BY DEF JournalInv, MemoryShape, IsDirtyMap
    <2> QED
      BY <2>1, <2>2, <2>3 DEF JournalInv, DeviceShape, MemoryShape, LockInv, TypeOK
  <1> QED
    BY <1>1, JournalInvariant, PTL

\* Write-ahead (CommitTransaction): a commit writes in place only what stands in the
\* journal, complete and escaped, in front of the position its superblock names,
\* for any number of threads that write, roll back, join and commit at the same time.
THEOREM WriteAheadCorrect == Spec => []WriteAhead
  <1>1. JournalInv => WriteAhead
    BY DEF JournalInv, CommitInv, CommitStage, WriteAhead
  <1> QED
    BY <1>1, JournalInvariant, PTL

-----------------------------------------------------------------------------
(* One operation at a time *)

OneThread == \A s, t \in Threads : s = t

\* The blocks d over the device bf are bf with the words ws written.
Made(d, ws, bf) ==
    \A b \in Blocks, i \in {1, 2} :
        (IF b \in DOMAIN d THEN d[b] ELSE bf[b])[i]
          = IF <<b, i>> \in DOMAIN ws THEN ws[<<b, i>>] ELSE bf[b][i]

\* The device is bf with the blocks in S those of d.
Partly(hm, bf, d, S) == \A b \in Blocks : hm[b] = IF b \in S THEN d[b] ELSE bf[b]

HistoryShape ==
    /\ wrote = [t \in Threads |-> wrote[t]] /\ outcome = [t \in Threads |-> outcome[t]]
    /\ \A t \in Threads : DOMAIN wrote[t] \subseteq Blocks \X {1, 2}
    /\ \A x \in TxId : x > ntx => DOMAIN dirty[x] = {}

\* The operation of t when no other thread is there: where its writes are, and what
\* is on the device, at each of its steps.
SerialStage(t) ==
    LET o == op[t] IN
    /\ o.pc = "idle" =>
          /\ dev = Raw
          /\ outcome[t] = "ok" => home = Intended(t)
          /\ outcome[t] \in {"error", "no journal block", "crash"} => home = before
          /\ outcome[t] = "torn" => \A b \in Blocks : home[b] \in {before[b], Intended(t)[b]}
    /\ o.pc \in {"body", "write"} =>
          /\ dev # Raw /\ home = before /\ Made(dirty[dev], wrote[t], before)
          /\ o.pc = "write" => o.on = dev
    /\ Committing(t) => dev = Raw /\ Made(dirty[o.tx], wrote[t], before)
    /\ o.pc \in {"descriptor", "data", "jsb"} => home = before
    /\ o.pc = "writeback" => Partly(home, before, dirty[o.tx], DOMAIN dirty[o.tx] \ o.left)

SerialInv == HistoryShape /\ \A t \in Threads : SerialStage(t)


\* What the operation of t is to make of the device, as its dirty blocks d have it.
LEMMA MadeIntended ==
    ASSUME DeviceShape, NEW t \in Threads, NEW d, IsDirtyMap(d), Made(d, wrote[t], before)
    PROVE  \A b \in Blocks : Intended(t)[b] = IF b \in DOMAIN d THEN d[b] ELSE before[b]
  <1> SUFFICES ASSUME NEW b \in Blocks
               PROVE  Intended(t)[b] = IF b \in DOMAIN d THEN d[b] ELSE before[b]
    OBVIOUS
  <1> DEFINE blk == IF b \in DOMAIN d THEN d[b] ELSE before[b]
  <1>1. blk \in BlockData
    BY DEF IsDirtyMap, DeviceShape
  <1>2. \A i \in {1, 2} : blk[i] = IF <<b, i>> \in DOMAIN wrote[t] THEN wrote[t][<<b, i>>] ELSE before[b][i]
    BY DEF Made
  <1> HIDE DEF blk
  <1>3. Intended(t)[b] = [i \in {1, 2} |-> IF <<b, i>> \in DOMAIN wrote[t]
                                           THEN wrote[t][<<b, i>>] ELSE before[b][i]]
    BY DEF Intended
  <1>4. blk = [i \in {1, 2} |-> blk[i]]
    BY <1>1 DEF BlockData
  <1> QED
    BY <1>2, <1>3, <1>4 DEF blk

\* The device is what was intended, or what it was, if it is so block by block.
LEMMA DeviceExtensional ==
    ASSUME NEW hm \in [Blocks -> BlockData], NEW t \in Threads,
           \A b \in Blocks : hm[b] = Intended(t)[b]
    PROVE  hm = Intended(t)
  <1>1. DOMAIN Intended(t) = Blocks /\ Intended(t) = [b \in Blocks |-> Intended(t)[b]]
    BY DEF Intended
  <1> QED
    BY <1>1

\* A write reaches the dirty blocks and the history alike.
LEMMA WriteMade ==
    ASSUME home \in [Blocks -> BlockData], NEW d, IsDirtyMap(d), NEW ws,
           NEW b \in Blocks, NEW i \in {1, 2}, NEW w \in Word, Made(d, ws, home)
    PROVE  Made(WriteAt(d, b, i, w), Noted(ws, b, i, w), home)
  <1> DEFINE e == WriteAt(d, b, i, w)
             old == IF b \in DOMAIN d THEN d[b] ELSE home[b]
             xs == Noted(ws, b, i, w)
  <1>1. old \in BlockData
    BY DEF IsDirtyMap
  <1> HIDE DEF old
  <1>2. DOMAIN e = DOMAIN d \union {b} /\ e[b] = [old EXCEPT ![i] = w]
        /\ \A c \in DOMAIN d : c # b => e[c] = d[c]
    BY DEF WriteAt, old
  <1>3. DOMAIN xs = DOMAIN ws \union {<<b, i>>} /\ xs[<<b, i>>] = w
        /\ \A x \in DOMAIN ws : x # <<b, i>> => xs[x] = ws[x]
    BY DEF Noted
  <1> HIDE DEF e, xs
  <1> SUFFICES ASSUME NEW c \in Blocks, NEW j \in {1, 2}
               PROVE  (IF c \in DOMAIN e THEN e[c] ELSE home[c])[j]
                        = IF <<c, j>> \in DOMAIN xs THEN xs[<<c, j>>] ELSE home[c][j]
    BY DEF Made, e, xs
  <1>4. (IF c \in DOMAIN d THEN d[c] ELSE home[c])[j]
          = IF <<c, j>> \in DOMAIN ws THEN ws[<<c, j>>] ELSE home[c][j]
    BY DEF Made
  <1>5. CASE c = b /\ j = i
    BY <1>1, <1>2, <1>3, <1>5 DEF BlockData
  <1>6. CASE c = b /\ j # i
    <2>1. e[b][j] = old[j]
      BY <1>1, <1>2, <1>6 DEF BlockData
    <2>2. <<c, j>> # <<b, i>>
      BY <1>6
    <2> QED
      BY <1>2, <1>3, <1>4, <1>6, <2>1, <2>2 DEF old
  <1>7. CASE c # b
    <2>1. <<c, j>> # <<b, i>>
      BY <1>7
    <2> QED
      BY <1>2, <1>3, <1>4, <1>7, <2>1
  <1> QED
    BY <1>5, <1>6, <1>7

\* With one thread, what is left to show of a step of it.
LEMMA SerialStep ==
    ASSUME OneThread, NEW t \in Threads, HistoryShape', SerialStage(t)'
    PROVE  SerialInv'
  <1>1. \A s \in Threads : s = t
    BY DEF OneThread
  <1> QED
    BY <1>1 DEF SerialInv

\* An operation that has ended.
LEMMA Ended ==
    ASSUME NEW t, op'[t] = Idle
    PROVE  op'[t].pc = "idle" /\ ~Committing(t)'
  BY DEF Idle, Committing

\* The operation ends with the outcome how.
LEMMA SerialReturn ==
    ASSUME JournalInv, SerialInv, OneThread, NEW t \in Threads, NEW how,
           op' = [op EXCEPT ![t] = Idle], outcome' = [outcome EXCEPT ![t] = how],
           UNCHANGED <<wrote, before, dirty, ntx>>, dev' = Raw,
           how = "ok" => home' = Intended(t),
           how \in {"error", "no journal block", "crash"} => home' = before,
           how = "torn" => \A b \in Blocks : home'[b] \in {before[b], Intended(t)[b]}
    PROVE  SerialInv'
  <1>1. op'[t] = Idle
    BY ThreadStep DEF JournalInv
  <1>2. outcome'[t] = how
    BY DEF SerialInv, HistoryShape
  <1>3. HistoryShape'
    BY DEF SerialInv, HistoryShape
  <1>4. Intended(t)' = Intended(t)
    BY DEF Intended
  <1>5. op'[t].pc = "idle" /\ ~Committing(t)'
    BY <1>1, Ended
  <1>6. SerialStage(t)'
    BY <1>2, <1>4, <1>5 DEF SerialStage
  <1> QED
    BY <1>3, <1>6, SerialStep

\* The state of a commit that has not begun to write in place, or has.
LEMMA SerialCommit ==
    ASSUME JournalInv, SerialInv, NEW t \in Threads, Committing(t)
    PROVE  LET d == dirty[op[t].tx] IN
           /\ IsDirtyMap(d) /\ dev = Raw /\ Made(d, wrote[t], before)
           /\ op[t].pc # "writeback" => home = before
           /\ op[t].pc = "writeback" => /\ Partly(home, before, d, DOMAIN d \ op[t].left)
                                        /\ op[t].left \subseteq DOMAIN d
           /\ \A b \in Blocks : Intended(t)[b] = IF b \in DOMAIN d THEN d[b] ELSE before[b]
  <1>1. op[t].tx \in TxId /\ (op[t].pc = "writeback" => op[t].left \subseteq DOMAIN dirty[op[t].tx])
    BY Sizes DEF JournalInv, MemoryShape, OpShape, Committing, Idle, TxId
  <1>2. IsDirtyMap(dirty[op[t].tx])
    BY <1>1 DEF JournalInv, MemoryShape
  <1>3. SerialStage(t)
    BY DEF SerialInv
  <1>4. Made(dirty[op[t].tx], wrote[t], before) /\ dev = Raw
    BY <1>3 DEF SerialStage
  <1>5. \A b \in Blocks : Intended(t)[b] = IF b \in DOMAIN dirty[op[t].tx] THEN dirty[op[t].tx][b] ELSE before[b]
    BY <1>2, <1>4, MadeIntended DEF JournalInv
  <1>6. op[t].pc # "writeback" => home = before
    BY <1>3 DEF SerialStage, Committing
  <1>7. op[t].pc = "writeback" =>
          Partly(home, before, dirty[op[t].tx], DOMAIN dirty[op[t].tx] \ op[t].left)
    BY <1>3 DEF SerialStage
  <1> QED
    BY <1>1, <1>2, <1>4, <1>5, <1>6, <1>7

\* A step of the body keeps it: the writes are in the TxDevice, the device is as it was.
LEMMA SerialBody ==
    ASSUME JournalInv, SerialInv, OneThread, NEW t \in Threads, Body(t)
    PROVE  SerialInv'
  <1>1. SerialStage(t) /\ HistoryShape /\ home \in [Blocks -> BlockData] /\ OpShape(op[t])
    BY DEF SerialInv, JournalInv, DeviceShape, MemoryShape
  <1>2. ntx \in Nat /\ dev \in 0 .. ntx /\ ntx \in 0 .. MaxTx
    BY Sizes DEF JournalInv, MemoryShape
  <1>3. \A x \in TxId : IsDirtyMap(dirty[x])
    BY DEF JournalInv, MemoryShape
  <1>4. CASE BeginTransaction(t)
    <2>1. op'[t] = [pc |-> "body", n |-> 0]
      BY <1>4, ThreadStep DEF BeginTransaction, JournalInv
    <2>2. dev = Raw
      BY <1>1, <1>4 DEF BeginTransaction, SerialStage
    <2>3. dev' = ntx + 1 /\ ntx' = ntx + 1 /\ ntx < MaxTx
          /\ UNCHANGED <<home, dirty, outcome>> /\ before' = home
          /\ wrote' = [wrote EXCEPT ![t] = <<>>]
      BY <1>4, <2>2 DEF BeginTransaction, DeviceUnchanged
    <2>4. dev' \in TxId /\ dev' # Raw /\ dev' > ntx
      BY <1>2, <2>3, Sizes DEF TxId, Raw
    <2>5. DOMAIN dirty[dev'] = {}
      BY <1>1, <2>4 DEF HistoryShape
    <2>6. wrote'[t] = <<>> /\ wrote' = [s \in Threads |-> wrote'[s]]
          /\ \A s \in Threads : s # t => wrote'[s] = wrote[s]
      BY <1>1, <2>3 DEF HistoryShape
    <2>7. DOMAIN wrote'[t] = {}
      BY <2>6
    <2>8. Made(dirty[dev'], wrote'[t], before')
      BY <2>5, <2>7 DEF Made
    <2>9. \A x \in TxId : x > ntx' => DOMAIN dirty'[x] = {}
      BY <1>1, <1>2, <2>3 DEF HistoryShape, TxId
    <2>10. HistoryShape'
      BY <1>1, <2>3, <2>6, <2>7, <2>9 DEF HistoryShape
    <2>11. SerialStage(t)'
      BY <2>1, <2>3, <2>4, <2>8 DEF SerialStage, Committing
    <2> QED
      BY <2>10, <2>11, SerialStep
  <1>5. ASSUME NEW b \in BlocksOf(t), NEW x \in Writes, TakeDevice(t, b, x[1], x[2])
        PROVE  SerialInv'
    <2>1. op'[t] = [pc |-> "write", n |-> op[t].n + 1, on |-> dev, b |-> b, i |-> x[1], w |-> x[2]]
      BY <1>5, ThreadStep DEF TakeDevice, JournalInv
    <2>2. UNCHANGED <<home, dev, dirty, ntx, wrote, before, outcome>> /\ op[t].pc = "body"
      BY <1>5 DEF TakeDevice, DeviceUnchanged, HistoryUnchanged
    <2>3. HistoryShape'
      BY <1>1, <2>2 DEF HistoryShape
    <2>4. op'[t].pc = "write" /\ op'[t].on = dev
      BY <2>1
    <2>5. dev # Raw /\ home = before /\ Made(dirty[dev], wrote[t], before)
      BY <1>1, <2>2 DEF SerialStage
    <2>6. SerialStage(t)'
      BY <2>2, <2>4, <2>5 DEF SerialStage, Committing
    <2> QED
      BY <2>3, <2>6, SerialStep
  <1>6. CASE DoWrite(t)
    <2> DEFINE o == op[t]
    <2>1. o.pc = "write" /\ op'[t] = [pc |-> "body", n |-> o.n]
      BY <1>6, ThreadStep DEF DoWrite, JournalInv
    <2>2. o.b \in Blocks /\ o.i \in {1, 2} /\ o.w \in Word
      BY <1>1, <2>1 DEF OpShape, Idle
    <2>3. o.on = dev /\ dev # Raw /\ home = before /\ Made(dirty[dev], wrote[t], before)
      BY <1>1, <2>1 DEF SerialStage
    <2>4. dev \in TxId
      BY <1>2, <2>3, Sizes DEF TxId, Raw
    <2>5. dirty' = [dirty EXCEPT ![dev] = WriteAt(dirty[dev], o.b, o.i, o.w)]
          /\ wrote' = [wrote EXCEPT ![t] = Noted(wrote[t], o.b, o.i, o.w)]
          /\ UNCHANGED <<home, dev, ntx, before, outcome>>
      BY <1>6, <2>3 DEF DoWrite
    <2> HIDE DEF o
    <2>6. dirty = [x \in TxId |-> dirty[x]]
      BY DEF JournalInv, MemoryShape
    <2>7. dirty'[dev] = WriteAt(dirty[dev], o.b, o.i, o.w)
          /\ \A x \in TxId : x # dev => dirty'[x] = dirty[x]
      BY <2>4, <2>5, <2>6
    <2>8. wrote'[t] = Noted(wrote[t], o.b, o.i, o.w) /\ wrote' = [s \in Threads |-> wrote'[s]]
          /\ \A s \in Threads : s # t => wrote'[s] = wrote[s]
      BY <1>1, <2>5 DEF HistoryShape
    <2>9. DOMAIN wrote'[t] \subseteq Blocks \X {1, 2}
      <3>1. DOMAIN wrote'[t] = DOMAIN wrote[t] \union {<<o.b, o.i>>}
        BY <2>8 DEF Noted
      <3> QED
        BY <1>1, <2>2, <3>1 DEF HistoryShape
    <2>10. Made(WriteAt(dirty[dev], o.b, o.i, o.w), Noted(wrote[t], o.b, o.i, o.w), home)
      BY <1>1, <1>3, <2>2, <2>3, <2>4, WriteMade
    <2>11. HistoryShape'
      <3>1. \A x \in TxId : x > ntx' => DOMAIN dirty'[x] = {}
        BY <1>1, <1>2, <2>5, <2>7 DEF HistoryShape, TxId
      <3> QED
        BY <1>1, <2>5, <2>8, <2>9, <3>1 DEF HistoryShape
    <2>12. SerialStage(t)'
      BY <2>1, <2>3, <2>5, <2>7, <2>8, <2>10 DEF SerialStage, Committing
    <2> QED
      BY <2>11, <2>12, SerialStep
  <1>7. CASE RollbackTransaction(t)
    <2>1. home = before
      BY <1>1, <1>7 DEF RollbackTransaction, SerialStage
    <2> QED
      BY <1>7, <2>1, SerialReturn DEF RollbackTransaction, Return, DeviceUnchanged
  <1> QED
    BY <1>4, <1>5, <1>6, <1>7 DEF Body

\* A step of the commit keeps it.
LEMMA SerialCommitStep ==
    ASSUME JournalInv, SerialInv, OneThread, NEW t \in Threads, CommitTransaction(t)
    PROVE  SerialInv'
  <1>1. SerialStage(t) /\ HistoryShape /\ home \in [Blocks -> BlockData] /\ OpShape(op[t])
    BY DEF SerialInv, JournalInv, DeviceShape, MemoryShape
  <1>2. dev \in TxId \union {Raw} /\ \A x \in TxId : IsDirtyMap(dirty[x])
    BY Sizes DEF JournalInv, MemoryShape, TxId, Raw
  <1>3. op[t].pc = "body" => /\ dev # Raw /\ dev \in TxId /\ home = before
                             /\ DirtyBlocks = DOMAIN dirty[dev]
                             /\ Made(dirty[dev], wrote[t], before)
    BY <1>1, <1>2 DEF SerialStage, DirtyBlocks
  <1>4. CASE CommitEmpty(t)
    <2>1. \A b \in Blocks : home[b] = Intended(t)[b]
      BY <1>2, <1>3, <1>4, MadeIntended DEF CommitEmpty, JournalInv
    <2>2. home = Intended(t)
      BY <1>1, <2>1, DeviceExtensional
    <2> QED
      BY <1>4, <2>2, SerialReturn DEF CommitEmpty, Return, DeviceUnchanged
  <1>5. CASE CommitDirect(t)
    <2>1. op'[t] = [pc |-> "writeback", tx |-> dev, left |-> DirtyBlocks]
      BY <1>5, ThreadStep DEF CommitDirect, JournalInv
    <2>2. UNCHANGED <<home, dirty, ntx, wrote, before, outcome>> /\ dev' = Raw
      BY <1>5 DEF CommitDirect, DeviceUnchanged, HistoryUnchanged
    <2>3. op'[t].pc = "writeback" /\ op'[t].tx = dev /\ op'[t].left = DOMAIN dirty[dev]
      BY <1>3, <1>5, <2>1 DEF CommitDirect
    <2>4. Partly(home, before, dirty[dev], DOMAIN dirty[dev] \ op'[t].left)
      BY <1>3, <1>5, <2>3 DEF Partly, CommitDirect
    <2>5. SerialStage(t)'
      BY <1>3, <1>5, <2>2, <2>3, <2>4 DEF SerialStage, CommitDirect
    <2>6. HistoryShape'
      BY <1>1, <2>2 DEF HistoryShape
    <2> QED
      BY <2>5, <2>6, SerialStep
  <1>6. ASSUME NEW order \in SetToSeqs(DirtyBlocks), CommitJournal(t, order)
        PROVE  SerialInv'
    <2>1. op'[t] = [pc |-> "descriptor", tx |-> dev, order |-> order, pos |-> FirstPos]
      BY <1>6, ThreadStep DEF CommitJournal, JournalInv
    <2>2. UNCHANGED <<home, dirty, ntx, wrote, before, outcome>> /\ dev' = Raw
      BY <1>6 DEF CommitJournal, DeviceUnchanged, HistoryUnchanged
    <2>3. op'[t].pc = "descriptor" /\ op'[t].tx = dev
      BY <2>1
    <2>4. SerialStage(t)'
      BY <1>3, <1>6, <2>2, <2>3 DEF SerialStage, CommitJournal
    <2>5. HistoryShape'
      BY <1>1, <2>2 DEF HistoryShape
    <2> QED
      BY <2>4, <2>5, SerialStep
  <1>7. ASSUME NEW v, op' = [op EXCEPT ![t] = v], Committing(t), op[t].pc # "writeback",
               v.pc \in {"data", "jsb"} \/ (v.pc = "writeback" /\ v.left = DOMAIN dirty[op[t].tx]),
               v.tx = op[t].tx, UNCHANGED <<home, dev, dirty, ntx, wrote, before, outcome>>
        PROVE  SerialInv'
    <2>1. op'[t] = v
      BY <1>7, ThreadStep DEF JournalInv
    <2>2. dev = Raw /\ Made(dirty[op[t].tx], wrote[t], before) /\ home = before
      BY <1>7, SerialCommit
    <2>3. HistoryShape'
      BY <1>1, <1>7 DEF HistoryShape
    <2>4. v.pc = "writeback" => Partly(home, before, dirty[op[t].tx], DOMAIN dirty[op[t].tx] \ v.left)
      BY <1>7, <2>2 DEF Partly
    <2>5. SerialStage(t)'
      BY <1>7, <2>1, <2>2, <2>4 DEF SerialStage
    <2> QED
      BY <2>3, <2>5, SerialStep
  <1>8. CASE WriteDescriptor(t) \/ WriteData(t) \/ WriteCommitBlock(t)
    <2>1. PICK r, v : /\ WriteRecord(t, r, v) /\ v.pc \in {"data", "jsb"} /\ v.tx = op[t].tx
                      /\ op[t].pc \in {"descriptor", "data"}
      <3>1. CASE WriteDescriptor(t)
        BY <3>1 DEF WriteDescriptor
      <3>2. CASE WriteData(t)
        <4> DEFINE o == op[t]
                   v == [o EXCEPT !.k = @ + 1, !.pos = NextPos(@)]
        <4>1. WriteRecord(t, [type |-> "data", data |-> Escape(dirty[o.tx][o.order[o.k]])], v)
              /\ o.pc = "data"
          BY <3>2 DEF WriteData
        <4>2. v.pc = o.pc /\ v.tx = o.tx
          OBVIOUS
        <4> HIDE DEF v
        <4> QED
          BY <4>1, <4>2
      <3>3. CASE WriteCommitBlock(t)
        BY <3>3 DEF WriteCommitBlock
      <3> QED
        BY <1>8, <3>1, <3>2, <3>3
    <2>2. op' = [op EXCEPT ![t] = v] /\ UNCHANGED <<home, dev, dirty, ntx, wrote, before, outcome>>
      BY <2>1 DEF WriteRecord, HistoryUnchanged
    <2>3. Committing(t) /\ op[t].pc # "writeback"
      BY <2>1 DEF Committing
    <2> QED
      BY <1>7, <2>1, <2>2, <2>3
  <1>9. CASE WriteJournalSuper(t)
    <2> DEFINE v == [pc |-> "writeback", tx |-> op[t].tx, first |-> op[t].first,
                     left |-> DOMAIN dirty[op[t].tx]]
    <2>1. op' = [op EXCEPT ![t] = v] /\ UNCHANGED <<home, dev, dirty, ntx, wrote, before, outcome>>
          /\ op[t].pc = "jsb"
      BY <1>9 DEF WriteJournalSuper, HistoryUnchanged
    <2>2. Committing(t) /\ op[t].pc # "writeback"
      BY <2>1 DEF Committing
    <2>3. v.pc = "writeback" /\ v.tx = op[t].tx /\ v.left = DOMAIN dirty[op[t].tx]
      OBVIOUS
    <2> HIDE DEF v
    <2> QED
      BY <1>7, <2>1, <2>2, <2>3
  <1>10. ASSUME NEW b \in Blocks, WriteBack(t, b)
         PROVE  SerialInv'
    <2> DEFINE o == op[t]
               d == dirty[o.tx]
    <2>1. o.pc = "writeback" /\ b \in o.left /\ Committing(t)
          /\ home' = [home EXCEPT ![b] = d[b]]
          /\ UNCHANGED <<dev, dirty, ntx, wrote, before>>
      BY <1>10 DEF WriteBack, Committing
    <2>2. /\ IsDirtyMap(d) /\ dev = Raw /\ Made(d, wrote[t], before)
          /\ Partly(home, before, d, DOMAIN d \ o.left) /\ o.left \subseteq DOMAIN d
          /\ \A c \in Blocks : Intended(t)[c] = IF c \in DOMAIN d THEN d[c] ELSE before[c]
      BY <2>1, SerialCommit
    <2> HIDE DEF d
    <2>3. \A c \in Blocks : home'[c] = IF c \in DOMAIN d \ (o.left \ {b}) THEN d[c] ELSE before[c]
      BY <1>1, <2>1, <2>2 DEF Partly
    <2>4. CASE o.left = {b}
      <3>1. \A c \in Blocks : home'[c] = Intended(t)[c]
        BY <2>2, <2>3, <2>4
      <3>2. home' \in [Blocks -> BlockData]
        BY <1>1, <2>1, <2>2 DEF IsDirtyMap
      <3>3. home' = Intended(t)
        BY <3>1, <3>2, DeviceExtensional
      <3> QED
        BY <1>10, <2>1, <2>2, <2>4, <3>3, SerialReturn DEF WriteBack, Return
    <2>5. CASE o.left # {b}
      <3> DEFINE v == [o EXCEPT !.left = @ \ {b}]
      <3>1. op' = [op EXCEPT ![t].left = @ \ {b}] /\ UNCHANGED outcome
        BY <1>10, <2>5 DEF WriteBack
      <3>2. op' = [op EXCEPT ![t] = v]
        BY <3>1
      <3>3. op'[t] = v
        BY <3>2, ThreadStep DEF JournalInv
      <3>4. \/ o = [pc |-> "writeback", tx |-> o.tx, left |-> o.left]
            \/ o = [pc |-> "writeback", tx |-> o.tx, first |-> o.first, left |-> o.left]
        BY <1>1, <2>1 DEF OpShape, Idle
      <3>5. v.pc = "writeback" /\ v.tx = o.tx /\ v.left = o.left \ {b}
        BY <3>4
      <3> HIDE DEF v
      <3>6. op'[t].pc = "writeback" /\ op'[t].tx = o.tx /\ op'[t].left = o.left \ {b}
            /\ dirty'[op'[t].tx] = d
        BY <2>1, <3>3, <3>5 DEF d
      <3>7. Partly(home', before', d, DOMAIN d \ op'[t].left)
        BY <2>1, <2>3, <3>6 DEF Partly
      <3>8. SerialStage(t)'
        BY <2>1, <2>2, <3>6, <3>7 DEF SerialStage
      <3>9. HistoryShape'
        BY <1>1, <2>1, <3>1 DEF HistoryShape
      <3> QED
        BY <3>8, <3>9, SerialStep
    <2> QED
      BY <2>4, <2>5
  <1>11. CASE NoPhysicalBlock(t) \/ TooManyTags(t)
    <2>1. Committing(t) /\ op[t].pc # "writeback"
      BY <1>11 DEF NoPhysicalBlock, TooManyTags, Committing
    <2>2. home = before /\ dev = Raw
      BY <2>1, SerialCommit
    <2> QED
      BY <1>11, <2>2, SerialReturn DEF NoPhysicalBlock, TooManyTags, Return, DeviceUnchanged
  <1>12. CASE CommitFails(t)
    <2>1. Committing(t) /\ UNCHANGED <<home, dev, dirty, ntx, wrote, before>>
      BY <1>12 DEF CommitFails, DeviceUnchanged
    <2>2. dev = Raw /\ (op[t].pc # "writeback" => home = before)
      BY <2>1, SerialCommit
    <2>3. op[t].pc = "writeback" => \A b \in Blocks : home[b] \in {before[b], Intended(t)[b]}
      BY <2>1, SerialCommit DEF Partly
    <2> DEFINE how == IF op[t].pc = "writeback" THEN "torn" ELSE "error"
    <2>4. op' = [op EXCEPT ![t] = Idle] /\ outcome' = [outcome EXCEPT ![t] = how]
      BY <1>12 DEF CommitFails, Return
    <2>5. /\ how # "ok"
          /\ how \in {"error", "no journal block", "crash"} => home' = before
          /\ how = "torn" => \A b \in Blocks : home'[b] \in {before[b], Intended(t)[b]}
      BY <2>1, <2>2, <2>3
    <2> HIDE DEF how
    <2> QED
      BY <2>1, <2>2, <2>4, <2>5, SerialReturn
  <1> QED
    BY <1>4, <1>5, <1>6, <1>8, <1>9, <1>10, <1>11, <1>12 DEF CommitTransaction

\* The process dies: only a write back is cut short.
LEMMA SerialCrash ==
    ASSUME JournalInv, SerialInv, OneThread, Crash
    PROVE  SerialInv'
  <1>1. PICK t \in Threads : op[t].pc # "idle"
    BY DEF Crash
  <1>2. SerialStage(t) /\ HistoryShape /\ OpShape(op[t])
    BY DEF SerialInv, JournalInv, MemoryShape
  <1>3. UNCHANGED <<home, ntx, wrote, before>> /\ dev' = Raw
        /\ op'[t] = Idle /\ outcome'[t] = IF op[t].pc = "writeback" THEN "torn" ELSE "crash"
    BY <1>1 DEF Crash, DeviceUnchanged
  <1>4. HistoryShape'
    <2>1. dirty' = [x \in TxId |-> NoBlocks] /\ outcome' = [s \in Threads |-> outcome'[s]]
      BY DEF Crash
    <2>2. DOMAIN NoBlocks = {}
      BY DEF NoBlocks
    <2> QED
      BY <1>2, <1>3, <2>1, <2>2 DEF HistoryShape
  <1>5. Intended(t)' = Intended(t)
    BY <1>3 DEF Intended
  <1>6. op[t].pc # "writeback" => home = before
    <2>1. op[t].pc \in {"body", "write", "descriptor", "data", "jsb", "writeback"}
      BY <1>1, <1>2 DEF OpShape, Idle
    <2> QED
      BY <1>2, <2>1 DEF SerialStage
  <1>7. op[t].pc = "writeback" => \A b \in Blocks : home[b] \in {before[b], Intended(t)[b]}
    BY SerialCommit DEF Partly, Committing
  <1>8. op'[t].pc = "idle" /\ ~Committing(t)'
    BY <1>3, Ended
  <1>9. SerialStage(t)'
    BY <1>3, <1>5, <1>6, <1>7, <1>8 DEF SerialStage
  <1> QED
    BY <1>4, <1>9, SerialStep

LEMMA SerialInit ==
    ASSUME Init
    PROVE  SerialInv
  <1>1. \A t \in Threads : op[t].pc = "idle" /\ ~Committing(t) /\ outcome[t] = "none"
    BY DEF Init, Idle, Committing
  <1>2. \A t \in Threads : SerialStage(t)
    BY <1>1 DEF SerialStage, Init
  <1>3. HistoryShape
    BY DEF HistoryShape, Init, NoBlocks
  <1> QED
    BY <1>2, <1>3 DEF SerialInv

LEMMA SerialInvariant == ASSUME OneThread PROVE Spec => []SerialInv
  <1>1. Init => SerialInv
    BY SerialInit
  <1>2. JournalInv /\ SerialInv /\ [Next]_vars => SerialInv'
    <2> SUFFICES ASSUME JournalInv, SerialInv, [Next]_vars
                 PROVE  SerialInv'
      OBVIOUS
    <2>1. CASE UNCHANGED vars
      <3>1. HistoryShape'
        BY <2>1 DEF vars, SerialInv, HistoryShape
      <3>2. ASSUME NEW t \in Threads
            PROVE  SerialStage(t)'
        <4>1. Intended(t)' = Intended(t)
          BY <2>1 DEF Intended, vars
        <4>2. SerialStage(t)
          BY DEF SerialInv
        <4> QED
          BY <2>1, <4>1, <4>2 DEF SerialStage, vars, Committing
      <3> QED
        BY <3>1, <3>2 DEF SerialInv
    <2>2. CASE Exhausted
      BY <2>1, <2>2 DEF Exhausted
    <2> QED
      BY <2>1, <2>2, SerialBody, SerialCommitStep, SerialCrash DEF Next
  <1> QED
    BY <1>1, <1>2, JournalInvariant, PTL DEF Spec

\* TxDevice.ReadAt (one operation at a time): an operation reads through fs.dev what it
\* wrote, whichever words of whichever blocks its writes share.
THEOREM ReadsOwnWritesCorrect == ASSUME OneThread PROVE Spec => []ReadsOwnWrites
  <1>1. JournalInv /\ SerialInv => ReadsOwnWrites
    <2> SUFFICES ASSUME JournalInv, SerialInv, NEW t \in Threads, op[t].pc = "body",
                        NEW x \in DOMAIN wrote[t]
                 PROVE  ReadAt(dev, x[1])[x[2]] = wrote[t][x]
      BY DEF ReadsOwnWrites
    <2>1. dev # Raw /\ home = before /\ Made(dirty[dev], wrote[t], before)
      BY DEF SerialInv, SerialStage
    <2>2. PICK b \in Blocks, i \in {1, 2} : x = <<b, i>>
      BY DEF SerialInv, HistoryShape
    <2>3. (IF b \in DOMAIN dirty[dev] THEN dirty[dev][b] ELSE before[b])[i] = wrote[t][x]
      BY <2>1, <2>2 DEF Made
    <2> QED
      BY <2>1, <2>2, <2>3 DEF ReadAt
  <1> QED
    BY <1>1, JournalInvariant, SerialInvariant, PTL

\* CommitTransaction (one operation at a time): an operation that reported success is
\* on the device, every word of it and nothing else, with a journal or without.
THEOREM SuccessCorrect == ASSUME OneThread PROVE Spec => []SuccessIsOnDevice
  <1>1. SerialInv => SuccessIsOnDevice
    <2> SUFFICES ASSUME SerialInv
                 PROVE  SuccessIsOnDevice
      OBVIOUS
    <2>1. \A t \in Threads : op[t] = Idle => op[t].pc = "idle"
      BY DEF Idle
    <2>2. \A t \in Threads : SerialStage(t)
      BY DEF SerialInv
    <2> QED
      BY <2>1, <2>2 DEF SerialStage, SuccessIsOnDevice
  <1> QED
    BY <1>1, SerialInvariant, PTL

\* RollbackTransaction and every failing path of CommitTransaction (one operation at a
\* time): a failed operation left the device as it was, and one cut short in its write
\* back left every block old or new.
THEOREM FailureCorrect == ASSUME OneThread PROVE Spec => []FailureLeavesDevice
  <1>1. SerialInv => FailureLeavesDevice
    <2> SUFFICES ASSUME SerialInv
                 PROVE  FailureLeavesDevice
      OBVIOUS
    <2>1. \A t \in Threads : op[t] = Idle => op[t].pc = "idle"
      BY DEF Idle
    <2>2. \A t \in Threads : SerialStage(t)
      BY DEF SerialInv
    <2> QED
      BY <2>1, <2>2 DEF SerialStage, FailureLeavesDevice
  <1> QED
    BY <1>1, SerialInvariant, PTL
=============================================================================

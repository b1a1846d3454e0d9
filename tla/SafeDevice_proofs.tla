-------------------------- MODULE SafeDevice_proofs -------------------------
(***************************************************************************)
(* Theorems about the SafeDevice of vfs/redolog.go, for devices, caches,   *)
(* request sets and numbers of threads of any size.                        *)
(***************************************************************************)
EXTENDS SafeDevice, BlockCache_proofs, FiniteSetTheorems, SequenceTheorems

\* Requests are sets of addresses, and addresses are natural numbers.
LEMMA RequestAddresses == Addr \subseteq Nat /\ \A R \in Requests : R \subseteq Addr
  <1>1. Addr \subseteq Nat
    BY SizesAssumption DEF Addr
  <1>2. \A off, n : Interval(off, n) \subseteq Addr
    BY DEF Interval
  <1> QED
    BY <1>1, <1>2, RequestsAssumption

\* No request is empty.
LEMMA NonEmptyRequests == \A R \in Requests : R # {}
  <1> SUFFICES ASSUME NEW off \in Addr, NEW n \in 1 .. DevSize
               PROVE  off \in Interval(off, n)
    BY RequestsAssumption
  <1>1. off \in Nat /\ n \in Nat /\ n >= 1
    BY SizesAssumption DEF Addr
  <1> QED
    BY <1>1 DEF Interval

\* Every block of the cache is a request.
LEMMA BlocksAreRequests ==
    ASSUME ShapeOK
    PROVE  \A j \in DOMAIN cache : DOMAIN cache[j] \in Requests
  <1>1. PICK n \in 0 .. CacheSlots : /\ cache = [i \in 1 .. n |-> cache[i]]
                                     /\ \A i \in 1 .. n : DOMAIN cache[i] \in Requests
    BY DEF ShapeOK, IsBlockList
  <1> QED
    BY <1>1

\* A thread's record is replaced: the others keep their shape.
LEMMA CallStep ==
    ASSUME ShapeOK, NEW t \in Threads, NEW v, CallShape(v), op' = [op EXCEPT ![t] = v]
    PROVE  op' = [s \in Threads |-> op'[s]] /\ \A s \in Threads : CallShape(op'[s])
  <1>1. op = [s \in Threads |-> op[s]] /\ \A s \in Threads : CallShape(op[s])
    BY DEF ShapeOK
  <1>2. op' = [s \in Threads |-> IF s = t THEN v ELSE op[s]]
    BY <1>1
  <1> QED
    BY <1>1, <1>2

\* A thread goes on at another step with the fields of its call as they are.
LEMMA GotoStep ==
    ASSUME ShapeOK, NEW t \in Threads, NEW pc, Goto(t, pc),
           CallShape([op[t] EXCEPT !.pc = pc])
    PROVE  op' = [s \in Threads |-> op'[s]] /\ \A s \in Threads : CallShape(op'[s])
  BY CallStep DEF Goto

\* The empty cache.
LEMMA EmptyCache ==
    ASSUME NEW disk0, NEW W
    PROVE  IsBlockList(<<>>, Requests, CacheSlots) /\ WidestFirst(<<>>)
           /\ FreshOrShadowed(<<>>, disk0, W)
  <1>1. <<>> = [i \in 1 .. 0 |-> <<>>[i]] /\ 0 \in 0 .. CacheSlots
    BY SizesAssumption
  <1>2. DOMAIN <<>> = {}
    OBVIOUS
  <1> QED
    BY <1>1, <1>2 DEF IsBlockList, WidestFirst, FreshOrShadowed

-----------------------------------------------------------------------------
(* The shape of the state, and the order of the cache *)

ListInv == ShapeOK /\ WiderFirst

OpShape == op = [t \in Threads |-> op[t]] /\ \A t \in Threads : CallShape(op[t])

\* A step of a call that changes neither device nor cache.
LEMMA QuietStep ==
    ASSUME ListInv, mode = "up", UNCHANGED <<disk, cache, mode, seen>>, OpShape'
    PROVE  ListInv'
  BY DEF ListInv, ShapeOK, WiderFirst, OpShape

\* A step of a call that puts a request into the cache.
LEMMA FillStep ==
    ASSUME ListInv, mode = "up", UNCHANGED <<disk, mode, seen>>, OpShape',
           NEW d, DOMAIN d \in Requests, cache' = updateCache(cache, d, CacheSlots)
    PROVE  ListInv'
  <1>1. IsBlockList(cache, Requests, CacheSlots) /\ WidestFirst(cache)
    BY DEF ListInv, ShapeOK, WiderFirst
  <1>2. IsBlockList(cache', Requests, CacheSlots) /\ WidestFirst(cache')
    BY <1>1, SizesAssumption, UpdateKeepsList
  <1> QED
    BY <1>2 DEF ListInv, ShapeOK, WiderFirst, OpShape

\* A step that starts or ends a mount.
LEMMA FreshStep ==
    ASSUME ListInv, Fresh, UNCHANGED disk, mode' \in {"down", "recovering", "up"}
    PROVE  ListInv'
  <1>1. OpShape' /\ \A t \in Threads : op'[t] = Idle
    BY DEF Fresh, OpShape, CallShape
  <1>2. cache' = <<>> /\ seen' = [a \in Addr |-> {disk[a]}]
    BY DEF Fresh
  <1>3. IsBlockList(cache', Requests, CacheSlots) /\ WidestFirst(cache')
    BY <1>2, EmptyCache
  <1> QED
    BY <1>1, <1>2, <1>3 DEF ListInv, ShapeOK, WiderFirst, OpShape

\* The steps of ReadAt keep shape and order.
LEMMA ReadKeepsList ==
    ASSUME ListInv, NEW t \in Threads, Read(t)
    PROVE  ListInv'
  <1>0. ShapeOK /\ CallShape(op[t])
    BY DEF ListInv, ShapeOK
  <1>1. ASSUME NEW R \in Requests, ReadHit(t, R)
        PROVE  ListInv'
    BY <1>1 DEF ReadHit, vars, ListInv, ShapeOK, WiderFirst
  <1>2. ASSUME NEW R \in Requests, ReadMiss(t, R)
        PROVE  ListInv'
    <2>1. CallShape([pc |-> "readInner", rng |-> R])
      BY DEF CallShape
    <2>2. OpShape'
      BY <1>0, <1>2, <2>1, CallStep DEF ReadMiss, OpShape
    <2> QED
      BY <1>2, <2>2, QuietStep DEF ReadMiss, At, MountUnchanged
  <1>3. CASE ReadInner(t)
    <2>1. op[t].rng \in Requests
      BY <1>0, <1>3 DEF CallShape, ReadInner, At, Idle
    <2>2. CallShape([pc |-> "readFill", old |-> [a \in op[t].rng |-> disk[a]]])
      BY <2>1 DEF CallShape
    <2>3. OpShape'
      BY <1>0, <1>3, <2>2, CallStep DEF ReadInner, OpShape
    <2> QED
      BY <1>3, <2>3, QuietStep DEF ReadInner, At, MountUnchanged
  <1>4. CASE ReadFails(t)
    <2>1. OpShape'
      BY <1>0, <1>4, CallStep DEF ReadFails, OpShape, Return, CallShape
    <2> QED
      BY <1>4, <2>1, QuietStep DEF ReadFails, At, MountUnchanged
  <1>5. CASE ReadFill(t)
    <2>1. DOMAIN op[t].old \in Requests
      BY <1>0, <1>5 DEF CallShape, ReadFill, At, Idle
    <2>2. OpShape'
      BY <1>0, <1>5, CallStep DEF ReadFill, OpShape, Return, CallShape
    <2> QED
      BY <1>5, <2>1, <2>2, FillStep DEF ReadFill, At, MountUnchanged
  <1> QED
    BY <1>1, <1>2, <1>3, <1>4, <1>5 DEF Read

\* The fields of a write before and after the log entry is complete.
LEMMA WriteFields ==
    ASSUME NEW o, CallShape(o)
    PROVE  /\ o.pc = "preRead" => o = [pc |-> o.pc, new |-> o.new]
                                  /\ DOMAIN o.new \in Requests
           /\ o.pc \in {"preFill", "setOff", "setLen", "header", "data", "sync"} =>
                /\ o = [pc |-> o.pc, new |-> o.new, old |-> o.old]
                /\ DOMAIN o.new \in Requests /\ DOMAIN o.old = DOMAIN o.new
           /\ o.pc \in {"writing", "postFill", "remove"} =>
                /\ o = [pc |-> o.pc, new |-> o.new, old |-> o.old, left |-> o.left]
                /\ DOMAIN o.new \in Requests /\ DOMAIN o.old = DOMAIN o.new
                /\ o.left \subseteq DOMAIN o.new /\ (o.pc = "writing" <=> o.left # {})
  BY DEF CallShape, Idle

\* From the pre-read to the last log append only the step changes.
LEMMA GotoInLog ==
    ASSUME NEW o, CallShape(o), o.pc \in {"preFill", "setOff", "setLen", "header", "data"},
           NEW pc \in {"setOff", "setLen", "header", "data", "sync"}
    PROVE  CallShape([o EXCEPT !.pc = pc])
  <1>1. o = [pc |-> o.pc, new |-> o.new, old |-> o.old]
        /\ DOMAIN o.new \in Requests /\ DOMAIN o.old = DOMAIN o.new
    BY WriteFields
  <1>2. [o EXCEPT !.pc = pc] = [pc |-> pc, new |-> o.new, old |-> o.old]
    BY <1>1
  <1>3. CallShape([pc |-> pc, new |-> o.new, old |-> o.old])
    BY <1>1 DEF CallShape
  <1> QED
    BY <1>2, <1>3

\* The word InnerWriteWord writes is the first of those left.
LEMMA NextWord ==
    ASSUME ShapeOK, NEW t \in Threads, op[t].pc = "writing"
    PROVE  /\ Min(op[t].left) \in op[t].left
           /\ op[t].left \subseteq DOMAIN op[t].new /\ DOMAIN op[t].new \subseteq Addr
  <1>1. op[t].left # {} /\ op[t].left \subseteq DOMAIN op[t].new
        /\ DOMAIN op[t].new \in Requests
    BY WriteFields DEF ShapeOK
  <1>2. op[t].left \in SUBSET Nat /\ DOMAIN op[t].new \subseteq Addr
    BY <1>1, RequestAddresses
  <1> QED
    BY <1>1, <1>2, MinIsSmallest

\* The record of a call in which left and then pc are replaced.
LEMMA WordFields ==
    ASSUME NEW o, NEW l, NEW p,
           o = [pc |-> "writing", new |-> o.new, old |-> o.old, left |-> o.left]
    PROVE  [[o EXCEPT !.left = l] EXCEPT !.pc = p] =
                [pc |-> p, new |-> o.new, old |-> o.old, left |-> l]
  <1>1. PICK q : q = [o EXCEPT !.left = l]
    OBVIOUS
  <1>2. q = [pc |-> "writing", new |-> o.new, old |-> o.old, left |-> l]
    BY <1>1
  <1>3. [q EXCEPT !.pc = p] = [pc |-> p, new |-> o.new, old |-> o.old, left |-> l]
    BY <1>2
  <1> QED
    BY <1>1, <1>3

\* One word of the request goes to the device and off the list of those left.
LEMMA WordShape ==
    ASSUME ShapeOK, NEW t \in Threads, InnerWriteWord(t)
    PROVE  \E a \in op[t].left :
             /\ disk' = [disk EXCEPT ![a] = op[t].new[a]]
             /\ seen' = [seen EXCEPT ![a] = @ \union {op[t].new[a]}]
             /\ op' = [op EXCEPT ![t] =
                         [pc |-> IF op[t].left = {a} THEN "postFill" ELSE "writing",
                          new |-> op[t].new, old |-> op[t].old, left |-> op[t].left \ {a}]]
  <1>1. op[t].pc = "writing"
    BY DEF InnerWriteWord, At
  <1>2. op[t] = [pc |-> "writing", new |-> op[t].new, old |-> op[t].old, left |-> op[t].left]
    BY <1>1, WriteFields DEF ShapeOK
  <1>3. PICK a : a = Min(op[t].left)
    OBVIOUS
  <1>4. a \in op[t].left
    BY <1>1, <1>3, NextWord
  <1>5. op' = [op EXCEPT ![t].left = @ \ {a},
                         ![t].pc = IF op[t].left = {a} THEN "postFill" ELSE @]
    BY <1>3 DEF InnerWriteWord
  <1>6. op' = [op EXCEPT ![t] =
                  [pc |-> IF op[t].left = {a} THEN "postFill" ELSE "writing",
                   new |-> op[t].new, old |-> op[t].old, left |-> op[t].left \ {a}]]
    <2>1. PICK o, l, p : /\ o = op[t] /\ l = o.left \ {a}
                         /\ p = IF o.left = {a} THEN "postFill" ELSE "writing"
      OBVIOUS
    <2>2. op' = [op EXCEPT ![t] = [[o EXCEPT !.left = l] EXCEPT !.pc = p]]
      <3>1. op = [s \in Threads |-> op[s]]
        BY DEF ShapeOK
      <3> QED
        BY <1>1, <1>5, <2>1, <3>1
    <2>3. o = [pc |-> "writing", new |-> o.new, old |-> o.old, left |-> o.left]
      BY <1>2, <2>1
    <2>4. [[o EXCEPT !.left = l] EXCEPT !.pc = p] =
             [pc |-> p, new |-> o.new, old |-> o.old, left |-> l]
      BY <2>3, WordFields
    <2> QED
      BY <2>1, <2>2, <2>4
  <1> QED
    BY <1>3, <1>4, <1>6 DEF InnerWriteWord

\* The steps of WriteAt keep shape and order.
LEMMA WriteKeepsList ==
    ASSUME ListInv, NEW t \in Threads, Write(t)
    PROVE  ListInv'
  <1>0. ShapeOK /\ CallShape(op[t])
    BY DEF ListInv, ShapeOK
  <1>1. ASSUME NEW R \in Requests, NEW d \in [R -> DataWords], WriteHit(t, R, d)
        PROVE  ListInv'
    <2>1. DOMAIN lookupCache(cache, R) = R
      BY DEF lookupCache
    <2>2. CallShape([pc |-> "setOff", new |-> d, old |-> lookupCache(cache, R)])
      BY <2>1 DEF CallShape
    <2>3. OpShape'
      BY <1>0, <1>1, <2>2, CallStep DEF WriteHit, OpShape
    <2> QED
      BY <1>1, <2>3, QuietStep DEF WriteHit, At
  <1>2. ASSUME NEW R \in Requests, NEW d \in [R -> DataWords], WriteMiss(t, R, d)
        PROVE  ListInv'
    <2>1. CallShape([pc |-> "preRead", new |-> d])
      BY DEF CallShape
    <2>2. OpShape'
      BY <1>0, <1>2, <2>1, CallStep DEF WriteMiss, OpShape
    <2> QED
      BY <1>2, <2>2, QuietStep DEF WriteMiss, At
  <1>3. CASE PreRead(t)
    <2>1. DOMAIN op[t].new \in Requests
      BY <1>0, <1>3, WriteFields DEF PreRead, At
    <2>2. CallShape([pc |-> "preFill", new |-> op[t].new,
                     old |-> [a \in DOMAIN op[t].new |-> disk[a]]])
      BY <2>1 DEF CallShape
    <2>3. OpShape'
      BY <1>0, <1>3, <2>2, CallStep DEF PreRead, OpShape
    <2> QED
      BY <1>3, <2>3, QuietStep DEF PreRead, At, MountUnchanged
  <1>4. CASE PreReadFails(t) \/ AppendFails(t) \/ RemoveFails(t) \/ InnerWriteFails(t)
    <2>1. OpShape'
      BY <1>0, <1>4, CallStep
      DEF PreReadFails, AppendFails, RemoveFails, InnerWriteFails, OpShape, Return, CallShape
    <2> QED
      BY <1>4, <2>1, QuietStep
      DEF PreReadFails, AppendFails, RemoveFails, InnerWriteFails, At, MountUnchanged
  <1>5. CASE PreFill(t)
    <2>1. op[t].pc = "preFill"
      BY <1>5 DEF PreFill, At
    <2>2. DOMAIN op[t].old \in Requests
      BY <1>0, <2>1, WriteFields
    <2>3. CallShape([op[t] EXCEPT !.pc = "setOff"])
      BY <1>0, <2>1, GotoInLog
    <2>4. OpShape'
      BY <1>0, <1>5, <2>3, GotoStep DEF PreFill, OpShape
    <2> QED
      BY <1>5, <2>2, <2>4, FillStep DEF PreFill, At, MountUnchanged
  <1>6. CASE SetOff(t) \/ SetLen(t) \/ AppendHeader(t) \/ AppendData(t)
    <2>1. PICK pc \in {"setLen", "header", "data", "sync"} : Goto(t, pc)
      BY <1>6 DEF SetOff, SetLen, AppendHeader, AppendData
    <2>2. op[t].pc \in {"setOff", "setLen", "header", "data"}
      BY <1>6 DEF SetOff, SetLen, AppendHeader, AppendData, At
    <2>3. CallShape([op[t] EXCEPT !.pc = pc])
      BY <1>0, <2>2, GotoInLog
    <2>4. OpShape'
      BY <1>0, <2>1, <2>3, GotoStep DEF OpShape
    <2> QED
      BY <1>6, <2>4, QuietStep DEF SetOff, SetLen, AppendHeader, AppendData, At, MountUnchanged
  <1>7. CASE Sync(t)
    <2>1. DOMAIN op[t].new \in Requests /\ DOMAIN op[t].old = DOMAIN op[t].new
      BY <1>0, <1>7, WriteFields DEF Sync, At
    <2>2. DOMAIN op[t].new # {}
      BY <2>1, NonEmptyRequests
    <2>3. CallShape([pc |-> "writing", new |-> op[t].new, old |-> op[t].old,
                     left |-> DOMAIN op[t].new])
      BY <2>1, <2>2 DEF CallShape
    <2>4. OpShape'
      BY <1>0, <1>7, <2>3, CallStep DEF Sync, OpShape
    <2> QED
      BY <1>7, <2>4, QuietStep DEF Sync, At, MountUnchanged
  <1>8. CASE InnerWriteWord(t)
    <2>1. PICK a \in op[t].left :
             /\ disk' = [disk EXCEPT ![a] = op[t].new[a]]
             /\ seen' = [seen EXCEPT ![a] = @ \union {op[t].new[a]}]
             /\ op' = [op EXCEPT ![t] =
                         [pc |-> IF op[t].left = {a} THEN "postFill" ELSE "writing",
                          new |-> op[t].new, old |-> op[t].old, left |-> op[t].left \ {a}]]
      BY <1>0, <1>8, WordShape
    <2>2. DOMAIN op[t].new \in Requests /\ DOMAIN op[t].old = DOMAIN op[t].new
          /\ op[t].left \subseteq DOMAIN op[t].new
      BY <1>0, <1>8, WriteFields DEF InnerWriteWord, At
    <2>3. CallShape([pc |-> IF op[t].left = {a} THEN "postFill" ELSE "writing",
                     new |-> op[t].new, old |-> op[t].old, left |-> op[t].left \ {a}])
      BY <2>2 DEF CallShape
    <2>4. OpShape'
      BY <1>0, <2>1, <2>3, CallStep DEF OpShape
    <2>5. disk' = [x \in Addr |-> disk'[x]] /\ seen' = [x \in Addr |-> seen'[x]]
      BY <1>0, <2>1 DEF ShapeOK
    <2> QED
      BY <1>8, <2>4, <2>5
      DEF InnerWriteWord, MountUnchanged, At, ListInv, ShapeOK, WiderFirst, OpShape
  <1>9. CASE PostFill(t)
    <2>1. op[t].pc = "postFill"
      BY <1>9 DEF PostFill, At
    <2>2. /\ op[t] = [pc |-> "postFill", new |-> op[t].new, old |-> op[t].old,
                      left |-> op[t].left]
          /\ DOMAIN op[t].new \in Requests /\ DOMAIN op[t].old = DOMAIN op[t].new
          /\ op[t].left = {}
      BY <1>0, <2>1, WriteFields
    <2>3. [op[t] EXCEPT !.pc = "remove"] =
             [pc |-> "remove", new |-> op[t].new, old |-> op[t].old, left |-> op[t].left]
      BY <2>2
    <2>4. CallShape([pc |-> "remove", new |-> op[t].new, old |-> op[t].old,
                     left |-> op[t].left])
      BY <2>2 DEF CallShape
    <2>5. OpShape'
      BY <1>0, <1>9, <2>3, <2>4, GotoStep DEF PostFill, OpShape
    <2> QED
      BY <1>9, <2>2, <2>5, FillStep DEF PostFill, At, MountUnchanged
  <1>10. CASE RemoveLast(t)
    <2>1. OpShape'
      BY <1>0, <1>10, CallStep DEF RemoveLast, OpShape, Return, CallShape
    <2> QED
      BY <1>10, <2>1, QuietStep DEF RemoveLast, At, MountUnchanged
  <1> QED
    BY <1>1, <1>2, <1>3, <1>4, <1>5, <1>6, <1>7, <1>8, <1>9, <1>10 DEF Write

\* Recovery changes the device while nothing is cached and no call runs.
LEMMA MountKeepsList ==
    ASSUME ListInv, Mount \/ Close \/ Crash
    PROVE  ListInv'
  <1>1. CASE MountClean \/ RecoverDone \/ Close \/ Crash
    BY <1>1, FreshStep DEF MountClean, RecoverDone, Close, Crash
  <1>2. CASE MountPending \/ RecoverRefused \/ RecoverFails
    BY <1>2 DEF MountPending, RecoverRefused, RecoverFails, ListInv, ShapeOK, WiderFirst
  <1>3. CASE RecoverEntry
    <2>1. disk' = [a \in Addr |-> disk'[a]]
      BY <1>3 DEF RecoverEntry, Undo
    <2> QED
      BY <1>3, <2>1 DEF RecoverEntry, ListInv, ShapeOK, WiderFirst
  <1> QED
    BY <1>1, <1>2, <1>3 DEF Mount

\* Shape and order hold at the start ...
LEMMA InitList == Init => ListInv
  <1> SUFFICES ASSUME Init PROVE ListInv
    OBVIOUS
  <1>1. IsBlockList(cache, Requests, CacheSlots) /\ WidestFirst(cache)
    BY EmptyCache DEF Init
  <1>2. op = [t \in Threads |-> Idle] /\ \A t \in Threads : CallShape(op[t])
    BY DEF Init, CallShape
  <1> QED
    BY <1>1, <1>2 DEF Init, ListInv, ShapeOK, WiderFirst

\* ... and every step keeps them ...
LEMMA NextList == ListInv /\ [Next]_vars => ListInv'
  <1> SUFFICES ASSUME ListInv, [Next]_vars PROVE ListInv'
    OBVIOUS
  <1>1. CASE Next
    BY <1>1, ReadKeepsList, WriteKeepsList, MountKeepsList DEF Next
  <1>2. CASE UNCHANGED vars
    BY <1>2 DEF vars, ListInv, ShapeOK, WiderFirst
  <1> QED
    BY <1>1, <1>2

\* ... so they always hold.
THEOREM ListCorrect == Spec => []ListInv
  BY InitList, NextList, PTL DEF Spec

\* With any number of threads, any interleaving and any failures the cache has at
\* most CacheSlots blocks, is empty while the device is not mounted, and every call
\* holds the buffers its next step uses.
THEOREM ShapeCorrect == Spec => []ShapeOK
  <1>1. ListInv => ShapeOK
    BY DEF ListInv
  <1> QED
    BY <1>1, ListCorrect, PTL

\* ... and no block of the cache ever lies inside a block behind it, so the search
\* of lookupCache meets the widest copy first.
THEOREM WiderFirstCorrect == Spec => []WiderFirst
  <1>1. ListInv => WiderFirst
    BY DEF ListInv
  <1> QED
    BY <1>1, ListCorrect, PTL

-----------------------------------------------------------------------------
(* One thread and nested requests: a cache hit is what the device holds *)

\* A cache that agrees outside a set agrees outside a larger one.
LEMMA AgreeMore ==
    ASSUME NEW c, NEW d, NEW W, FreshOrShadowed(c, d, {})
    PROVE  FreshOrShadowed(c, d, W)
  BY DEF FreshOrShadowed, Agrees

\* A word of W that reaches the device does not disturb what is outside W.
LEMMA WordOutside ==
    ASSUME NEW c, NEW d, NEW e, NEW W, NEW a \in W, NEW x,
           \A b \in DOMAIN d : b # a => e[b] = d[b],
           \A j \in DOMAIN c : DOMAIN c[j] \subseteq DOMAIN d,
           FreshOrShadowed(c, d, W)
    PROVE  FreshOrShadowed(c, e, W)
  BY DEF FreshOrShadowed, Agrees

\* updateCache with words that are on the device.
LEMMA FillSound ==
    ASSUME Laminar, ListInv, NEW d, DOMAIN d \in Requests, NEW W, W = {} \/ W = DOMAIN d,
           Agrees(d, disk, {}), FreshOrShadowed(cache, disk, W)
    PROVE  FreshOrShadowed(updateCache(cache, d, CacheSlots), disk, {})
  <1>1. NestedOrDisjoint(Requests)
    BY DEF Laminar, NestedOrDisjoint
  <1>2. IsBlockList(cache, Requests, CacheSlots) /\ WidestFirst(cache)
    BY DEF ListInv, ShapeOK, WiderFirst
  <1> QED
    BY <1>1, <1>2, SizesAssumption, UpdateFresh

\* The steps of ReadAt keep cache, buffers and device in agreement.
LEMMA ReadSound ==
    ASSUME Laminar, NEW t, Threads = {t}, ListInv, Sound(mode, cache, disk, op[t]), Read(t)
    PROVE  Sound(mode', cache', disk', op'[t])
  <1>0. ShapeOK /\ CallShape(op[t]) /\ op = [s \in Threads |-> op[s]]
    BY DEF ListInv, ShapeOK
  <1>1. ASSUME NEW R \in Requests, ReadHit(t, R)
        PROVE  Sound(mode', cache', disk', op'[t])
    BY <1>1 DEF ReadHit, vars
  <1>2. ASSUME NEW R \in Requests, ReadMiss(t, R)
        PROVE  Sound(mode', cache', disk', op'[t])
    BY <1>0, <1>2 DEF ReadMiss, At, MountUnchanged, Sound, Busy
  <1>3. CASE ReadInner(t)
    BY <1>0, <1>3 DEF ReadInner, At, MountUnchanged, Sound, Busy, Agrees
  <1>4. CASE ReadFails(t)
    BY <1>0, <1>4 DEF ReadFails, At, Return, Idle, MountUnchanged, Sound, Busy
  <1>5. CASE ReadFill(t)
    <2>1. DOMAIN op[t].old \in Requests /\ op[t].pc = "readFill" /\ mode = "up"
      BY <1>0, <1>5 DEF CallShape, ReadFill, At, Idle
    <2>2. Agrees(op[t].old, disk, {}) /\ FreshOrShadowed(cache, disk, {})
      BY <2>1 DEF Sound, Busy
    <2>3. FreshOrShadowed(cache', disk, {})
      BY <1>5, <2>1, <2>2, FillSound DEF ReadFill
    <2> QED
      BY <1>0, <1>5, <2>3 DEF ReadFill, Return, Idle, MountUnchanged, Sound, Busy
  <1> QED
    BY <1>1, <1>2, <1>3, <1>4, <1>5 DEF Read

\* The steps of WriteAt do, when the device does not fail half way.
LEMMA WriteSound ==
    ASSUME Laminar, NEW t, Threads = {t}, "write" \notin Faults, ListInv,
           Sound(mode, cache, disk, op[t]), Write(t)
    PROVE  Sound(mode', cache', disk', op'[t])
  <1>0. ShapeOK /\ CallShape(op[t]) /\ op = [s \in Threads |-> op[s]]
    BY DEF ListInv, ShapeOK
  <1>1. ASSUME NEW R \in Requests, NEW d \in [R -> DataWords],
               WriteHit(t, R, d) \/ WriteMiss(t, R, d)
        PROVE  Sound(mode', cache', disk', op'[t])
    BY <1>0, <1>1 DEF WriteHit, WriteMiss, At, Sound, Busy
  <1>2. CASE PreRead(t)
    BY <1>0, <1>2 DEF PreRead, At, MountUnchanged, Sound, Busy, Agrees
  <1>3. CASE PreReadFails(t) \/ AppendFails(t) \/ RemoveFails(t)
    BY <1>0, <1>3
    DEF PreReadFails, AppendFails, RemoveFails, At, Return, Idle, MountUnchanged, Sound, Busy
  <1>4. CASE PreFill(t)
    <2>1. op[t].pc = "preFill" /\ mode = "up"
      BY <1>4 DEF PreFill, At
    <2>2. DOMAIN op[t].old \in Requests /\ op'[t].pc = "setOff"
      BY <1>0, <1>4, <2>1, WriteFields DEF PreFill, Goto
    <2>3. Agrees(op[t].old, disk, {}) /\ FreshOrShadowed(cache, disk, {})
      BY <2>1 DEF Sound, Busy
    <2>4. FreshOrShadowed(cache', disk, {})
      BY <1>4, <2>2, <2>3, FillSound DEF PreFill
    <2> QED
      BY <1>4, <2>2, <2>4 DEF PreFill, MountUnchanged, Sound, Busy
  <1>5. CASE SetOff(t) \/ SetLen(t) \/ AppendHeader(t) \/ AppendData(t)
    <2>1. op[t].pc \in {"setOff", "setLen", "header", "data"} /\ mode = "up"
      BY <1>5 DEF SetOff, SetLen, AppendHeader, AppendData, At
    <2>2. op'[t].pc \in {"setLen", "header", "data", "sync"}
      <3>1. op[t] = [pc |-> op[t].pc, new |-> op[t].new, old |-> op[t].old]
        BY <1>0, <2>1, WriteFields
      <3> QED
        BY <1>0, <1>5, <3>1 DEF SetOff, SetLen, AppendHeader, AppendData, Goto
    <2> QED
      BY <1>5, <2>1, <2>2 DEF SetOff, SetLen, AppendHeader, AppendData, MountUnchanged, Sound, Busy
  <1>6. CASE Sync(t)
    <2>1. mode = "up" /\ FreshOrShadowed(cache, disk, {})
      BY <1>6 DEF Sync, At, Sound, Busy
    <2>2. op'[t].pc = "writing" /\ op'[t].new = op[t].new /\ op'[t].left = DOMAIN op[t].new
      BY <1>0, <1>6 DEF Sync
    <2> QED
      BY <1>6, <2>1, <2>2, AgreeMore DEF Sync, MountUnchanged, Sound, Busy, Agrees
  <1>7. CASE InnerWriteWord(t)
    <2>1. PICK a \in op[t].left :
             /\ disk' = [disk EXCEPT ![a] = op[t].new[a]]
             /\ op' = [op EXCEPT ![t] =
                         [pc |-> IF op[t].left = {a} THEN "postFill" ELSE "writing",
                          new |-> op[t].new, old |-> op[t].old, left |-> op[t].left \ {a}]]
      BY <1>0, <1>7, WordShape
    <2>2. /\ op[t].pc = "writing" /\ mode = "up" /\ mode' = mode /\ cache' = cache
          /\ op[t].left \subseteq DOMAIN op[t].new /\ DOMAIN op[t].new \subseteq Addr
      BY <1>0, <1>7, NextWord DEF InnerWriteWord, At, MountUnchanged
    <2>3. /\ op'[t].pc = IF op[t].left = {a} THEN "postFill" ELSE "writing"
          /\ op'[t].new = op[t].new /\ op'[t].left = op[t].left \ {a}
      BY <1>0, <2>1
    <2>4. disk' = [b \in Addr |-> IF b = a THEN op[t].new[a] ELSE disk[b]]
      BY <1>0, <2>1 DEF ShapeOK
    <2>5. Agrees(op[t].new, disk', op[t].left \ {a})
      BY <2>2, <2>4 DEF Sound, Agrees
    <2>6. \A j \in DOMAIN cache : DOMAIN cache[j] \subseteq Addr
      <3>1. \A j \in DOMAIN cache : DOMAIN cache[j] \in Requests
        BY <1>0, BlocksAreRequests
      <3> QED
        BY <3>1, RequestAddresses
    <2>7. DOMAIN disk = Addr
      BY <1>0 DEF ShapeOK
    <2>8. FreshOrShadowed(cache, disk, DOMAIN op[t].new)
      BY <2>2 DEF Sound, Busy
    <2>9. FreshOrShadowed(cache, disk', DOMAIN op[t].new)
      BY <2>2, <2>4, <2>6, <2>7, <2>8, WordOutside
    <2>10. Busy(op'[t]) = DOMAIN op[t].new
      BY <2>3 DEF Busy
    <2> QED
      BY <2>2, <2>3, <2>5, <2>9, <2>10 DEF Sound
  <1>8. CASE PostFill(t)
    <2>1. op[t].pc = "postFill" /\ mode = "up"
      BY <1>8 DEF PostFill, At
    <2>2. /\ op[t] = [pc |-> op[t].pc, new |-> op[t].new, old |-> op[t].old,
                      left |-> op[t].left]
          /\ DOMAIN op[t].new \in Requests
      BY <1>0, <2>1, WriteFields
    <2>3. op'[t].pc = "remove"
      BY <1>0, <1>8, <2>2 DEF PostFill, Goto
    <2>4. Agrees(op[t].new, disk, {}) /\ FreshOrShadowed(cache, disk, DOMAIN op[t].new)
      BY <2>1 DEF Sound, Busy
    <2>5. FreshOrShadowed(cache', disk, {})
      BY <1>8, <2>2, <2>4, FillSound DEF PostFill
    <2> QED
      BY <1>8, <2>3, <2>5 DEF PostFill, MountUnchanged, Sound, Busy
  <1>9. CASE RemoveLast(t)
    BY <1>0, <1>9 DEF RemoveLast, At, Return, Idle, MountUnchanged, Sound, Busy
  <1>10. ~InnerWriteFails(t)
    BY DEF InnerWriteFails
  <1> QED
    BY <1>1, <1>2, <1>3, <1>4, <1>5, <1>6, <1>7, <1>8, <1>9, <1>10 DEF Write

\* A mount starts with an empty cache; while the device is not mounted, recovery
\* changes the device but no call has a buffer.
LEMMA MountSound ==
    ASSUME NEW t, Threads = {t}, ListInv, Mount \/ Close \/ Crash,
           Sound(mode, cache, disk, op[t])
    PROVE  Sound(mode', cache', disk', op'[t])
  <1>1. CASE Fresh
    <2>1. cache' = <<>> /\ op'[t] = Idle
      BY <1>1 DEF Fresh
    <2> QED
      BY <2>1, EmptyCache DEF Idle, Sound
  <1>2. CASE MountPending \/ RecoverEntry \/ RecoverRefused \/ RecoverFails
    <2>1. mode # "up" /\ mode' # "up" /\ op' = op
      BY <1>2 DEF MountPending, RecoverEntry, RecoverRefused, RecoverFails
    <2>2. op'[t] = Idle
      BY <2>1 DEF ListInv, ShapeOK
    <2> QED
      BY <2>1, <2>2 DEF Idle, Sound
  <1> QED
    BY <1>1, <1>2 DEF Mount, MountClean, RecoverDone, Close, Crash

\* So every step keeps the agreement ...
LEMMA NextSound ==
    ASSUME Laminar, NEW t, Threads = {t}, "write" \notin Faults
    PROVE  ListInv /\ CacheInv /\ [Next]_vars => CacheInv'
  <1> SUFFICES ASSUME ListInv, CacheInv, [Next]_vars PROVE CacheInv'
    OBVIOUS
  <1>1. Sound(mode, cache, disk, op[t])
    BY DEF CacheInv
  <1>2. SUFFICES Sound(mode', cache', disk', op'[t])
    BY <1>2 DEF CacheInv
  <1>3. CASE Next
    <2>1. Read(t) \/ Write(t) \/ Mount \/ Close \/ Crash
      BY <1>3 DEF Next
    <2> QED
      BY <1>1, <2>1, ReadSound, WriteSound, MountSound
  <1>4. CASE UNCHANGED vars
    BY <1>1, <1>4 DEF vars
  <1> QED
    BY <1>3, <1>4

\* ... which makes every cache hit right.
LEMMA SoundServes ==
    ASSUME NEW t, Threads = {t}
    PROVE  ListInv /\ CacheInv => CacheServesDevice
  <1> SUFFICES ASSUME ListInv, CacheInv, mode = "up", op[t].pc \notin {"writing", "postFill"},
                      NEW R \in Requests, CacheHit(cache, R)
               PROVE  lookupCache(cache, R) = [a \in R |-> disk[a]]
    BY DEF CacheServesDevice
  <1>1. FreshOrShadowed(cache, disk, {})
    BY DEF CacheInv, Sound, Busy
  <1>2. IsBlockList(cache, Requests, CacheSlots)
    BY DEF ListInv, ShapeOK
  <1> QED
    BY <1>1, <1>2, SizesAssumption, LookupFresh

\* With a single thread, requests that are nested or disjoint, and a device that
\* does not fail in the middle of a write, lookupCache always returns what the
\* device holds, for a cache and a device of any size.
THEOREM CacheServesCorrect ==
    ASSUME Laminar, NEW t, Threads = {t}, "write" \notin Faults
    PROVE  Spec => []CacheServesDevice
  <1>1. Init => CacheInv
    <2> SUFFICES ASSUME Init PROVE Sound(mode, cache, disk, op[t])
      BY DEF CacheInv
    <2> QED
      BY DEF Init, Sound, Idle
  <1>2. ListInv /\ CacheInv /\ [Next]_vars => CacheInv'
    BY NextSound
  <1>3. ListInv /\ CacheInv => CacheServesDevice
    BY SoundServes
  <1> QED
    BY <1>1, <1>2, <1>3, ListCorrect, PTL DEF Spec

-----------------------------------------------------------------------------
(* Any number of threads, any requests, any failures: nothing is made up *)

\* What a call knows stays known when more words have been seen.
LEMMA KnownMore ==
    ASSUME NEW o, CallShape(o), NEW s, NEW r, \A a \in Addr : s[a] \subseteq r[a],
           CallKnown(o, s)
    PROVE  CallKnown(o, r)
  <1>1. o.pc \in {"readFill", "preFill"} => DOMAIN o.old \subseteq Addr
    BY RequestAddresses DEF CallShape, Idle
  <1>2. o.pc \in {"writing", "postFill"} => DOMAIN o.new \subseteq Addr
    BY WriteFields, RequestAddresses
  <1> QED
    BY <1>1, <1>2 DEF CallKnown

\* A step of a call that changes neither device nor cache nor mount.
LEMMA QuietKnown ==
    ASSUME SeenInv, mode = "up", UNCHANGED <<disk, cache, mode, seen>>,
           op = [s \in Threads |-> op[s]], NEW t \in Threads, NEW v,
           op' = [op EXCEPT ![t] = v], CallKnown(v, seen)
    PROVE  SeenInv'
  <1>1. \A s \in Threads : CallKnown(op'[s], seen')
    BY DEF SeenInv
  <1> QED
    BY <1>1 DEF SeenInv, CacheNeverInvents

\* A step of a call that puts words the device has held into the cache.
LEMMA FillKnown ==
    ASSUME ShapeOK, SeenInv, mode = "up", UNCHANGED <<disk, mode, seen>>,
           NEW t \in Threads, NEW v, op' = [op EXCEPT ![t] = v], CallKnown(v, seen),
           NEW d, cache' = updateCache(cache, d, CacheSlots),
           \A a \in DOMAIN d : d[a] \in seen[a]
    PROVE  SeenInv'
  <1>1. \A s \in Threads : CallKnown(op'[s], seen')
    BY DEF SeenInv, ShapeOK
  <1>2. IsBlockList(cache, Requests, CacheSlots)
    BY DEF ShapeOK
  <1>3. \A i \in DOMAIN cache : \A a \in DOMAIN cache[i] : cache[i][a] \in seen[a]
    BY DEF SeenInv, CacheNeverInvents
  <1>4. \A i \in DOMAIN cache' : \A a \in DOMAIN cache'[i] : cache'[i][a] \in seen[a]
    BY <1>2, <1>3, SizesAssumption, UpdateWords
  <1> QED
    BY <1>1, <1>4 DEF SeenInv, CacheNeverInvents

\* The steps of ReadAt put only words of the device into buffers and cache.
LEMMA ReadKnown ==
    ASSUME ListInv, SeenInv, NEW t \in Threads, Read(t)
    PROVE  SeenInv'
  <1>0. ShapeOK /\ CallShape(op[t]) /\ op = [s \in Threads |-> op[s]]
    BY DEF ListInv, ShapeOK
  <1>1. ASSUME NEW R \in Requests, ReadHit(t, R)
        PROVE  SeenInv'
    BY <1>1 DEF ReadHit, vars, SeenInv, CacheNeverInvents
  <1>2. ASSUME NEW R \in Requests, ReadMiss(t, R)
        PROVE  SeenInv'
    <2>1. CallKnown([pc |-> "readInner", rng |-> R], seen)
      BY DEF CallKnown
    <2> QED
      BY <1>0, <1>2, <2>1, QuietKnown DEF ReadMiss, At, MountUnchanged
  <1>3. CASE ReadInner(t)
    <2>1. op[t].rng \subseteq Addr /\ mode = "up"
      BY <1>0, <1>3, RequestAddresses DEF CallShape, ReadInner, At, Idle
    <2>2. CallKnown([pc |-> "readFill", old |-> [a \in op[t].rng |-> disk[a]]], seen)
      BY <2>1 DEF CallKnown, SeenInv
    <2> QED
      BY <1>0, <1>3, <2>2, QuietKnown DEF ReadInner, At, MountUnchanged
  <1>4. CASE ReadFails(t)
    <2>1. CallKnown(Idle, seen)
      BY DEF CallKnown, Idle
    <2> QED
      BY <1>0, <1>4, <2>1, QuietKnown DEF ReadFails, Return, At, MountUnchanged
  <1>5. CASE ReadFill(t)
    <2>1. CallKnown(Idle, seen)
      BY DEF CallKnown, Idle
    <2>2. \A a \in DOMAIN op[t].old : op[t].old[a] \in seen[a]
      BY <1>5 DEF SeenInv, CallKnown, ReadFill, At
    <2> QED
      BY <1>0, <1>5, <2>1, <2>2, FillKnown DEF ReadFill, Return, At, MountUnchanged
  <1> QED
    BY <1>1, <1>2, <1>3, <1>4, <1>5 DEF Read

\* The steps of WriteAt put only words of the device into buffers and cache: the
\* second updateCache comes after the whole request is on the device.
LEMMA WriteKnown ==
    ASSUME ListInv, SeenInv, NEW t \in Threads, Write(t)
    PROVE  SeenInv'
  <1>0. ShapeOK /\ CallShape(op[t]) /\ op = [s \in Threads |-> op[s]]
    BY DEF ListInv, ShapeOK
  <1>1. ASSUME NEW R \in Requests, NEW d \in [R -> DataWords], WriteHit(t, R, d)
        PROVE  SeenInv'
    <2>1. CallKnown([pc |-> "setOff", new |-> d, old |-> lookupCache(cache, R)], seen)
      BY DEF CallKnown
    <2> QED
      BY <1>0, <1>1, <2>1, QuietKnown DEF WriteHit, At
  <1>2. ASSUME NEW R \in Requests, NEW d \in [R -> DataWords], WriteMiss(t, R, d)
        PROVE  SeenInv'
    <2>1. CallKnown([pc |-> "preRead", new |-> d], seen)
      BY DEF CallKnown
    <2> QED
      BY <1>0, <1>2, <2>1, QuietKnown DEF WriteMiss, At
  <1>3. CASE PreRead(t)
    <2>1. DOMAIN op[t].new \subseteq Addr /\ mode = "up"
      BY <1>0, <1>3, WriteFields, RequestAddresses DEF PreRead, At
    <2>2. CallKnown([pc |-> "preFill", new |-> op[t].new,
                     old |-> [a \in DOMAIN op[t].new |-> disk[a]]], seen)
      BY <2>1 DEF CallKnown, SeenInv
    <2> QED
      BY <1>0, <1>3, <2>2, QuietKnown DEF PreRead, At, MountUnchanged
  <1>4. CASE PreReadFails(t) \/ AppendFails(t) \/ RemoveFails(t) \/ InnerWriteFails(t) \/ RemoveLast(t)
    <2>1. CallKnown(Idle, seen)
      BY DEF CallKnown, Idle
    <2> QED
      BY <1>0, <1>4, <2>1, QuietKnown
      DEF PreReadFails, AppendFails, RemoveFails, InnerWriteFails, RemoveLast, Return, At, MountUnchanged
  <1>5. CASE PreFill(t)
    <2>1. op[t].pc = "preFill" /\ mode = "up"
      BY <1>5 DEF PreFill, At
    <2>2. op[t] = [pc |-> op[t].pc, new |-> op[t].new, old |-> op[t].old]
      BY <1>0, <2>1, WriteFields
    <2>3. CallKnown([op[t] EXCEPT !.pc = "setOff"], seen)
      BY <2>2 DEF CallKnown
    <2>4. \A a \in DOMAIN op[t].old : op[t].old[a] \in seen[a]
      BY <2>1 DEF SeenInv, CallKnown
    <2>5. op' = [op EXCEPT ![t] = [op[t] EXCEPT !.pc = "setOff"]]
      BY <1>5 DEF PreFill, Goto
    <2> QED
      BY <1>0, <1>5, <2>1, <2>3, <2>4, <2>5, FillKnown DEF PreFill, MountUnchanged
  <1>6. CASE SetOff(t) \/ SetLen(t) \/ AppendHeader(t) \/ AppendData(t)
    <2>1. op[t].pc \in {"setOff", "setLen", "header", "data"} /\ mode = "up"
      BY <1>6 DEF SetOff, SetLen, AppendHeader, AppendData, At
    <2>2. op[t] = [pc |-> op[t].pc, new |-> op[t].new, old |-> op[t].old]
      BY <1>0, <2>1, WriteFields
    <2>3. PICK pc \in {"setLen", "header", "data", "sync"} : Goto(t, pc)
      BY <1>6 DEF SetOff, SetLen, AppendHeader, AppendData
    <2>4. op' = [op EXCEPT ![t] = [op[t] EXCEPT !.pc = pc]]
      BY <2>3 DEF Goto
    <2>5. CallKnown([op[t] EXCEPT !.pc = pc], seen)
      BY <2>2 DEF CallKnown
    <2> QED
      BY <1>0, <1>6, <2>1, <2>4, <2>5, QuietKnown
      DEF SetOff, SetLen, AppendHeader, AppendData, MountUnchanged
  <1>7. CASE Sync(t)
    <2>1. CallKnown([pc |-> "writing", new |-> op[t].new, old |-> op[t].old,
                     left |-> DOMAIN op[t].new], seen)
      BY DEF CallKnown
    <2> QED
      BY <1>0, <1>7, <2>1, QuietKnown DEF Sync, At, MountUnchanged
  <1>8. CASE InnerWriteWord(t)
    <2>1. PICK a \in op[t].left :
             /\ disk' = [disk EXCEPT ![a] = op[t].new[a]]
             /\ seen' = [seen EXCEPT ![a] = @ \union {op[t].new[a]}]
             /\ op' = [op EXCEPT ![t] =
                         [pc |-> IF op[t].left = {a} THEN "postFill" ELSE "writing",
                          new |-> op[t].new, old |-> op[t].old, left |-> op[t].left \ {a}]]
      BY <1>0, <1>8, WordShape
    <2>2. /\ mode = "up" /\ mode' = mode /\ cache' = cache /\ op[t].pc = "writing"
          /\ op[t].left \subseteq DOMAIN op[t].new /\ DOMAIN op[t].new \subseteq Addr
      BY <1>0, <1>8, NextWord DEF InnerWriteWord, At, MountUnchanged
    <2>3. /\ disk' = [b \in Addr |-> IF b = a THEN op[t].new[a] ELSE disk[b]]
          /\ seen' = [b \in Addr |-> IF b = a THEN seen[b] \union {op[t].new[a]} ELSE seen[b]]
      BY <1>0, <2>1 DEF ShapeOK
    <2>4. a \in Addr /\ (\A b \in Addr : seen[b] \subseteq seen'[b])
          /\ op[t].new[a] \in seen'[a]
      BY <2>2, <2>3
    <2>5. \A b \in Addr : disk'[b] \in seen'[b]
      BY <2>2, <2>3 DEF SeenInv
    <2>6. \A i \in DOMAIN cache : \A b \in DOMAIN cache[i] : cache[i][b] \in seen'[b]
      <3>1. \A j \in DOMAIN cache : DOMAIN cache[j] \subseteq Addr
        BY <1>0, BlocksAreRequests, RequestAddresses
      <3> QED
        BY <2>2, <2>4, <3>1 DEF SeenInv, CacheNeverInvents
    <2>7. ASSUME NEW s \in Threads, s # t
          PROVE  CallKnown(op'[s], seen')
      <3>1. op'[s] = op[s] /\ CallKnown(op[s], seen)
        BY <1>0, <2>1, <2>2, <2>7 DEF SeenInv
      <3> QED
        BY <1>0, <2>4, <3>1, KnownMore DEF ShapeOK
    <2>8. CallKnown(op'[t], seen')
      <3>1. /\ op'[t].pc \in {"writing", "postFill"}
            /\ op'[t].new = op[t].new /\ op'[t].left = op[t].left \ {a}
        BY <1>0, <2>1
      <3>2. \A b \in DOMAIN op[t].new \ op[t].left : op[t].new[b] \in seen[b]
        BY <2>2 DEF SeenInv, CallKnown
      <3> QED
        BY <2>2, <2>4, <3>1, <3>2 DEF CallKnown
    <2> QED
      BY <2>2, <2>5, <2>6, <2>7, <2>8 DEF SeenInv, CacheNeverInvents
  <1>9. CASE PostFill(t)
    <2>1. op[t].pc = "postFill" /\ mode = "up"
      BY <1>9 DEF PostFill, At
    <2>2. /\ op[t] = [pc |-> op[t].pc, new |-> op[t].new, old |-> op[t].old,
                      left |-> op[t].left]
          /\ op[t].left = {}
      BY <1>0, <2>1, WriteFields
    <2>3. CallKnown([op[t] EXCEPT !.pc = "remove"], seen)
      BY <2>2 DEF CallKnown
    <2>4. \A a \in DOMAIN op[t].new : op[t].new[a] \in seen[a]
      BY <2>1, <2>2 DEF SeenInv, CallKnown
    <2>5. op' = [op EXCEPT ![t] = [op[t] EXCEPT !.pc = "remove"]]
      BY <1>9 DEF PostFill, Goto
    <2> QED
      BY <1>0, <1>9, <2>1, <2>3, <2>4, <2>5, FillKnown DEF PostFill, MountUnchanged
  <1> QED
    BY <1>1, <1>2, <1>3, <1>4, <1>5, <1>6, <1>7, <1>8, <1>9 DEF Write

\* A mount forgets cache, buffers and what has been seen together.
LEMMA MountKnown ==
    ASSUME SeenInv, Mount \/ Close \/ Crash
    PROVE  SeenInv'
  <1>1. CASE Fresh /\ UNCHANGED disk
    <2>1. cache' = <<>> /\ disk' = disk /\ seen' = [a \in Addr |-> {disk[a]}]
          /\ op' = [t \in Threads |-> Idle]
      BY <1>1 DEF Fresh
    <2>2. \A t \in Threads : CallKnown(op'[t], seen')
      BY <2>1 DEF CallKnown, Idle
    <2>3. \A a \in Addr : disk'[a] \in seen'[a]
      BY <2>1
    <2>4. DOMAIN cache' = {}
      BY <2>1
    <2> QED
      BY <2>2, <2>3, <2>4 DEF SeenInv, CacheNeverInvents
  <1>2. CASE mode' # "up"
    BY <1>2 DEF SeenInv, CacheNeverInvents
  <1> QED
    BY <1>1, <1>2
    DEF Mount, MountClean, MountPending, RecoverEntry, RecoverRefused, RecoverFails,
        RecoverDone, Close, Crash

\* With any number of threads in any order, any requests and any failures, the
\* cache holds only words the device held at that address since the mount.
THEOREM CacheNeverInventsCorrect == Spec => []CacheNeverInvents
  <1>1. Init => SeenInv
    BY DEF Init, SeenInv, CacheNeverInvents
  <1>2. ListInv /\ SeenInv /\ [Next]_vars => SeenInv'
    <2> SUFFICES ASSUME ListInv, SeenInv, [Next]_vars PROVE SeenInv'
      OBVIOUS
    <2>1. CASE Next
      BY <2>1, ReadKnown, WriteKnown, MountKnown DEF Next
    <2>2. CASE UNCHANGED vars
      BY <2>2 DEF vars, SeenInv, CacheNeverInvents
    <2> QED
      BY <2>1, <2>2
  <1>3. SeenInv => CacheNeverInvents
    BY DEF SeenInv
  <1> QED
    BY <1>1, <1>2, <1>3, ListCorrect, PTL DEF Spec

-----------------------------------------------------------------------------
(* Writing back the entries of the log.  UndoAll is a recursive function; it  *)
(* exists and is what it says it is because the smallest index at which that  *)
(* would fail does not exist.                                                 *)

Disks == [Addr -> Nat]
Runs == [ok : BOOLEAN, disk : Disks]

UndoStep(s, e) ==
    IF s.ok /\ InDevice(e) THEN [ok |-> TRUE, disk |-> Undo(s.disk, e)]
    ELSE [ok |-> FALSE, disk |-> s.disk]

\* U follows the steps of the first n entries.
Follows(U, es, n) == \A i \in 1 .. n : U[i] = UndoStep(U[i - 1], es[i])

\* U[i] is what the first i entries of es make of device d, up to n entries.
IsRun(U, d, es, n) ==
    /\ U \in [0 .. n -> Runs] /\ U[0] = [ok |-> TRUE, disk |-> d]
    /\ \A i \in 1 .. n : U[i] = UndoStep(U[i - 1], es[i])

\* Writing back an entry gives a device.
LEMMA UndoType ==
    ASSUME NEW d \in Disks, NEW e \in LogEntries
    PROVE  Undo(d, e) \in Disks
  <1>1. e.lo \in Nat /\ e.data \in Seq(Nat)
    BY DEF LogEntries
  <1>2. \A a \in Interval(e.lo, Len(e.data)) : e.data[a - e.lo + 1] \in Nat
    BY <1>1, RequestAddresses DEF Interval
  <1> QED
    BY <1>2 DEF Undo, Disks

\* One step of writing back.
LEMMA StepType ==
    ASSUME NEW s \in Runs, NEW e \in LogEntries
    PROVE  UndoStep(s, e) \in Runs
  <1>1. s.disk \in Disks
    BY DEF Runs
  <1>2. Undo(s.disk, e) \in Disks
    BY <1>1, UndoType
  <1>3. [ok |-> TRUE, disk |-> Undo(s.disk, e)] \in Runs /\ [ok |-> FALSE, disk |-> s.disk] \in Runs
    BY <1>1, <1>2 DEF Runs
  <1> QED
    BY <1>3, Zenon DEF UndoStep

\* Every list of entries can be written back.
LEMMA RunExists ==
    ASSUME NEW d \in Disks, NEW es \in Seq(LogEntries)
    PROVE  \E U : IsRun(U, d, es, Len(es))
  <1> DEFINE Bad == {n \in 0 .. Len(es) : ~\E U : IsRun(U, d, es, n)}
  <1>0. Len(es) \in Nat
    OBVIOUS
  <1>1. SUFFICES ASSUME Bad # {} PROVE FALSE
    <2>1. Len(es) \in 0 .. Len(es)
      BY <1>0
    <2> QED
      BY <2>1
  <1>2. PICK n \in Bad : \A m \in Bad : n <= m
    <2>1. Bad \in SUBSET Nat
      BY <1>0
    <2> HIDE DEF Bad
    <2> QED
      BY <1>1, <2>1, SmallestExists
  <1>3. n # 0
    <2>1. [ok |-> TRUE, disk |-> d] \in Runs
      BY DEF Runs
    <2>2. PICK U : U = [i \in 0 .. 0 |-> [ok |-> TRUE, disk |-> d]]
      OBVIOUS
    <2>3. IsRun(U, d, es, 0)
      BY <2>1, <2>2 DEF IsRun
    <2> QED
      BY <1>2, <2>3
  <1>4. n \in 1 .. Len(es) /\ n - 1 \in 0 .. Len(es) /\ n - 1 \notin Bad
    BY <1>0, <1>2, <1>3
  <1>5. PICK U : IsRun(U, d, es, n - 1)
    BY <1>4
  <1>6. PICK V : V = [i \in 0 .. n |-> IF i = n THEN UndoStep(U[n - 1], es[n]) ELSE U[i]]
    OBVIOUS
  <1>7. IsRun(V, d, es, n)
    <2>1. /\ U \in [0 .. n - 1 -> Runs] /\ U[0] = [ok |-> TRUE, disk |-> d]
          /\ \A i \in 1 .. n - 1 : U[i] = UndoStep(U[i - 1], es[i])
      BY <1>5 DEF IsRun
    <2>2. n \in Nat /\ UndoStep(U[n - 1], es[n]) \in Runs
      BY <1>4, <2>1, StepType
    <2>3. V \in [0 .. n -> Runs] /\ V[0] = U[0]
      BY <1>3, <1>6, <2>1, <2>2
    <2>4. \A i \in 1 .. n : V[i] = UndoStep(V[i - 1], es[i])
      BY <1>6, <2>1, <2>2
    <2> QED
      BY <2>1, <2>3, <2>4 DEF IsRun
  <1> QED
    BY <1>2, <1>7

\* Two functions that follow the same steps are the same.
LEMMA RunUnique ==
    ASSUME NEW U, NEW V, NEW es, NEW n \in Nat, U[0] = V[0],
           Follows(U, es, n), Follows(V, es, n)
    PROVE  \A i \in 0 .. n : U[i] = V[i]
  <1>1. PICK S : S = {i \in 0 .. n : U[i] # V[i]}
    OBVIOUS
  <1>2. SUFFICES ASSUME S # {} PROVE FALSE
    BY <1>1
  <1>3. S \in SUBSET Nat
    BY <1>1
  <1>4. PICK i \in S : \A j \in S : i <= j
    BY <1>2, <1>3, SmallestExists
  <1>5. i \in 1 .. n /\ i - 1 \in 0 .. n /\ i - 1 \notin S /\ U[i] # V[i]
    BY <1>1, <1>3, <1>4
  <1>6. U[i - 1] = V[i - 1]
    BY <1>1, <1>5
  <1> QED
    BY <1>5, <1>6 DEF Follows

\* UndoAll ends a run.
LEMMA UndoAllIsRun ==
    ASSUME NEW d \in Disks, NEW es \in Seq(LogEntries)
    PROVE  \E U : IsRun(U, d, es, Len(es)) /\ UndoAll(d, es) = U[Len(es)].disk
  <1> DEFINE U[i \in 0 .. Len(es)] ==
            IF i = 0 THEN [ok |-> TRUE, disk |-> d]
            ELSE IF U[i - 1].ok /\ InDevice(es[i])
                 THEN [ok |-> TRUE, disk |-> Undo(U[i - 1].disk, es[i])]
                 ELSE [ok |-> FALSE, disk |-> U[i - 1].disk]
  <1>0. Len(es) \in Nat
    OBVIOUS
  <1>1. PICK V : IsRun(V, d, es, Len(es))
    BY RunExists
  <1>2. V = [i \in 0 .. Len(es) |->
              IF i = 0 THEN [ok |-> TRUE, disk |-> d]
              ELSE IF V[i - 1].ok /\ InDevice(es[i])
                   THEN [ok |-> TRUE, disk |-> Undo(V[i - 1].disk, es[i])]
                   ELSE [ok |-> FALSE, disk |-> V[i - 1].disk]]
    <2>1. \A i \in 1 .. Len(es) : V[i] = UndoStep(V[i - 1], es[i])
      BY <1>1 DEF IsRun
    <2>2. \A i \in 0 .. Len(es) :
            V[i] = IF i = 0 THEN [ok |-> TRUE, disk |-> d] ELSE UndoStep(V[i - 1], es[i])
      BY <1>0, <1>1, <2>1 DEF IsRun
    <2>3. V = [i \in 0 .. Len(es) |-> V[i]]
      BY <1>1 DEF IsRun
    <2>4. V = [i \in 0 .. Len(es) |->
                IF i = 0 THEN [ok |-> TRUE, disk |-> d] ELSE UndoStep(V[i - 1], es[i])]
      BY <2>2, <2>3
    <2> QED
      BY <2>4, Zenon DEF UndoStep
  <1>3. U = [i \in 0 .. Len(es) |->
              IF i = 0 THEN [ok |-> TRUE, disk |-> d]
              ELSE IF U[i - 1].ok /\ InDevice(es[i])
                   THEN [ok |-> TRUE, disk |-> Undo(U[i - 1].disk, es[i])]
                   ELSE [ok |-> FALSE, disk |-> U[i - 1].disk]]
    BY <1>2
  <1>4. UndoAll(d, es) = U[Len(es)].disk
    BY DEF UndoAll
  <1> HIDE DEF U
  <1>5. U[0] = V[0]
    BY <1>0, <1>1, <1>3 DEF IsRun
  <1>6. \A i \in 1 .. Len(es) : U[i] = UndoStep(U[i - 1], es[i])
    <2>1. SUFFICES ASSUME NEW i \in 1 .. Len(es) PROVE U[i] = UndoStep(U[i - 1], es[i])
      OBVIOUS
    <2>2. i \in 0 .. Len(es) /\ i # 0
      BY <1>0
    <2>3. U[i] = IF i = 0 THEN [ok |-> TRUE, disk |-> d]
                 ELSE IF U[i - 1].ok /\ InDevice(es[i])
                      THEN [ok |-> TRUE, disk |-> Undo(U[i - 1].disk, es[i])]
                      ELSE [ok |-> FALSE, disk |-> U[i - 1].disk]
      BY <1>3, <2>2, Zenon
    <2> QED
      BY <2>2, <2>3, Zenon DEF UndoStep
  <1>7. \A i \in 1 .. Len(es) : V[i] = UndoStep(V[i - 1], es[i])
    BY <1>1 DEF IsRun
  <1>8. \A i \in 0 .. Len(es) : U[i] = V[i]
    <2>1. Follows(U, es, Len(es)) /\ Follows(V, es, Len(es))
      BY <1>6, <1>7 DEF Follows
    <2> QED
      BY <1>0, <1>5, <2>1, RunUnique, Zenon
  <1>9. U[Len(es)] = V[Len(es)]
    BY <1>0, <1>8
  <1> QED
    BY <1>1, <1>4, <1>9

\* Nothing to write back.
LEMMA UndoNothing ==
    ASSUME NEW d \in Disks
    PROVE  UndoAll(d, <<>>) = d
  <1>1. <<>> \in Seq(LogEntries) /\ Len(<<>>) = 0
    OBVIOUS
  <1>2. PICK U : IsRun(U, d, <<>>, 0) /\ UndoAll(d, <<>>) = U[0].disk
    BY <1>1, UndoAllIsRun
  <1> QED
    BY <1>2 DEF IsRun

\* The type of what is written back.
LEMMA UndoAllType ==
    ASSUME NEW d \in Disks, NEW es \in Seq(LogEntries)
    PROVE  UndoAll(d, es) \in Disks
  <1>1. PICK U : IsRun(U, d, es, Len(es)) /\ UndoAll(d, es) = U[Len(es)].disk
    BY UndoAllIsRun
  <1>2. U[Len(es)] \in Runs
    <2>1. Len(es) \in 0 .. Len(es)
      OBVIOUS
    <2> QED
      BY <1>1, <2>1 DEF IsRun
  <1> QED
    BY <1>1, <1>2 DEF Runs

\* Writing back the first entry and then the rest.
LEMMA UndoHead ==
    ASSUME NEW d \in Disks, NEW es \in Seq(LogEntries), es # <<>>, InDevice(Head(es))
    PROVE  UndoAll(d, es) = UndoAll(Undo(d, Head(es)), Tail(es))
  <1>1. PICK n \in Nat : Len(es) = n + 1
    BY Len(es) - 1 \in Nat
  <1>2. /\ Head(es) = es[1] /\ es[1] \in LogEntries /\ Tail(es) \in Seq(LogEntries)
        /\ Len(Tail(es)) = n /\ \A i \in 1 .. n : Tail(es)[i] = es[i + 1]
    BY <1>1
  <1>3. PICK e, f : e = Undo(d, Head(es)) /\ f = Tail(es)
    OBVIOUS
  <1>4. e \in Disks
    BY <1>2, <1>3, UndoType
  <1>5. PICK U : IsRun(U, d, es, n + 1) /\ UndoAll(d, es) = U[n + 1].disk
    BY <1>1, UndoAllIsRun
  <1>6. PICK V : IsRun(V, e, f, n) /\ UndoAll(e, f) = V[n].disk
    BY <1>2, <1>3, <1>4, UndoAllIsRun
  <1>7. PICK W : W = [i \in 0 .. n |-> U[i + 1]]
    OBVIOUS
  <1>8. W[0] = V[0]
    <2>1. U[1] = UndoStep(U[0], es[1]) /\ U[0] = [ok |-> TRUE, disk |-> d]
      BY <1>5 DEF IsRun
    <2>2. UndoStep([ok |-> TRUE, disk |-> d], es[1]) = [ok |-> TRUE, disk |-> e]
      BY <1>2, <1>3 DEF UndoStep
    <2>3. W[0] = U[1] /\ V[0] = [ok |-> TRUE, disk |-> e]
      BY <1>6, <1>7 DEF IsRun
    <2> QED
      BY <2>1, <2>2, <2>3
  <1>9. \A i \in 1 .. n : W[i] = UndoStep(W[i - 1], f[i])
    <2>1. SUFFICES ASSUME NEW i \in 1 .. n PROVE W[i] = UndoStep(W[i - 1], f[i])
      OBVIOUS
    <2>2. U[i + 1] = UndoStep(U[i], es[i + 1])
      <3>1. i + 1 \in 1 .. n + 1 /\ (i + 1) - 1 = i
        OBVIOUS
      <3>2. U[i + 1] = UndoStep(U[(i + 1) - 1], es[i + 1])
        BY <1>5, <3>1 DEF IsRun
      <3> QED
        BY <3>1, <3>2
    <2>3. W[i] = U[i + 1] /\ W[i - 1] = U[i] /\ f[i] = es[i + 1]
      BY <1>2, <1>3, <1>7
    <2> QED
      BY <2>2, <2>3
  <1>10. \A i \in 1 .. n : V[i] = UndoStep(V[i - 1], f[i])
    BY <1>6 DEF IsRun
  <1>11. \A i \in 0 .. n : W[i] = V[i]
    <2>1. n \in Nat
      OBVIOUS
    <2>2. Follows(W, f, n) /\ Follows(V, f, n)
      BY <1>9, <1>10 DEF Follows
    <2> QED
      BY <1>8, <2>1, <2>2, RunUnique, Zenon
  <1>12. W[n] = V[n] /\ W[n] = U[n + 1]
    BY <1>7, <1>11
  <1> QED
    BY <1>3, <1>5, <1>6, <1>12

\* An entry the device refuses ends it.
LEMMA UndoRefused ==
    ASSUME NEW d \in Disks, NEW es \in Seq(LogEntries), es # <<>>, ~InDevice(Head(es))
    PROVE  UndoAll(d, es) = d
  <1>0. Len(es) \in Nat /\ Len(es) >= 1 /\ Head(es) = es[1]
    OBVIOUS
  <1>1. PICK U : IsRun(U, d, es, Len(es)) /\ UndoAll(d, es) = U[Len(es)].disk
    BY UndoAllIsRun
  <1>2. U[1] = [ok |-> FALSE, disk |-> d]
    <2>1. U[1] = UndoStep(U[0], es[1]) /\ U[0] = [ok |-> TRUE, disk |-> d]
      <3>1. 1 \in 1 .. Len(es) /\ 1 - 1 = 0
        BY <1>0
      <3>2. U[1] = UndoStep(U[1 - 1], es[1])
        BY <1>1, <3>1, Zenon DEF IsRun
      <3>3. U[0] = [ok |-> TRUE, disk |-> d]
        BY <1>1 DEF IsRun
      <3> QED
        BY <3>1, <3>2, <3>3
    <2> QED
      <3>1. ~InDevice(es[1])
        BY <1>0
      <3>2. UndoStep(U[0], es[1]) = [ok |-> FALSE, disk |-> U[0].disk]
        BY <3>1, Zenon DEF UndoStep
      <3> QED
        BY <2>1, <3>2
  <1>3. PICK S : S = {i \in 1 .. Len(es) : U[i] # [ok |-> FALSE, disk |-> d]}
    OBVIOUS
  <1>4. S = {}
    <2>1. SUFFICES ASSUME S # {} PROVE FALSE
      OBVIOUS
    <2>2. S \in SUBSET Nat
      BY <1>3
    <2>3. PICK i \in S : \A j \in S : i <= j
      BY <2>1, <2>2, SmallestExists
    <2>4. i \in 1 .. Len(es) /\ i # 1 /\ U[i] # [ok |-> FALSE, disk |-> d]
      BY <1>2, <1>3, <2>3
    <2>5. i - 1 \in 1 .. Len(es) /\ i - 1 \notin S
      BY <1>0, <2>2, <2>3, <2>4
    <2>6. U[i - 1] = [ok |-> FALSE, disk |-> d] /\ U[i] = UndoStep(U[i - 1], es[i])
      BY <1>1, <1>3, <2>4, <2>5 DEF IsRun
    <2>7. UndoStep([ok |-> FALSE, disk |-> d], es[i]) = [ok |-> FALSE, disk |-> d]
      BY DEF UndoStep
    <2> QED
      BY <2>4, <2>6, <2>7
  <1>5. U[Len(es)] = [ok |-> FALSE, disk |-> d]
    <2>1. Len(es) \in 1 .. Len(es) /\ Len(es) \notin S
      BY <1>0, <1>4
    <2> QED
      BY <1>3, <2>1, Zenon
  <1> QED
    BY <1>1, <1>5

\* Where two devices differ only in words that an accepted entry holds, writing
\* back makes them equal: recovery can be interrupted and repeated.
LEMMA UndoAgain ==
    ASSUME NEW d \in Disks, NEW d2 \in Disks, NEW es \in Seq(LogEntries), NEW j \in 1 .. Len(es),
           \A m \in 1 .. j : InDevice(es[m]),
           \A a \in Addr : d2[a] = d[a] \/ a \in Interval(es[j].lo, Len(es[j].data))
    PROVE  UndoAll(d2, es) = UndoAll(d, es)
  <1>0. Len(es) \in Nat /\ j \in Nat
    OBVIOUS
  <1>1. PICK U : IsRun(U, d, es, Len(es)) /\ UndoAll(d, es) = U[Len(es)].disk
    BY UndoAllIsRun
  <1>2. PICK V : IsRun(V, d2, es, Len(es)) /\ UndoAll(d2, es) = V[Len(es)].disk
    BY UndoAllIsRun
  <1>3. PICK I : I = Interval(es[j].lo, Len(es[j].data))
    OBVIOUS
  <1> DEFINE Same(i) == /\ U[i].ok = V[i].ok /\ (i <= j => U[i].ok)
                        /\ \A a \in Addr : U[i].disk[a] = V[i].disk[a] \/ (i < j /\ a \in I)
  <1>4. Same(0)
    BY <1>0, <1>1, <1>2, <1>3 DEF IsRun
  <1>5. ASSUME NEW i \in 1 .. Len(es), Same(i - 1)
        PROVE  Same(i)
    <2>0. U[i] = UndoStep(U[i - 1], es[i]) /\ V[i] = UndoStep(V[i - 1], es[i])
      BY <1>1, <1>2, <1>5 DEF IsRun
    <2>00. /\ i \in Nat /\ i - 1 \in Int /\ (i <= j => i - 1 <= j)
           /\ (i - 1 < j => i <= j) /\ (i < j => i - 1 < j)
      BY <1>0, <1>5
    <2>1. CASE U[i - 1].ok /\ InDevice(es[i])
      <3>1. U[i] = [ok |-> TRUE, disk |-> Undo(U[i - 1].disk, es[i])]
        BY <2>0, <2>1, Zenon DEF UndoStep
      <3>2. V[i] = [ok |-> TRUE, disk |-> Undo(V[i - 1].disk, es[i])]
        BY <1>5, <2>0, <2>1, Zenon DEF UndoStep
      <3>3. ASSUME NEW a \in Addr
            PROVE  U[i].disk[a] = V[i].disk[a] \/ (i < j /\ a \in I)
        <4>1. CASE a \in Interval(es[i].lo, Len(es[i].data))
          <5>1. /\ U[i].disk[a] = es[i].data[a - es[i].lo + 1]
                /\ V[i].disk[a] = es[i].data[a - es[i].lo + 1]
            BY <3>1, <3>2, <4>1 DEF Undo
          <5> QED
            BY <5>1
        <4>2. CASE a \notin Interval(es[i].lo, Len(es[i].data))
          <5>1. U[i].disk[a] = U[i - 1].disk[a] /\ V[i].disk[a] = V[i - 1].disk[a]
            BY <3>1, <3>2, <4>2 DEF Undo
          <5>2. U[i - 1].disk[a] = V[i - 1].disk[a] \/ (i - 1 < j /\ a \in I)
            BY <1>5
          <5>3. i = j => a \notin I
            BY <1>3, <4>2
          <5> QED
            BY <1>0, <2>00, <5>1, <5>2, <5>3
        <4> QED
          BY <4>1, <4>2
      <3> QED
        BY <3>1, <3>2, <3>3
    <2>2. CASE ~(U[i - 1].ok /\ InDevice(es[i]))
      <3>1. U[i] = [ok |-> FALSE, disk |-> U[i - 1].disk]
        BY <2>0, <2>2, Zenon DEF UndoStep
      <3>2. V[i] = [ok |-> FALSE, disk |-> V[i - 1].disk]
        BY <1>5, <2>0, <2>2, Zenon DEF UndoStep
      <3>3. ~(i <= j)
        <4>1. i <= j => InDevice(es[i])
          BY <1>0, <1>5
        <4> QED
          BY <1>5, <2>00, <2>2, <4>1
      <3> QED
        BY <1>0, <1>5, <2>00, <3>1, <3>2, <3>3
    <2> QED
      BY <2>1, <2>2
  <1>6. \A i \in 0 .. Len(es) : Same(i)
    <2>1. PICK S : S = {i \in 0 .. Len(es) : ~Same(i)}
      OBVIOUS
    <2> HIDE DEF Same
    <2>2. SUFFICES ASSUME S # {} PROVE FALSE
      BY <2>1
    <2>3. S \in SUBSET Nat
      BY <2>1
    <2>4. PICK i \in S : \A m \in S : i <= m
      BY <2>2, <2>3, SmallestExists
    <2>5. i \in 1 .. Len(es) /\ i - 1 \in 0 .. Len(es) /\ i - 1 \notin S /\ ~Same(i)
      BY <1>4, <2>1, <2>3, <2>4
    <2>6. Same(i - 1)
      BY <2>1, <2>5
    <2> QED
      BY <1>5, <2>5, <2>6
  <1>7. \A a \in Addr : U[Len(es)].disk[a] = V[Len(es)].disk[a]
    BY <1>0, <1>6
  <1>8. U[Len(es)].disk \in Disks /\ V[Len(es)].disk \in Disks
    BY <1>1, <1>2, UndoAllType
  <1> QED
    BY <1>1, <1>2, <1>7, <1>8 DEF Disks

-----------------------------------------------------------------------------
(* Reading the log *)

\* At position p of file l there is a header and all the data it promises.
Complete(l, p) == ~(p + hdrSize > Len(l) \/ p + hdrSize + l[p + 3] > Len(l))
EntryAt(l, p) == [lo |-> l[p + 1], hi |-> l[p + 2],
                  data |-> SubSeq(l, (p + hdrSize) + 1, (p + hdrSize) + l[p + 3])]
EndOf(l, p) == (p + hdrSize) + l[p + 3]

\* F[p] is what readPending finds from position p on, for p from m to the end.
Reads(F, l, m) ==
    \A p \in m .. Len(l) :
        F[p] = IF Complete(l, p) THEN <<EntryAt(l, p)>> \o F[EndOf(l, p)] ELSE <<>>

\* What a complete entry holds.
LEMMA EntryType ==
    ASSUME NEW l \in Seq(Nat), NEW p \in 0 .. Len(l), Complete(l, p)
    PROVE  /\ EntryAt(l, p) \in LogEntries /\ EndOf(l, p) \in p + 1 .. Len(l)
           /\ Len(EntryAt(l, p).data) = l[p + 3] /\ l[p + 3] \in Nat
           /\ \A i \in 1 .. l[p + 3] : EntryAt(l, p).data[i] = l[p + hdrSize + i]
  <1>1. Len(l) \in Nat /\ p + 3 <= Len(l)
    BY DEF Complete, hdrSize
  <1>2. p + 1 \in 1 .. Len(l) /\ p + 2 \in 1 .. Len(l) /\ p + 3 \in 1 .. Len(l)
    BY <1>1
  <1>3. l[p + 1] \in Nat /\ l[p + 2] \in Nat /\ l[p + 3] \in Nat
    BY <1>2, ElementOfSeq
  <1>4. p + 3 + l[p + 3] <= Len(l)
    BY <1>1, <1>3 DEF Complete, hdrSize
  <1>5. EndOf(l, p) \in p + 1 .. Len(l)
    BY <1>1, <1>3, <1>4 DEF EndOf, hdrSize
  <1>6. PICK n \in Nat : n = l[p + 3]
    BY <1>3
  <1>7. \A i \in p + 3 + 1 .. p + 3 + n : l[i] \in Nat
    <2>1. \A i \in p + 3 + 1 .. p + 3 + n : i \in 1 .. Len(l)
      BY <1>1, <1>4, <1>6
    <2> QED
      BY <2>1, ElementOfSeq
  <1>8. PICK d : d = SubSeq(l, p + 3 + 1, p + 3 + n)
    OBVIOUS
  <1>9. d \in Seq(Nat) /\ Len(d) = n /\ \A i \in 1 .. n : d[i] = l[p + 3 + i]
    <2>1. p + 3 + 1 \in Int /\ p + 3 + n \in Int
      OBVIOUS
    <2>2. /\ d \in Seq(Nat)
          /\ Len(d) = IF p + 3 + 1 <= p + 3 + n THEN (p + 3 + n) - (p + 3 + 1) + 1 ELSE 0
          /\ \A i \in 1 .. (p + 3 + n) - (p + 3 + 1) + 1 : d[i] = l[(p + 3 + 1) + i - 1]
      BY <1>7, <1>8, <2>1, SubSeqProperties
    <2>3. (p + 3 + n) - (p + 3 + 1) + 1 = n /\ \A i \in 1 .. n : (p + 3 + 1) + i - 1 = p + 3 + i
      OBVIOUS
    <2>4. Len(d) = n
      BY <2>2, <2>3
    <2> QED
      BY <2>2, <2>3, <2>4
  <1>10. EntryAt(l, p) = [lo |-> l[p + 1], hi |-> l[p + 2], data |-> d]
    BY <1>6, <1>8 DEF EntryAt, hdrSize
  <1> QED
    BY <1>3, <1>5, <1>6, <1>9, <1>10 DEF LogEntries, hdrSize

\* What follows an entry.
LEMMA AfterEntry ==
    ASSUME NEW e \in LogEntries, NEW s \in Seq(LogEntries)
    PROVE  /\ <<e>> \o s \in Seq(LogEntries) /\ <<e>> \o s # <<>>
           /\ Head(<<e>> \o s) = e /\ Tail(<<e>> \o s) = s
  <1>1. <<e>> \in Seq(LogEntries) /\ Len(<<e>>) = 1 /\ <<e>>[1] = e
    OBVIOUS
  <1>2. PICK q : q = <<e>> \o s
    OBVIOUS
  <1>3. /\ q \in Seq(LogEntries) /\ Len(q) = 1 + Len(s)
        /\ \A i \in 1 .. 1 + Len(s) : q[i] = IF i <= 1 THEN <<e>>[i] ELSE s[i - 1]
    BY <1>1, <1>2, ConcatProperties
  <1>4. Len(s) \in Nat
    OBVIOUS
  <1>5. q # <<>> /\ q[1] = e /\ Head(q) = q[1]
    BY <1>1, <1>3, <1>4
  <1>6. /\ Tail(q) \in Seq(LogEntries) /\ Len(Tail(q)) = Len(s)
        /\ \A i \in 1 .. Len(s) : Tail(q)[i] = q[i + 1]
    BY <1>3, <1>4, <1>5, HeadTailProperties
  <1>7. ASSUME NEW i \in 1 .. Len(s)
        PROVE  Tail(q)[i] = s[i]
    <2>1. i + 1 \in 1 .. 1 + Len(s) /\ ~(i + 1 <= 1) /\ (i + 1) - 1 = i
      BY <1>4
    <2>2. q[i + 1] = s[(i + 1) - 1]
      BY <1>3, <2>1, Zenon
    <2> QED
      BY <1>6, <2>1, <2>2
  <1>8. Tail(q) = s
    BY <1>6, <1>7, SeqEqual
  <1> QED
    BY <1>2, <1>3, <1>5, <1>8

\* Every file can be read: from its end to its start, positions one by one.
LEMMA ReadsExist ==
    ASSUME NEW l \in Seq(Nat)
    PROVE  \E F \in [0 .. Len(l) -> Seq(LogEntries)] : Reads(F, l, 0)
  <1>0. Len(l) \in Nat
    OBVIOUS
  <1> DEFINE Good(m) == \E F \in [m .. Len(l) -> Seq(LogEntries)] : Reads(F, l, m)
  <1> DEFINE Bad == {n \in 0 .. Len(l) + 1 : ~Good(Len(l) + 1 - n)}
  <1>1. SUFFICES ASSUME Bad # {} PROVE FALSE
    <2>1. Len(l) + 1 \in 0 .. Len(l) + 1 /\ Len(l) + 1 - (Len(l) + 1) = 0
      BY <1>0
    <2> QED
      BY <2>1
  <1>2. PICK n \in Bad : \A m \in Bad : n <= m
    <2>1. Bad \in SUBSET Nat
      BY <1>0
    <2> HIDE DEF Bad
    <2> QED
      BY <1>1, <2>1, SmallestExists
  <1>3. n # 0
    <2>1. PICK F : F = [p \in Len(l) + 1 .. Len(l) |-> <<>>]
      OBVIOUS
    <2>2. Len(l) + 1 .. Len(l) = {}
      BY <1>0
    <2>3. F \in [Len(l) + 1 .. Len(l) -> Seq(LogEntries)] /\ Reads(F, l, Len(l) + 1)
      BY <2>1, <2>2 DEF Reads
    <2>4. Good(Len(l) + 1)
      BY <2>3
    <2>5. Len(l) + 1 - 0 = Len(l) + 1
      BY <1>0
    <2> QED
      BY <1>2, <2>4, <2>5
  <1>4. PICK m \in 0 .. Len(l) : m = Len(l) + 1 - n
    BY <1>0, <1>2, <1>3
  <1>5. ~Good(m) /\ Good(m + 1)
    <2> HIDE DEF Good
    <2>4. n \in 0 .. Len(l) + 1
      OBVIOUS
    <2>5. n - 1 \notin Bad
      <3> HIDE DEF Bad
      <3>1. n \in Int /\ ~(n <= n - 1)
        BY <1>0, <2>4
      <3> QED
        BY <1>2, <3>1
    <2>1. n - 1 \in 0 .. Len(l) + 1 /\ n - 1 \notin Bad /\ Len(l) + 1 - (n - 1) = m + 1
      BY <1>0, <1>3, <1>4, <2>4, <2>5
    <2>2. ~Good(Len(l) + 1 - n)
      BY <1>2
    <2>3. Good(Len(l) + 1 - (n - 1))
      BY <2>1
    <2> QED
      BY <1>4, <2>1, <2>2, <2>3
  <1>6. PICK F \in [m + 1 .. Len(l) -> Seq(LogEntries)] : Reads(F, l, m + 1)
    BY <1>5
  <1> HIDE DEF Good, Bad
  <1>7. PICK x : x = IF Complete(l, m) THEN <<EntryAt(l, m)>> \o F[EndOf(l, m)] ELSE <<>>
    OBVIOUS
  <1>8. x \in Seq(LogEntries)
    <2>1. CASE Complete(l, m)
      <3>1. EntryAt(l, m) \in LogEntries /\ EndOf(l, m) \in m + 1 .. Len(l)
        BY <2>1, EntryType
      <3>2. F[EndOf(l, m)] \in Seq(LogEntries)
        BY <1>6, <3>1
      <3> QED
        BY <1>7, <2>1, <3>1, <3>2, AfterEntry
    <2>2. CASE ~Complete(l, m)
      BY <1>7, <2>2
    <2> QED
      BY <2>1, <2>2
  <1>9. PICK G : G = [p \in m .. Len(l) |-> IF p = m THEN x ELSE F[p]]
    OBVIOUS
  <1>10. G \in [m .. Len(l) -> Seq(LogEntries)]
    <2>1. \A p \in m .. Len(l) : p # m => p \in m + 1 .. Len(l)
      BY <1>0
    <2> QED
      BY <1>6, <1>8, <1>9, <2>1
  <1>11. Reads(G, l, m)
    <2>1. SUFFICES ASSUME NEW p \in m .. Len(l)
                   PROVE  G[p] = IF Complete(l, p) THEN <<EntryAt(l, p)>> \o G[EndOf(l, p)] ELSE <<>>
      BY DEF Reads
    <2>2. p \in 0 .. Len(l) /\ m \in Nat
      BY <1>0
    <2>3. Complete(l, p) => EndOf(l, p) \in p + 1 .. Len(l)
      BY <2>2, EntryType
    <2>4. Complete(l, p) => G[EndOf(l, p)] = F[EndOf(l, p)]
      BY <1>0, <1>9, <2>2, <2>3
    <2>5. CASE p = m
      <3>1. G[p] = x
        BY <1>0, <1>9, <2>5
      <3> QED
        BY <1>7, <2>4, <2>5, <3>1, Zenon
    <2>6. CASE p # m
      <3>1. G[p] = F[p] /\ p \in m + 1 .. Len(l)
        BY <1>0, <1>9, <2>2, <2>6
      <3>2. F[p] = IF Complete(l, p) THEN <<EntryAt(l, p)>> \o F[EndOf(l, p)] ELSE <<>>
        BY <1>6, <3>1, Zenon DEF Reads
      <3> QED
        BY <2>4, <3>1, <3>2, Zenon
    <2> QED
      BY <2>5, <2>6
  <1> QED
    BY <1>5, <1>10, <1>11 DEF Good

\* What is read is determined by the file.
LEMMA ReadsUnique ==
    ASSUME NEW l \in Seq(Nat), NEW F, NEW G, Reads(F, l, 0), Reads(G, l, 0)
    PROVE  \A p \in 0 .. Len(l) : F[p] = G[p]
  <1>0. Len(l) \in Nat
    OBVIOUS
  <1>1. PICK S : S = {n \in 0 .. Len(l) : F[Len(l) - n] # G[Len(l) - n]}
    OBVIOUS
  <1>2. S = {}
    <2>1. SUFFICES ASSUME S # {} PROVE FALSE
      OBVIOUS
    <2>2. S \in SUBSET Nat
      BY <1>0, <1>1
    <2>3. PICK n \in S : \A k \in S : n <= k
      BY <2>1, <2>2, SmallestExists
    <2>4. PICK p : p = Len(l) - n
      OBVIOUS
    <2>5. p \in 0 .. Len(l) /\ F[p] # G[p] /\ n \in Nat
      BY <1>0, <1>1, <2>3, <2>4
    <2>6. /\ F[p] = IF Complete(l, p) THEN <<EntryAt(l, p)>> \o F[EndOf(l, p)] ELSE <<>>
          /\ G[p] = IF Complete(l, p) THEN <<EntryAt(l, p)>> \o G[EndOf(l, p)] ELSE <<>>
      BY <2>5, Zenon DEF Reads
    <2>7. Complete(l, p) /\ F[EndOf(l, p)] # G[EndOf(l, p)]
      BY <2>5, <2>6, Zenon
    <2>8. PICK q : q = EndOf(l, p) /\ q \in p + 1 .. Len(l)
      BY <2>5, <2>7, EntryType
    <2>9. PICK k : k = Len(l) - q
      OBVIOUS
    <2>10. k \in 0 .. Len(l) /\ k < n /\ Len(l) - k = q
      BY <1>0, <2>4, <2>5, <2>8, <2>9
    <2>11. k \in S
      BY <1>1, <2>7, <2>8, <2>10
    <2> QED
      BY <2>3, <2>5, <2>10, <2>11
  <1>3. SUFFICES ASSUME NEW p \in 0 .. Len(l) PROVE F[p] = G[p]
    OBVIOUS
  <1>4. Len(l) - p \in 0 .. Len(l) /\ Len(l) - (Len(l) - p) = p
    BY <1>0
  <1> QED
    BY <1>1, <1>2, <1>4

\* readPending reads the file.
LEMMA PendingIsRead ==
    ASSUME NEW l \in Seq(Nat)
    PROVE  \E F \in [0 .. Len(l) -> Seq(LogEntries)] : Reads(F, l, 0) /\ readPending(l) = F[0]
  <1> DEFINE E[p \in 0 .. Len(l)] ==
            IF p + hdrSize > Len(l) \/ p + hdrSize + l[p + 3] > Len(l) THEN <<>>
            ELSE LET q == p + hdrSize
                     n == l[p + 3]
                 IN  <<[lo |-> l[p + 1], hi |-> l[p + 2],
                        data |-> SubSeq(l, q + 1, q + n)]>> \o E[q + n]
  <1>1. PICK F \in [0 .. Len(l) -> Seq(LogEntries)] : Reads(F, l, 0)
    BY ReadsExist
  <1>2. F = [p \in 0 .. Len(l) |->
              IF p + hdrSize > Len(l) \/ p + hdrSize + l[p + 3] > Len(l) THEN <<>>
              ELSE <<[lo |-> l[p + 1], hi |-> l[p + 2],
                      data |-> SubSeq(l, (p + hdrSize) + 1, (p + hdrSize) + l[p + 3])]>>
                   \o F[(p + hdrSize) + l[p + 3]]]
    <2>1. F = [p \in 0 .. Len(l) |-> F[p]]
      OBVIOUS
    <2>2. ASSUME NEW p \in 0 .. Len(l)
          PROVE F[p] = IF p + hdrSize > Len(l) \/ p + hdrSize + l[p + 3] > Len(l) THEN <<>>
              ELSE <<[lo |-> l[p + 1], hi |-> l[p + 2],
                      data |-> SubSeq(l, (p + hdrSize) + 1, (p + hdrSize) + l[p + 3])]>>
                   \o F[(p + hdrSize) + l[p + 3]]
      BY <1>1, Zenon DEF Reads, Complete, EntryAt, EndOf
    <2> QED
      BY <2>1, <2>2, Zenon
  <1>3. E = [p \in 0 .. Len(l) |->
              IF p + hdrSize > Len(l) \/ p + hdrSize + l[p + 3] > Len(l) THEN <<>>
              ELSE <<[lo |-> l[p + 1], hi |-> l[p + 2],
                      data |-> SubSeq(l, (p + hdrSize) + 1, (p + hdrSize) + l[p + 3])]>>
                   \o E[(p + hdrSize) + l[p + 3]]]
    BY <1>2, Zenon
  <1>4. readPending(l) = E[0]
    BY DEF readPending
  <1> HIDE DEF E
  <1>5. Reads(E, l, 0)
    <2>1. SUFFICES ASSUME NEW p \in 0 .. Len(l)
                   PROVE  E[p] = IF Complete(l, p) THEN <<EntryAt(l, p)>> \o E[EndOf(l, p)] ELSE <<>>
      BY DEF Reads
    <2>2. E[p] = IF p + hdrSize > Len(l) \/ p + hdrSize + l[p + 3] > Len(l) THEN <<>>
              ELSE <<[lo |-> l[p + 1], hi |-> l[p + 2],
                      data |-> SubSeq(l, (p + hdrSize) + 1, (p + hdrSize) + l[p + 3])]>>
                   \o E[(p + hdrSize) + l[p + 3]]
      BY <1>3, Zenon
    <2> QED
      BY <2>2, Zenon DEF Complete, EntryAt, EndOf
  <1>6. E[0] = F[0]
    <2>1. 0 \in 0 .. Len(l)
      OBVIOUS
    <2> QED
      BY <1>1, <1>5, <2>1, ReadsUnique, Zenon
  <1> QED
    BY <1>1, <1>4, <1>6

-----------------------------------------------------------------------------
(* Types: what is in the buffers, the cache and the log are words *)

\* The larger of two numbers.
LEMMA MaxOfTwo ==
    ASSUME NEW a \in Int, NEW b \in Int
    PROVE  Max({a, b}) = IF a >= b THEN a ELSE b
  <1>1. \E x \in {a, b} : \A y \in {a, b} : x >= y
    OBVIOUS
  <1>2. PICK m : m = Max({a, b})
    OBVIOUS
  <1>3. m \in {a, b} /\ \A y \in {a, b} : m >= y
    BY <1>1, <1>2 DEF Max
  <1> QED
    BY <1>2, <1>3

\* Writing words to the log file.
LEMMA WriteLogWords ==
    ASSUME NEW l \in Seq(Nat), NEW p \in Nat, NEW ws \in Seq(Nat), NEW w, w = WriteLog(l, p, ws)
    PROVE  /\ w \in Seq(Nat)
           /\ Len(w) = IF Len(l) >= p + Len(ws) THEN Len(l) ELSE p + Len(ws)
           /\ \A i \in 1 .. Len(w) : w[i] =
                IF i \in p + 1 .. p + Len(ws) THEN ws[i - p]
                ELSE IF i <= Len(l) THEN l[i] ELSE 0
  <1>1. Len(l) \in Nat /\ Len(ws) \in Nat
    OBVIOUS
  <1>2. PICK n : n = IF Len(l) >= p + Len(ws) THEN Len(l) ELSE p + Len(ws)
    OBVIOUS
  <1>9. n \in Nat
    BY <1>1, <1>2
  <1>3. Max({Len(l), p + Len(ws)}) = n
    <2>1. PICK a \in Int, b \in Int : a = Len(l) /\ b = p + Len(ws)
      BY <1>1
    <2>2. Max({a, b}) = IF a >= b THEN a ELSE b
      BY MaxOfTwo
    <2> QED
      BY <1>2, <2>1, <2>2
  <1>4. w = [i \in 1 .. n |-> IF i \in p + 1 .. p + Len(ws) THEN ws[i - p]
                             ELSE IF i <= Len(l) THEN l[i] ELSE 0]
    BY <1>3 DEF WriteLog
  <1>6. ASSUME NEW i \in 1 .. n
        PROVE  w[i] \in Nat
    <2>1. CASE i \in p + 1 .. p + Len(ws)
      <3>1. i - p \in 1 .. Len(ws)
        BY <1>1, <2>1
      <3>2. ws[i - p] \in Nat
        BY <3>1, ElementOfSeq
      <3> QED
        BY <1>4, <2>1, <3>2
    <2>2. CASE i \notin p + 1 .. p + Len(ws) /\ i <= Len(l)
      <3>1. i \in 1 .. Len(l)
        BY <1>1, <2>2
      <3>2. l[i] \in Nat
        BY <3>1, ElementOfSeq
      <3> QED
        BY <1>4, <2>2, <3>2
    <2>3. CASE i \notin p + 1 .. p + Len(ws) /\ ~(i <= Len(l))
      BY <1>4, <2>3
    <2> QED
      BY <2>1, <2>2, <2>3
  <1>7. w \in [1 .. n -> Nat]
    BY <1>4, <1>6
  <1>8. w \in Seq(Nat) /\ Len(w) = n
    BY <1>7, <1>9
  <1> QED
    BY <1>2, <1>4, <1>8

\* A request is an interval: its smallest address and its number of addresses.
LEMMA RequestInterval ==
    ASSUME NEW R \in Requests
    PROVE  /\ Min(R) \in R /\ Cardinality(R) \in Nat \ {0}
           /\ \A i \in 1 .. Cardinality(R) : Min(R) + i - 1 \in R
           /\ R = Interval(Min(R), Cardinality(R)) /\ R \subseteq Nat
  <1>1. PICK off \in Addr, n \in 1 .. DevSize : R = Interval(off, n)
    BY RequestsAssumption
  <1>2. R \in SUBSET Nat /\ R # {} /\ DevSize \in Nat /\ off \in 0 .. DevSize - 1
    BY RequestAddresses, NonEmptyRequests, SizesAssumption DEF Addr
  <1>3. Min(R) \in R /\ \A y \in R : Min(R) <= y
    BY <1>2, MinIsSmallest
  <1>4. PICK e \in Nat : e = IF off + n - 1 <= DevSize - 1 THEN off + n - 1 ELSE DevSize - 1
    BY <1>2
  <1>5. R = off .. e /\ off <= e
    BY <1>1, <1>2, <1>4 DEF Interval, Addr
  <1>6. Min(R) = off
    BY <1>2, <1>3, <1>5
  <1>7. Cardinality(R) = e - off + 1
    <2>1. off \in Int /\ e \in Int /\ ~(off > e)
      BY <1>2, <1>5
    <2> QED
      BY <1>5, <2>1, FS_Interval
  <1>8. Interval(off, e - off + 1) = off .. e
    BY <1>2, <1>4 DEF Interval, Addr
  <1>9. \A i \in 1 .. e - off + 1 : off + i - 1 \in R
    BY <1>2, <1>5
  <1> QED
    BY <1>2, <1>3, <1>5, <1>6, <1>7, <1>8, <1>9

\* The words of a block, in order.
LEMMA WordsOfBlock ==
    ASSUME NEW b, IsBlock(b)
    PROVE  /\ Words(b) \in Seq(Nat) /\ Len(Words(b)) = Cardinality(DOMAIN b)
           /\ \A i \in 1 .. Cardinality(DOMAIN b) : Words(b)[i] = b[Min(DOMAIN b) + i - 1]
           /\ DOMAIN b \in Requests /\ b \in [DOMAIN b -> Nat]
  <1>1. PICK R \in Requests : b \in [R -> Nat]
    BY DEF IsBlock
  <1>2. DOMAIN b = R
    BY <1>1
  <1>3. PICK n, m : n = Cardinality(R) /\ m = Min(R)
    OBVIOUS
  <1>4. n \in Nat /\ \A i \in 1 .. n : m + i - 1 \in R
    BY <1>3, RequestInterval
  <1>5. PICK w : w = [i \in 1 .. n |-> b[m + i - 1]]
    OBVIOUS
  <1>6. Words(b) = w
    BY <1>2, <1>3, <1>5 DEF Words
  <1>7. w \in [1 .. n -> Nat]
    BY <1>1, <1>4, <1>5
  <1>8. w \in Seq(Nat) /\ Len(w) = n
    BY <1>4, <1>7
  <1> QED
    BY <1>1, <1>2, <1>3, <1>5, <1>6, <1>8

\* Every block of the cache holds words.
BlocksTyped(c) == \A i \in DOMAIN c : IsBlock(c[i])

\* A hit gives a block.
LEMMA HitTyped ==
    ASSUME NEW c, IsBlockList(c, Requests, CacheSlots), BlocksTyped(c),
           NEW R \in Requests, CacheHit(c, R)
    PROVE  IsBlock(lookupCache(c, R)) /\ DOMAIN lookupCache(c, R) = R
  <1>1. PICK n \in 0 .. CacheSlots : c = [i \in 1 .. n |-> c[i]]
    BY DEF IsBlockList
  <1>2. n \in Nat
    BY SizesAssumption
  <1>3. PICK i : i = Min(Covering(c, R))
    OBVIOUS
  <1>4. i \in 1 .. n /\ R \subseteq DOMAIN c[i]
    BY <1>1, <1>2, <1>3, FirstCovering
  <1>5. i \in DOMAIN c
    BY <1>1, <1>4
  <1>6. PICK S \in Requests : c[i] \in [S -> Nat]
    BY <1>5 DEF BlocksTyped, IsBlock
  <1>7. lookupCache(c, R) = [a \in R |-> c[i][a]]
    BY <1>3 DEF lookupCache
  <1>8. [a \in R |-> c[i][a]] \in [R -> Nat]
    BY <1>4, <1>6
  <1> QED
    BY <1>7, <1>8 DEF IsBlock

\* Patching a block with a block gives one.
LEMMA PatchTyped ==
    ASSUME NEW b, NEW d, IsBlock(b), IsBlock(d)
    PROVE  IsBlock(Patch(b, d))
  <1>1. PICK R \in Requests : b \in [R -> Nat]
    BY DEF IsBlock
  <1>2. PICK S \in Requests : d \in [S -> Nat]
    BY DEF IsBlock
  <1>3. Patch(b, d) \in [R -> Nat]
    BY <1>1, <1>2 DEF Patch
  <1> QED
    BY <1>3 DEF IsBlock

\* updateCache keeps the blocks blocks.
LEMMA UpdateTyped ==
    ASSUME NEW c, IsBlockList(c, Requests, CacheSlots), BlocksTyped(c), NEW d, IsBlock(d)
    PROVE  BlocksTyped(updateCache(c, d, CacheSlots))
  <1>1. PICK n \in 0 .. CacheSlots : c = [i \in 1 .. n |-> c[i]]
    BY DEF IsBlockList
  <1>2. n \in Nat /\ CacheSlots \in Nat \ {0} /\ n <= CacheSlots /\ IsList(c, n)
    BY <1>1, SizesAssumption DEF IsList
  <1>3. \A i \in 1 .. n : IsBlock(c[i])
    BY <1>1 DEF BlocksTyped
  <1>4. PICK e : e = updateCache(c, d, CacheSlots)
    OBVIOUS
  <1>5. CASE \E i \in 1 .. n : Moved(c, e, n, i, Patch(c[i], d))
    <2>1. PICK i \in 1 .. n : Moved(c, e, n, i, Patch(c[i], d))
      BY <1>5
    <2>2. IsBlock(Patch(c[i], d))
      BY <1>3, PatchTyped
    <2>3. ASSUME NEW k \in 1 .. n PROVE IsBlock(e[k])
      <3>1. \/ k = 1 /\ e[k] = Patch(c[i], d)
            \/ k - 1 \in 1 .. n /\ e[k] = c[k - 1]
            \/ e[k] = c[k]
        BY <1>2, <2>1 DEF Moved
      <3> QED
        BY <1>3, <2>2, <3>1
    <2>4. DOMAIN e = 1 .. n
      BY <1>2, <2>1, ListLength DEF Moved, IsList
    <2> QED
      BY <1>4, <2>3, <2>4 DEF BlocksTyped
  <1>6. CASE \E m \in 1 .. CacheSlots : m <= n + 1 /\ Pushed(c, e, m, d)
    <2>1. PICK m \in 1 .. CacheSlots : m <= n + 1 /\ Pushed(c, e, m, d)
      BY <1>6
    <2>2. ASSUME NEW k \in 1 .. m PROVE IsBlock(e[k])
      <3>1. \/ k = 1 /\ e[k] = d
            \/ k - 1 \in 1 .. n /\ e[k] = c[k - 1]
        BY <1>2, <2>1 DEF Pushed
      <3> QED
        BY <1>3, <3>1
    <2>3. DOMAIN e = 1 .. m
      BY <1>2, <2>1, ListLength DEF Pushed, IsList
    <2> QED
      BY <1>4, <2>2, <2>3 DEF BlocksTyped
  <1> QED
    BY <1>2, <1>4, <1>5, <1>6, UpdateCases

\* The buffers of a call are blocks.
CallTyped(o) ==
    /\ o.pc \in {"readFill", "preFill", "setOff", "setLen", "header", "data", "sync",
                 "writing", "postFill", "remove"} => IsBlock(o.old)
    /\ o.pc \in {"preRead", "preFill", "setOff", "setLen", "header", "data", "sync",
                 "writing", "postFill", "remove"} => IsBlock(o.new)

CallsTyped == \A t \in Threads : CallTyped(op[t])
LogTyped == log \in Seq(Nat) /\ pos \in Nat /\ hdr \in Seq(Nat) /\ Len(hdr) = hdrSize
DeviceTyped == disk \in Disks /\ seen \in [Addr -> SUBSET Nat]
MountTyped ==
    pre \in Disks /\ goal \in Disks /\ base \in Nat /\ pend \in Seq(LogEntries)

\* The part of the type invariant that is about words, and what it needs of the
\* calls in progress to be inductive.
WordsInv ==
    LogTyped /\ DeviceTyped /\ MountTyped /\ BlocksTyped(cache) /\ CallsTyped

\* What readPending finds are entries.
LEMMA PendingType ==
    ASSUME NEW l \in Seq(Nat)
    PROVE  readPending(l) \in Seq(LogEntries)
  <1>1. PICK F \in [0 .. Len(l) -> Seq(LogEntries)] : readPending(l) = F[0]
    BY PendingIsRead
  <1>2. 0 \in 0 .. Len(l)
    OBVIOUS
  <1> QED
    BY <1>1, <1>2

\* A thread's call is replaced by one with typed buffers.
LEMMA CallsStep ==
    ASSUME ShapeOK, CallsTyped, NEW t \in Threads, NEW v, CallTyped(v),
           op' = [op EXCEPT ![t] = v]
    PROVE  CallsTyped'
  <1>1. op' = [s \in Threads |-> IF s = t THEN v ELSE op[s]]
    BY DEF ShapeOK
  <1> QED
    BY <1>1 DEF CallsTyped

\* A step of a call that touches only its own buffers.
LEMMA QuietWords ==
    ASSUME ShapeOK, WordsInv, NEW t \in Threads, NEW v, CallTyped(v),
           op' = [op EXCEPT ![t] = v], UNCHANGED <<disk, cache, seen, goal, pend>>,
           UNCHANGED <<log, pos, hdr>>, base' \in Nat, pre' \in {pre, disk}
    PROVE  WordsInv'
  <1>1. CallsTyped'
    BY CallsStep DEF WordsInv
  <1>2. LogTyped' /\ DeviceTyped' /\ MountTyped' /\ BlocksTyped(cache)'
    BY DEF WordsInv, LogTyped, DeviceTyped, MountTyped
  <1> QED
    BY <1>1, <1>2 DEF WordsInv

\* A step of a call that puts a block into the cache.
LEMMA FillWords ==
    ASSUME ShapeOK, WordsInv, NEW t \in Threads, NEW v, CallTyped(v),
           op' = [op EXCEPT ![t] = v], UNCHANGED <<disk, pre, seen, goal, pend, base>>,
           UNCHANGED <<log, pos, hdr>>, NEW d, IsBlock(d),
           cache' = updateCache(cache, d, CacheSlots)
    PROVE  WordsInv'
  <1>1. CallsTyped'
    BY CallsStep DEF WordsInv
  <1>2. LogTyped' /\ DeviceTyped' /\ MountTyped'
    BY DEF WordsInv, LogTyped, DeviceTyped, MountTyped
  <1>3. BlocksTyped(cache')
    BY UpdateTyped DEF WordsInv, ShapeOK
  <1> QED
    BY <1>1, <1>2, <1>3 DEF WordsInv

\* A step of a call that writes to the log or its header buffer.
LEMMA LogWords ==
    ASSUME ShapeOK, WordsInv, NEW t \in Threads, NEW v, CallTyped(v),
           op' = [op EXCEPT ![t] = v], UNCHANGED <<disk, cache, seen, goal, pend, base>>,
           pre' \in {pre, disk}, LogTyped'
    PROVE  WordsInv'
  <1>1. CallsTyped'
    BY CallsStep DEF WordsInv
  <1>2. DeviceTyped' /\ MountTyped' /\ BlocksTyped(cache)'
    BY DEF WordsInv, DeviceTyped, MountTyped
  <1> QED
    BY <1>1, <1>2 DEF WordsInv

\* What is read from the device is a block.
LEMMA ReadTyped ==
    ASSUME DeviceTyped, NEW R \in Requests
    PROVE  IsBlock([a \in R |-> disk[a]])
  <1>1. [a \in R |-> disk[a]] \in [R -> Nat]
    BY RequestAddresses DEF DeviceTyped, Disks
  <1> QED
    BY <1>1 DEF IsBlock

\* A thread without a call.
LEMMA IdleTyped == CallTyped(Idle)
  BY DEF CallTyped, Idle

\* The steps of ReadAt.
LEMMA ReadKeepsWords ==
    ASSUME ShapeOK, WordsInv, NEW t \in Threads, Read(t)
    PROVE  WordsInv'
  <1>0. CallShape(op[t]) /\ CallTyped(op[t]) /\ base \in Nat
    BY DEF ShapeOK, WordsInv, CallsTyped, MountTyped
  <1>1. ASSUME NEW R \in Requests, ReadHit(t, R)
        PROVE  WordsInv'
    BY <1>1 DEF ReadHit, vars, WordsInv, LogTyped, DeviceTyped, MountTyped, CallsTyped
  <1>2. ASSUME NEW R \in Requests, ReadMiss(t, R)
        PROVE  WordsInv'
    <2>1. CallTyped([pc |-> "readInner", rng |-> R])
      BY DEF CallTyped
    <2> QED
      BY <1>0, <1>2, <2>1, QuietWords DEF ReadMiss, LogUnchanged, MountUnchanged
  <1>3. CASE ReadInner(t)
    <2>1. op[t].rng \in Requests
      BY <1>0, <1>3 DEF CallShape, ReadInner, At, Idle
    <2>2. IsBlock([a \in op[t].rng |-> disk[a]])
      BY <2>1, ReadTyped DEF WordsInv
    <2>3. CallTyped([pc |-> "readFill", old |-> [a \in op[t].rng |-> disk[a]]])
      BY <2>2 DEF CallTyped
    <2> QED
      BY <1>0, <1>3, <2>3, QuietWords DEF ReadInner, LogUnchanged, MountUnchanged
  <1>4. CASE ReadFails(t)
    BY <1>0, <1>4, IdleTyped, QuietWords DEF ReadFails, Return, LogUnchanged, MountUnchanged
  <1>5. CASE ReadFill(t)
    <2>1. IsBlock(op[t].old)
      BY <1>0, <1>5 DEF CallTyped, ReadFill, At
    <2> QED
      BY <1>5, <2>1, IdleTyped, FillWords DEF ReadFill, Return, LogUnchanged, MountUnchanged
  <1> QED
    BY <1>1, <1>2, <1>3, <1>4, <1>5 DEF Read

\* A call that goes on with its buffers as they are.
LEMMA GotoTyped ==
    ASSUME NEW o, CallShape(o), CallTyped(o), NEW pc,
           o.pc \in {"preFill", "setOff", "setLen", "header", "data", "postFill"},
           pc \in {"setOff", "setLen", "header", "data", "sync", "remove"}
    PROVE  CallTyped([o EXCEPT !.pc = pc])
  <1>1. \/ o = [pc |-> o.pc, new |-> o.new, old |-> o.old]
        \/ o = [pc |-> o.pc, new |-> o.new, old |-> o.old, left |-> o.left]
    BY WriteFields
  <1>2. PICK v : v = [o EXCEPT !.pc = pc]
    OBVIOUS
  <1>3. v.old = o.old /\ v.new = o.new
    BY <1>1, <1>2
  <1>4. IsBlock(o.old) /\ IsBlock(o.new)
    BY DEF CallTyped
  <1> QED
    BY <1>2, <1>3, <1>4 DEF CallTyped

\* Truncating the log.
LEMMA CutTyped ==
    ASSUME NEW l \in Seq(Nat), NEW n \in Int, n <= Len(l)
    PROVE  SubSeq(l, 1, Max({n, 0})) \in Seq(Nat)
  <1>0. Len(l) \in Nat
    OBVIOUS
  <1>1. PICK m \in Nat : m = Max({n, 0}) /\ m <= Len(l)
    <2>1. Max({n, 0}) = IF n >= 0 THEN n ELSE 0
      BY MaxOfTwo
    <2> QED
      BY <1>0, <2>1
  <1>2. \A i \in 1 .. m : l[i] \in Nat
    <2>1. \A i \in 1 .. m : i \in 1 .. Len(l)
      BY <1>0, <1>1
    <2> QED
      BY <2>1, ElementOfSeq
  <1>3. SubSeq(l, 1, m) \in Seq(Nat)
    <2>1. 1 \in Int /\ m \in Int
      OBVIOUS
    <2> QED
      BY <1>2, <2>1, SubSeqProperties
  <1> QED
    BY <1>1, <1>3

\* The steps of WriteAt.
LEMMA WriteKeepsWords ==
    ASSUME ShapeOK, WordsInv, NEW t \in Threads, Write(t)
    PROVE  WordsInv'
  <1>0. CallShape(op[t]) /\ CallTyped(op[t]) /\ base \in Nat /\ pos \in Nat
    BY DEF ShapeOK, WordsInv, CallsTyped, MountTyped, LogTyped
  <1>1. ASSUME NEW R \in Requests, NEW d \in [R -> DataWords], WriteHit(t, R, d)
        PROVE  WordsInv'
    <2>1. IsBlock(d)
      BY WordsAssumption DEF IsBlock
    <2>2. IsBlock(lookupCache(cache, R))
      BY <1>1, HitTyped DEF WriteHit, WordsInv, ShapeOK
    <2>3. CallTyped([pc |-> "setOff", new |-> d, old |-> lookupCache(cache, R)])
      BY <2>1, <2>2 DEF CallTyped
    <2> QED
      BY <1>0, <1>1, <2>3, QuietWords DEF WriteHit, LogUnchanged
  <1>2. ASSUME NEW R \in Requests, NEW d \in [R -> DataWords], WriteMiss(t, R, d)
        PROVE  WordsInv'
    <2>1. IsBlock(d)
      BY WordsAssumption DEF IsBlock
    <2>2. CallTyped([pc |-> "preRead", new |-> d])
      BY <2>1 DEF CallTyped
    <2> QED
      BY <1>0, <1>2, <2>2, QuietWords DEF WriteMiss, LogUnchanged
  <1>3. CASE PreRead(t)
    <2>1. DOMAIN op[t].new \in Requests /\ IsBlock(op[t].new)
      BY <1>0, <1>3, WriteFields DEF PreRead, At, CallTyped
    <2>2. IsBlock([a \in DOMAIN op[t].new |-> disk[a]])
      BY <2>1, ReadTyped DEF WordsInv
    <2>3. CallTyped([pc |-> "preFill", new |-> op[t].new,
                     old |-> [a \in DOMAIN op[t].new |-> disk[a]]])
      BY <2>1, <2>2 DEF CallTyped
    <2> QED
      BY <1>0, <1>3, <2>3, QuietWords DEF PreRead, LogUnchanged, MountUnchanged
  <1>4. CASE PreReadFails(t) \/ AppendFails(t) \/ RemoveFails(t) \/ InnerWriteFails(t)
    BY <1>0, <1>4, IdleTyped, QuietWords
    DEF PreReadFails, AppendFails, RemoveFails, InnerWriteFails, Return, LogUnchanged,
        MountUnchanged
  <1>5. CASE PreFill(t)
    <2>1. CallTyped([op[t] EXCEPT !.pc = "setOff"]) /\ IsBlock(op[t].old)
      BY <1>0, <1>5, GotoTyped DEF PreFill, At, CallTyped
    <2> QED
      BY <1>5, <2>1, FillWords DEF PreFill, Goto, LogUnchanged, MountUnchanged
  <1>6. CASE PostFill(t)
    <2>1. CallTyped([op[t] EXCEPT !.pc = "remove"]) /\ IsBlock(op[t].new)
      BY <1>0, <1>6, GotoTyped DEF PostFill, At, CallTyped
    <2> QED
      BY <1>6, <2>1, FillWords DEF PostFill, Goto, LogUnchanged, MountUnchanged
  <1>7. CASE SetOff(t)
    <2>1. CallTyped([op[t] EXCEPT !.pc = "setLen"]) /\ IsBlock(op[t].old)
      BY <1>0, <1>7, GotoTyped DEF SetOff, At, CallTyped
    <2>2. Min(DOMAIN op[t].old) \in Nat
      BY <2>1, WordsOfBlock, RequestInterval
    <2>3. PICK x \in Nat : hdr' = [hdr EXCEPT ![1] = x, ![2] = 0]
      BY <1>7, <2>2 DEF SetOff
    <2>4. PICK n \in Nat : n = 3 /\ Len(hdr) = n /\ hdr \in Seq(Nat)
      BY DEF WordsInv, LogTyped, hdrSize
    <2>5. hdr' \in [1 .. n -> Nat]
      <3>1. hdr \in [1 .. n -> Nat]
        BY <2>4, LenProperties
      <3> QED
        BY <2>3, <3>1
    <2>6. hdr' \in Seq(Nat) /\ Len(hdr') = n
      BY <2>5
    <2>8. LogTyped'
      BY <1>7, <2>4, <2>6 DEF SetOff, WordsInv, LogTyped, hdrSize
    <2> QED
      BY <1>7, <2>1, <2>8, LogWords DEF SetOff, Goto, MountUnchanged
  <1>8. CASE SetLen(t)
    <2>1. CallTyped([op[t] EXCEPT !.pc = "header"]) /\ IsBlock(op[t].old)
      BY <1>0, <1>8, GotoTyped DEF SetLen, At, CallTyped
    <2>2. Cardinality(DOMAIN op[t].old) \in Nat
      BY <2>1, WordsOfBlock, RequestInterval
    <2>3. PICK x \in Nat : hdr' = [hdr EXCEPT ![3] = x]
      BY <1>8, <2>2 DEF SetLen
    <2>4. hdr' \in Seq(Nat) /\ Len(hdr') = 3
      <3>1. hdr \in Seq(Nat) /\ Len(hdr) = 3 /\ 3 \in 1 .. Len(hdr)
        BY DEF WordsInv, LogTyped, hdrSize
      <3> QED
        BY <2>3, <3>1
    <2>5. LogTyped'
      BY <1>8, <2>4 DEF SetLen, WordsInv, LogTyped, hdrSize
    <2> QED
      BY <1>8, <2>1, <2>5, LogWords DEF SetLen, Goto, MountUnchanged
  <1>9. CASE AppendHeader(t)
    <2>1. CallTyped([op[t] EXCEPT !.pc = "data"])
      BY <1>0, <1>9, GotoTyped DEF AppendHeader, At
    <2>2. log \in Seq(Nat) /\ pos \in Nat /\ hdr \in Seq(Nat)
      BY DEF WordsInv, LogTyped
    <2>3. log' \in Seq(Nat)
      BY <1>9, <2>2, WriteLogWords DEF AppendHeader
    <2>4. LogTyped'
      BY <1>9, <2>3 DEF AppendHeader, WordsInv, LogTyped, hdrSize
    <2> QED
      BY <1>9, <2>1, <2>4, LogWords DEF AppendHeader, Goto, MountUnchanged
  <1>10. CASE AppendData(t)
    <2>1. CallTyped([op[t] EXCEPT !.pc = "sync"]) /\ IsBlock(op[t].old)
      BY <1>0, <1>10, GotoTyped DEF AppendData, At, CallTyped
    <2>2. Words(op[t].old) \in Seq(Nat) /\ Cardinality(DOMAIN op[t].old) \in Nat
      BY <2>1, WordsOfBlock, RequestInterval
    <2>3. log \in Seq(Nat) /\ pos \in Nat
      BY DEF WordsInv, LogTyped
    <2>4. log' \in Seq(Nat)
      BY <1>10, <2>2, <2>3, WriteLogWords DEF AppendData
    <2>5. LogTyped'
      BY <1>10, <2>2, <2>4 DEF AppendData, WordsInv, LogTyped
    <2> QED
      BY <1>10, <2>1, <2>5, LogWords DEF AppendData, Goto, MountUnchanged
  <1>11. CASE Sync(t)
    <2>1. IsBlock(op[t].new) /\ IsBlock(op[t].old)
      BY <1>0, <1>11 DEF Sync, At, CallTyped
    <2>2. CallTyped([pc |-> "writing", new |-> op[t].new, old |-> op[t].old,
                     left |-> DOMAIN op[t].new])
      BY <2>1 DEF CallTyped
    <2> QED
      BY <1>0, <1>11, <2>2, QuietWords DEF Sync, LogUnchanged, MountUnchanged
  <1>12. CASE InnerWriteWord(t)
    <2>1. PICK a \in op[t].left :
             /\ disk' = [disk EXCEPT ![a] = op[t].new[a]]
             /\ seen' = [seen EXCEPT ![a] = @ \union {op[t].new[a]}]
             /\ op' = [op EXCEPT ![t] =
                         [pc |-> IF op[t].left = {a} THEN "postFill" ELSE "writing",
                          new |-> op[t].new, old |-> op[t].old, left |-> op[t].left \ {a}]]
      BY <1>12, WordShape
    <2>2. IsBlock(op[t].new) /\ IsBlock(op[t].old)
      BY <1>0, <1>12 DEF InnerWriteWord, At, CallTyped
    <2>3. a \in DOMAIN op[t].new /\ op[t].pc = "writing"
      BY <1>12, NextWord DEF InnerWriteWord, At
    <2>4. op[t].new[a] \in Nat
      BY <2>2, <2>3, WordsOfBlock
    <2>5. CallTyped([pc |-> IF op[t].left = {a} THEN "postFill" ELSE "writing",
                     new |-> op[t].new, old |-> op[t].old, left |-> op[t].left \ {a}])
      BY <2>2 DEF CallTyped
    <2>6. CallsTyped'
      BY <2>1, <2>5, CallsStep DEF WordsInv
    <2>7. DeviceTyped'
      BY <2>1, <2>4 DEF WordsInv, DeviceTyped, Disks
    <2> QED
      BY <1>12, <2>6, <2>7
      DEF InnerWriteWord, WordsInv, LogTyped, MountTyped, LogUnchanged, MountUnchanged
  <1>13. CASE RemoveLast(t)
    <2>1. IsBlock(op[t].old)
      BY <1>0, <1>13 DEF RemoveLast, At, CallTyped
    <2>2. Cardinality(DOMAIN op[t].old) \in Nat
      BY <2>1, WordsOfBlock, RequestInterval
    <2>3. PICK n \in Int : n <= Len(log) /\ log' = SubSeq(log, 1, Max({n, 0}))
      <3>1. Len(log) - (hdrSize + Cardinality(DOMAIN op[t].old)) \in Int
            /\ Len(log) - (hdrSize + Cardinality(DOMAIN op[t].old)) <= Len(log)
        BY <2>2 DEF WordsInv, LogTyped, hdrSize
      <3> QED
        BY <1>13, <3>1 DEF RemoveLast
    <2>4. LogTyped'
      BY <1>13, <2>3, CutTyped DEF RemoveLast, WordsInv, LogTyped
    <2> QED
      BY <1>13, <2>4, IdleTyped, LogWords DEF RemoveLast, Return, MountUnchanged
  <1> QED
    BY <1>1, <1>2, <1>3, <1>4, <1>5, <1>6, <1>7, <1>8, <1>9, <1>10, <1>11, <1>12, <1>13
    DEF Write

\* Mounting, recovery, Close and a crash.
LEMMA MountKeepsWords ==
    ASSUME ShapeOK, WordsInv, Mount \/ Close \/ Crash
    PROVE  WordsInv'
  <1>0. /\ disk \in Disks /\ goal \in Disks /\ pend \in Seq(LogEntries) /\ log \in Seq(Nat)
        /\ <<>> \in Seq(Nat) /\ <<>> \in Seq(LogEntries) /\ <<0, 0, 0>> \in Seq(Nat)
    BY DEF WordsInv, DeviceTyped, MountTyped, LogTyped
  <1>1. readPending(log) \in Seq(LogEntries)
    BY <1>0, PendingType
  <1>2. Recovered \in Disks
    BY <1>0, <1>1, UndoAllType DEF Recovered
  <1>3. ASSUME Fresh, UNCHANGED disk, log' \in {log, <<>>}, goal' \in Disks
        PROVE  WordsInv'
    <2>1. DeviceTyped'
      BY <1>0, <1>3 DEF Fresh, DeviceTyped, Disks
    <2>2. CallsTyped'
      BY <1>3, IdleTyped DEF Fresh, CallsTyped
    <2>3. LogTyped'
      BY <1>0, <1>3 DEF Fresh, LogTyped, hdrSize
    <2>4. MountTyped' /\ BlocksTyped(cache')
      BY <1>0, <1>3 DEF Fresh, MountTyped, BlocksTyped
    <2> QED
      BY <2>1, <2>2, <2>3, <2>4 DEF WordsInv
  <1>4. ASSUME UNCHANGED <<pos, hdr, cache, op, pre, base, seen>>, disk' \in Disks,
               goal' \in Disks, log' \in {log, <<>>}, pend' \in Seq(LogEntries)
        PROVE  WordsInv'
    BY <1>0, <1>4 DEF WordsInv, DeviceTyped, CallsTyped, LogTyped, MountTyped
  <1>5. CASE MountClean \/ RecoverDone \/ Close \/ Crash
    <2>1. goal' \in Disks
      BY <1>0, <1>2, <1>5 DEF MountClean, RecoverDone, Close, Crash
    <2> QED
      BY <1>3, <1>5, <2>1 DEF MountClean, RecoverDone, Close, Crash
  <1>6. CASE MountPending \/ RecoverRefused \/ RecoverFails
    BY <1>0, <1>1, <1>4, <1>6 DEF MountPending, RecoverRefused, RecoverFails
  <1>7. CASE RecoverEntry
    <2>1. Head(pend) \in LogEntries /\ Tail(pend) \in Seq(LogEntries)
      BY <1>0, <1>7, HeadTailProperties DEF RecoverEntry
    <2>2. Undo(disk, Head(pend)) \in Disks
      BY <1>0, <2>1, UndoType
    <2> QED
      BY <1>0, <1>4, <1>7, <2>1, <2>2 DEF RecoverEntry
  <1> QED
    BY <1>5, <1>6, <1>7 DEF Mount

\* The initial state.
LEMMA InitWords == Init => WordsInv
  <1> SUFFICES ASSUME Init PROVE WordsInv
    OBVIOUS
  <1>1. disk \in Disks
    BY DEF Init, Disks
  <1>2. LogTyped /\ MountTyped
    BY <1>1 DEF Init, LogTyped, MountTyped, hdrSize
  <1>3. DeviceTyped
    BY <1>1 DEF Init, DeviceTyped, Disks
  <1>4. CallsTyped /\ BlocksTyped(cache)
    BY IdleTyped DEF Init, CallsTyped, BlocksTyped
  <1> QED
    BY <1>2, <1>3, <1>4 DEF WordsInv

\* Every step keeps the types of the words.
LEMMA NextWords == ListInv /\ WordsInv /\ [Next]_vars => WordsInv'
  <1> SUFFICES ASSUME ListInv, WordsInv, [Next]_vars PROVE WordsInv'
    OBVIOUS
  <1>1. CASE Next
    BY <1>1, ReadKeepsWords, WriteKeepsWords, MountKeepsWords DEF Next, ListInv
  <1>2. CASE UNCHANGED vars
    BY <1>2 DEF vars, WordsInv, DeviceTyped, CallsTyped, LogTyped, MountTyped
  <1> QED
    BY <1>1, <1>2

\* It holds in every state.
THEOREM WordsCorrect == Spec => []WordsInv
  BY InitWords, NextWords, ListCorrect, PTL DEF Spec

\* With any number of threads, any interleaving and any failures, what the log, the
\* header buffer, the cache and every call's buffers hold are words of requests, and
\* what recovery reads from the log are entries.
THEOREM TypeCorrect == Spec => []TypeOK
  <1>1. ListInv /\ WordsInv => TypeOK
    BY DEF ListInv, WordsInv, TypeOK, LogTyped, DeviceTyped, MountTyped, BlocksTyped, Disks
  <1> QED
    BY <1>1, WordsCorrect, ListCorrect, PTL

-----------------------------------------------------------------------------
(* Recovery can be interrupted and repeated *)

\* p is what is left of the entries es after the first i, all accepted.
Rest(p, es, i) ==
    /\ Len(p) = Len(es) - i /\ \A k \in 1 .. Len(p) : p[k] = es[i + k]
    /\ \A m \in 1 .. i : InDevice(es[m])

\* While entries are written back, those still pending lead to the same device as
\* starting all over would.
RecoveryInv ==
    /\ mode # "up" => Recovered = goal
    /\ mode = "recovering" =>
        /\ UndoAll(disk, pend) = goal
        /\ \E i \in 0 .. Len(readPending(log)) : Rest(pend, readPending(log), i)

\* An empty file holds no entry.
LEMMA NoneInEmpty == readPending(<<>>) = <<>>
  <1>1. <<>> \in Seq(Nat) /\ Len(<<>>) = 0
    OBVIOUS
  <1>2. PICK F : Reads(F, <<>>, 0) /\ readPending(<<>>) = F[0]
    BY <1>1, PendingIsRead
  <1>3. ~Complete(<<>>, 0)
    BY <1>1 DEF Complete, hdrSize
  <1>4. 0 \in 0 .. Len(<<>>)
    BY <1>1
  <1> QED
    BY <1>2, <1>3, <1>4, Zenon DEF Reads

\* After the log is gone a restart changes nothing.
LEMMA NothingPending ==
    ASSUME disk \in Disks, log = <<>>
    PROVE  Recovered = disk
  BY NoneInEmpty, UndoNothing DEF Recovered

\* Writing back one entry more.
LEMMA RestStep ==
    ASSUME NEW es \in Seq(LogEntries), NEW p \in Seq(LogEntries), NEW i \in 0 .. Len(es),
           Rest(p, es, i), p # <<>>, InDevice(Head(p))
    PROVE  /\ i + 1 \in 1 .. Len(es) /\ Head(p) = es[i + 1] /\ Head(p) \in LogEntries
           /\ Tail(p) \in Seq(LogEntries) /\ Rest(Tail(p), es, i + 1)
  <1>1. Len(es) \in Nat /\ Len(p) \in Nat \ {0} /\ Head(p) = p[1]
    OBVIOUS
  <1>2. Len(p) = Len(es) - i /\ \A k \in 1 .. Len(p) : p[k] = es[i + k]
    BY DEF Rest
  <1>3. i + 1 \in 1 .. Len(es) /\ Head(p) = es[i + 1]
    BY <1>1, <1>2
  <1>4. /\ Head(p) \in LogEntries /\ Tail(p) \in Seq(LogEntries)
        /\ Len(Tail(p)) = Len(p) - 1
        /\ \A k \in 1 .. Len(Tail(p)) : Tail(p)[k] = p[k + 1]
    BY HeadTailProperties
  <1>5. ASSUME NEW k \in 1 .. Len(Tail(p))
        PROVE  Tail(p)[k] = es[(i + 1) + k]
    <2>1. k + 1 \in 1 .. Len(p) /\ i + (k + 1) = (i + 1) + k
      BY <1>1, <1>4
    <2>2. Tail(p)[k] = p[k + 1] /\ p[k + 1] = es[i + (k + 1)]
      BY <1>2, <1>4, <2>1
    <2> QED
      BY <2>1, <2>2
  <1>6. \A m \in 1 .. i + 1 : InDevice(es[m])
    <2>1. \A m \in 1 .. i : InDevice(es[m])
      BY DEF Rest
    <2>2. InDevice(es[i + 1])
      BY <1>3
    <2>3. \A m \in 1 .. i + 1 : m \in 1 .. i \/ m = i + 1
      OBVIOUS
    <2> QED
      BY <2>1, <2>2, <2>3
  <1>7. Len(Tail(p)) = Len(es) - (i + 1)
    BY <1>1, <1>2, <1>4
  <1> QED
    BY <1>3, <1>4, <1>5, <1>6, <1>7 DEF Rest

\* RecoverEntry: the entry written back changes only words that a restart would
\* write again.
LEMMA EntryKeepsGoal ==
    ASSUME WordsInv, RecoveryInv, RecoverEntry
    PROVE  RecoveryInv'
  <1>1. /\ mode = "recovering" /\ mode' = mode /\ log' = log /\ goal' = goal
        /\ disk' = Undo(disk, Head(pend)) /\ pend' = Tail(pend)
        /\ pend # <<>> /\ InDevice(Head(pend))
    BY DEF RecoverEntry
  <1>2. disk \in Disks /\ pend \in Seq(LogEntries) /\ log \in Seq(Nat)
    BY DEF WordsInv, DeviceTyped, MountTyped, LogTyped
  <1>3. PICK es \in Seq(LogEntries) : es = readPending(log)
    BY <1>2, PendingType
  <1>4. UndoAll(disk, es) = goal /\ UndoAll(disk, pend) = goal
    BY <1>1, <1>3 DEF RecoveryInv, Recovered
  <1>5. PICK i \in 0 .. Len(es) : Rest(pend, es, i)
    BY <1>1, <1>3 DEF RecoveryInv
  <1>6. /\ i + 1 \in 1 .. Len(es) /\ Head(pend) = es[i + 1] /\ Head(pend) \in LogEntries
        /\ Tail(pend) \in Seq(LogEntries) /\ Rest(Tail(pend), es, i + 1)
    BY <1>1, <1>2, <1>5, RestStep
  <1>7. disk' \in Disks
    BY <1>1, <1>2, <1>6, UndoType
  <1>8. UndoAll(disk', pend') = goal
    BY <1>1, <1>2, <1>4, UndoHead
  <1>9. UndoAll(disk', es) = goal
    <2>1. PICK j \in 1 .. Len(es) : j = i + 1
      BY <1>6
    <2>2. \A m \in 1 .. j : InDevice(es[m])
      BY <1>6, <2>1 DEF Rest
    <2>3. \A a \in Addr : disk'[a] = disk[a] \/ a \in Interval(es[j].lo, Len(es[j].data))
      BY <1>1, <1>6, <2>1 DEF Undo
    <2>4. UndoAll(disk', es) = UndoAll(disk, es)
      BY <1>2, <1>7, <2>2, <2>3, UndoAgain
    <2> QED
      BY <1>4, <2>4
  <1>10. readPending(log') = es /\ i + 1 \in 0 .. Len(es)
    BY <1>1, <1>3, <1>6
  <1>11. Recovered' = goal'
    BY <1>1, <1>9, <1>10 DEF Recovered
  <1> QED
    BY <1>1, <1>6, <1>8, <1>10, <1>11 DEF RecoveryInv

\* The other steps of a mount, Close and a crash.
LEMMA MountKeepsGoal ==
    ASSUME WordsInv, RecoveryInv, Mount \/ Close \/ Crash
    PROVE  RecoveryInv'
  <1>0. /\ disk \in Disks /\ pend \in Seq(LogEntries) /\ log \in Seq(Nat)
        /\ readPending(log) \in Seq(LogEntries)
    BY PendingType DEF WordsInv, DeviceTyped, MountTyped, LogTyped
  <1>1. CASE MountClean \/ RecoverDone
    BY <1>1 DEF MountClean, RecoverDone, RecoveryInv
  <1>2. CASE MountPending
    <2>1. Recovered' = goal' /\ UndoAll(disk', pend') = goal'
      BY <1>2 DEF MountPending, RecoveryInv, Recovered
    <2>2. 0 \in 0 .. Len(readPending(log)) /\ Rest(readPending(log), readPending(log), 0)
      <3>1. PICK es \in Seq(LogEntries) : es = readPending(log)
        BY <1>0
      <3>2. Len(es) \in Nat /\ Rest(es, es, 0)
        BY DEF Rest
      <3> QED
        BY <3>1, <3>2
    <2> QED
      BY <1>2, <2>1, <2>2 DEF MountPending, RecoveryInv
  <1>3. CASE RecoverRefused
    <2>1. UndoAll(disk, pend) = disk /\ UndoAll(disk, pend) = goal
      BY <1>0, <1>3, UndoRefused DEF RecoverRefused, RecoveryInv
    <2>2. Recovered' = disk'
      BY <1>0, <1>3, NoneInEmpty, UndoNothing DEF RecoverRefused, Recovered
    <2> QED
      BY <1>3, <2>1, <2>2 DEF RecoverRefused, RecoveryInv
  <1>4. CASE RecoverFails \/ Close
    <2>1. Recovered' = disk'
      BY <1>0, <1>4, NoneInEmpty, UndoNothing DEF RecoverFails, Close, Recovered
    <2> QED
      BY <1>4, <2>1 DEF RecoverFails, Close, RecoveryInv
  <1>5. CASE Crash
    <2>1. Recovered' = Recovered
      BY <1>5 DEF Crash, Recovered
    <2> QED
      BY <1>5, <2>1 DEF Crash, RecoveryInv
  <1> QED
    BY <1>1, <1>2, <1>3, <1>4, <1>5, EntryKeepsGoal DEF Mount

\* With any number of threads before the crash, any log they left, any number of
\* crashes during recovery and any failures: a restart always leads to the device the
\* first one would have produced.
THEOREM RecoveryIdempotentCorrect == Spec => []RecoveryIdempotent
  <1>1. Init => RecoveryInv
    <2> SUFFICES ASSUME Init PROVE RecoveryInv
      OBVIOUS
    <2>1. disk \in Disks
      BY DEF Init, Disks
    <2>2. Recovered = goal /\ mode = "down"
      BY <2>1, NothingPending DEF Init
    <2> QED
      BY <2>2 DEF RecoveryInv
  <1>2. WordsInv /\ RecoveryInv /\ [Next]_vars => RecoveryInv'
    <2> SUFFICES ASSUME WordsInv, RecoveryInv, [Next]_vars PROVE RecoveryInv'
      OBVIOUS
    <2>1. ASSUME NEW t \in Threads, Read(t) \/ Write(t)
          PROVE  RecoveryInv'
      <3>1. mode' = "up"
        BY <2>1
        DEF Read, Write, ReadHit, ReadMiss, ReadInner, ReadFails, ReadFill, WriteHit, WriteMiss,
            PreRead, PreReadFails, PreFill, SetOff, SetLen, AppendHeader, AppendData, Sync,
            AppendFails, InnerWriteWord, InnerWriteFails, PostFill, RemoveLast, RemoveFails,
            At, MountUnchanged, vars
      <3> QED
        BY <3>1 DEF RecoveryInv
    <2>2. CASE Mount \/ Close \/ Crash
      BY <2>2, MountKeepsGoal
    <2>3. CASE UNCHANGED vars
      BY <2>3 DEF vars, RecoveryInv, Recovered
    <2> QED
      BY <2>1, <2>2, <2>3 DEF Next
  <1>3. RecoveryInv => RecoveryIdempotent
    BY DEF RecoveryInv, RecoveryIdempotent
  <1> QED
    BY <1>1, <1>2, <1>3, WordsCorrect, PTL DEF Spec

-----------------------------------------------------------------------------
(* One thread: what the log holds at each step of WriteAt *)

\* The first n words of file l are zero.
Zeros(l, n) == \A i \in 1 .. n : l[i] = 0

\* A length or position that is 0 or leaves room for a header.
Far(n) == n = 0 \/ n >= hdrSize

\* A file without a complete entry is empty or a lone header: what MountClean
\* leaves in place.
Tidy(l) == Complete(l, 0) \/ Len(l) = 0 \/ Len(l) = hdrSize

\* Between two writes: only zeros, or the lone header of a write that a crash cut
\* off, which the next header will overwrite.
Blank(l, p) ==
    \/ Zeros(l, Len(l)) /\ Len(l) <= p /\ Far(Len(l))
    \/ p = 0 /\ Len(l) = hdrSize /\ ~Complete(l, 0)

\* At position b, after zeros, there is the header of an entry for request R ...
Headed(l, b, R) ==
    Zeros(l, b) /\ l[b + 1] = Min(R) /\ l[b + 2] = 0 /\ l[b + 3] = Cardinality(R)

\* ... and behind it the words of buffer o, which end the file.
Logged(l, b, o) ==
    /\ Headed(l, b, DOMAIN o) /\ Len(l) = b + hdrSize + Cardinality(DOMAIN o)
    /\ \A i \in 1 .. Cardinality(DOMAIN o) : l[b + hdrSize + i] = o[Min(DOMAIN o) + i - 1]

\* Device d with the words of o in their place.
Restored(d, o) == [a \in Addr |-> IF a \in DOMAIN o THEN o[a] ELSE d[a]]

\* An entry without data changes nothing.
LEMMA UndoEmpty ==
    ASSUME NEW d \in Disks, NEW e \in LogEntries, Len(e.data) = 0
    PROVE  Undo(d, e) = d
  <1>1. e.lo \in Nat
    BY DEF LogEntries
  <1>2. Interval(e.lo, Len(e.data)) = {}
    <2>1. \A a \in Addr : ~(e.lo <= a /\ a < e.lo + 0)
      BY <1>1, RequestAddresses
    <2> QED
      BY <2>1, Zenon DEF Interval
  <1> QED
    BY <1>2 DEF Undo, Disks

\* Three zeros read as an empty entry for address 0.
LEMMA ZeroEntry ==
    ASSUME NEW l \in Seq(Nat), NEW p \in Nat, p + 3 <= Len(l),
           l[p + 1] = 0, l[p + 2] = 0, l[p + 3] = 0
    PROVE  /\ Complete(l, p) /\ EndOf(l, p) = p + 3 /\ EntryAt(l, p) \in LogEntries
           /\ EntryAt(l, p).lo = 0 /\ EntryAt(l, p).hi = 0 /\ Len(EntryAt(l, p).data) = 0
  <1>1. Complete(l, p) /\ p \in 0 .. Len(l)
    BY DEF Complete, hdrSize
  <1>2. EndOf(l, p) = p + 3
    BY DEF EndOf, hdrSize
  <1>3. EntryAt(l, p).lo = 0 /\ EntryAt(l, p).hi = 0
    BY DEF EntryAt
  <1> QED
    BY <1>1, <1>2, <1>3, EntryType

\* Leading zeros, a whole number of headers long, do not matter.
LEMMA ZeroSkip ==
    ASSUME NEW l \in Seq(Nat), NEW F \in [0 .. Len(l) -> Seq(LogEntries)], Reads(F, l, 0),
           NEW d \in Disks, NEW q \in Nat, 3 * q <= Len(l), Zeros(l, 3 * q)
    PROVE  UndoAll(d, F[0]) = UndoAll(d, F[3 * q])
  <1>0. Len(l) \in Nat /\ 0 \in 0 .. Len(l) /\ 3 * q \in 0 .. Len(l)
    OBVIOUS
  <1>1. CASE Addr = {}
    <2>1. UndoAll(d, F[0]) \in Disks /\ UndoAll(d, F[3 * q]) \in Disks
      BY <1>0, UndoAllType
    <2> QED
      BY <1>1, <2>1 DEF Disks
  <1>2. CASE Addr # {}
    <2>1. 0 \in Addr
      BY <1>2, SizesAssumption DEF Addr
    <2>2. PICK S : S = {i \in 0 .. q : UndoAll(d, F[3 * i]) # UndoAll(d, F[0])}
      OBVIOUS
    <2>3. S = {}
      <3>1. SUFFICES ASSUME S # {} PROVE FALSE
        OBVIOUS
      <3>2. S \in SUBSET Nat
        BY <2>2
      <3>3. PICK i \in S : \A j \in S : i <= j
        BY <3>1, <3>2, SmallestExists
      <3>4. i \in 0 .. q /\ UndoAll(d, F[3 * i]) # UndoAll(d, F[0])
        BY <2>2, <3>3
      <3>5. i # 0
        BY <3>4
      <3>6. PICK j \in 0 .. q : i = j + 1
        BY <3>4, <3>5
      <3>7. UndoAll(d, F[3 * j]) = UndoAll(d, F[0])
        <4>1. j \notin S
          BY <3>3, <3>6
        <4> QED
          BY <2>2, <3>6, <4>1
      <3>8. PICK p \in Nat : p = 3 * j
        BY <3>6
      <3>9. p + 3 = 3 * i /\ p + 3 <= 3 * q /\ p + 3 <= Len(l)
        BY <1>0, <3>4, <3>6, <3>8
      <3>10. l[p + 1] = 0 /\ l[p + 2] = 0 /\ l[p + 3] = 0
        BY <3>9 DEF Zeros
      <3>11. PICK e : e = EntryAt(l, p)
        OBVIOUS
      <3>12. Complete(l, p) /\ EndOf(l, p) = p + 3 /\ e \in LogEntries
             /\ e.lo = 0 /\ e.hi = 0 /\ Len(e.data) = 0
        BY <3>9, <3>10, <3>11, ZeroEntry
      <3>13. p \in 0 .. Len(l) /\ p + 3 \in 0 .. Len(l)
        BY <1>0, <3>9
      <3>14. F[p] = <<e>> \o F[p + 3]
        BY <3>11, <3>12, <3>13, Zenon DEF Reads
      <3>15. F[p + 3] \in Seq(LogEntries) /\ F[p] \in Seq(LogEntries)
        BY <3>13
      <3>16. F[p] # <<>> /\ Head(F[p]) = e /\ Tail(F[p]) = F[p + 3]
        <4>1. PICK r \in Seq(LogEntries) : r = F[p + 3]
          BY <3>15
        <4>2. <<e>> \o r # <<>> /\ Head(<<e>> \o r) = e /\ Tail(<<e>> \o r) = r
          BY <3>12, AfterEntry
        <4> QED
          BY <3>14, <4>1, <4>2, Zenon
      <3>17. InDevice(e) /\ Undo(d, e) = d
        BY <2>1, <3>12, UndoEmpty DEF InDevice
      <3>18. UndoAll(d, F[p]) = UndoAll(d, F[p + 3])
        BY <3>15, <3>16, <3>17, UndoHead
      <3> QED
        BY <3>4, <3>7, <3>8, <3>9, <3>18
    <2>4. q \in 0 .. q
      OBVIOUS
    <2> QED
      BY <2>2, <2>3, <2>4
  <1> QED
    BY <1>1, <1>2

\* From an incomplete entry on nothing is read.
LEMMA IncompleteEnds ==
    ASSUME NEW l \in Seq(Nat), NEW F, Reads(F, l, 0), NEW p \in 0 .. Len(l), ~Complete(l, p)
    PROVE  F[p] = <<>>
  BY Zenon DEF Reads

\* A blank log undoes nothing.
LEMMA UndoBlank ==
    ASSUME NEW l \in Seq(Nat), NEW p \in Nat, Blank(l, p), NEW d \in Disks
    PROVE  UndoAll(d, readPending(l)) = d
  <1>0. Len(l) \in Nat /\ 0 \in 0 .. Len(l)
    OBVIOUS
  <1>1. PICK F \in [0 .. Len(l) -> Seq(LogEntries)] : Reads(F, l, 0) /\ readPending(l) = F[0]
    BY PendingIsRead
  <1>2. CASE ~Complete(l, 0)
    BY <1>0, <1>1, <1>2, IncompleteEnds, UndoNothing
  <1>3. CASE Zeros(l, Len(l))
    <2>1. PICK q \in Nat : 3 * q <= Len(l) /\ Len(l) < 3 * q + 3
      BY <1>0, Len(l) \div 3 \in Nat
    <2>2. Zeros(l, 3 * q) /\ 3 * q \in 0 .. Len(l)
      BY <1>0, <1>3, <2>1 DEF Zeros
    <2>3. ~Complete(l, 3 * q)
      BY <1>0, <2>1 DEF Complete, hdrSize
    <2>4. UndoAll(d, F[0]) = UndoAll(d, F[3 * q])
      BY <1>1, <2>1, <2>2, ZeroSkip
    <2>5. F[3 * q] = <<>>
      BY <1>1, <2>2, <2>3, IncompleteEnds
    <2> QED
      BY <1>1, <2>4, <2>5, UndoNothing
  <1> QED
    BY <1>2, <1>3 DEF Blank

\* A position that is a whole number of headers.
LEMMA WholeHeaders ==
    ASSUME NEW b \in Nat, b % 3 = 0
    PROVE  \E q \in Nat : b = 3 * q
  <1>1. PICK q \in Nat : q = b \div 3
    OBVIOUS
  <1>2. b = 3 * q + (b % 3)
    BY <1>1
  <1> QED
    BY <1>2

\* A header whose data is not there yet undoes nothing.
LEMMA UndoHeaded ==
    ASSUME NEW l \in Seq(Nat), NEW b \in Nat, b % 3 = 0, NEW R \in Requests, Headed(l, b, R),
           Len(l) = b + 3, NEW d \in Disks
    PROVE  UndoAll(d, readPending(l)) = d
  <1>1. PICK F \in [0 .. Len(l) -> Seq(LogEntries)] : Reads(F, l, 0) /\ readPending(l) = F[0]
    BY PendingIsRead
  <1>2. PICK q \in Nat : b = 3 * q
    BY WholeHeaders
  <1>3. PICK n \in Nat \ {0} : l[b + 3] = n
    BY RequestInterval DEF Headed
  <1>4. ~Complete(l, 3 * q)
    BY <1>2, <1>3 DEF Complete, hdrSize
  <1>5. 3 * q \in 0 .. Len(l) /\ 3 * q <= Len(l) /\ Zeros(l, 3 * q)
    BY <1>2 DEF Headed
  <1>6. UndoAll(d, F[0]) = UndoAll(d, F[3 * q])
    BY <1>1, <1>5, ZeroSkip
  <1>7. F[3 * q] = <<>>
    BY <1>1, <1>4, <1>5, IncompleteEnds
  <1> QED
    BY <1>1, <1>6, <1>7, UndoNothing

\* A complete entry, the last of the file, is undone.
LEMMA UndoLogged ==
    ASSUME NEW l \in Seq(Nat), NEW b \in Nat, b % 3 = 0, NEW o, IsBlock(o), Logged(l, b, o),
           NEW d \in Disks
    PROVE  UndoAll(d, readPending(l)) = Restored(d, o)
  <1>1. PICK F \in [0 .. Len(l) -> Seq(LogEntries)] : Reads(F, l, 0) /\ readPending(l) = F[0]
    BY PendingIsRead
  <1>2. PICK q \in Nat : b = 3 * q
    BY WholeHeaders
  <1>3. PICK R \in Requests : R = DOMAIN o /\ o \in [R -> Nat]
    BY WordsOfBlock
  <1>4. PICK m, n : m = Min(R) /\ n = Cardinality(R)
    OBVIOUS
  <1>5. /\ m \in R /\ n \in Nat \ {0} /\ R = Interval(m, n) /\ R \subseteq Nat /\ R \subseteq Addr
    BY <1>4, RequestInterval, RequestAddresses
  <1>6. /\ l[b + 1] = m /\ l[b + 2] = 0 /\ l[b + 3] = n /\ Zeros(l, b)
        /\ Len(l) = b + 3 + n /\ \A i \in 1 .. n : l[b + 3 + i] = o[m + i - 1]
    BY <1>3, <1>4 DEF Logged, Headed, hdrSize
  <1>7. Complete(l, b) /\ EndOf(l, b) = Len(l) /\ b \in 0 .. Len(l) /\ Len(l) \in 0 .. Len(l)
    BY <1>5, <1>6 DEF Complete, EndOf, hdrSize
  <1>8. PICK e : e = EntryAt(l, b)
    OBVIOUS
  <1>9. /\ e \in LogEntries /\ Len(e.data) = n
        /\ \A i \in 1 .. n : e.data[i] = l[b + 3 + i]
    BY <1>6, <1>7, <1>8, EntryType DEF hdrSize
  <1>10. e.lo = m /\ e.hi = 0
    BY <1>6, <1>8 DEF EntryAt
  <1>11. F[Len(l)] = <<>>
    <2>1. ~Complete(l, Len(l))
      BY <1>7 DEF Complete, hdrSize
    <2> QED
      BY <1>1, <1>7, <2>1, IncompleteEnds
  <1>12. F[b] = <<e>> \o F[Len(l)]
    BY <1>1, <1>7, <1>8, Zenon DEF Reads
  <1>13. F[b] \in Seq(LogEntries) /\ F[b] # <<>> /\ Head(F[b]) = e /\ Tail(F[b]) = <<>>
    BY <1>7, <1>9, <1>11, <1>12, AfterEntry
  <1>14. InDevice(e)
    BY <1>5, <1>10 DEF InDevice
  <1>15. Undo(d, e) \in Disks
    BY <1>9, UndoType
  <1>16. UndoAll(d, F[b]) = Undo(d, e)
    BY <1>13, <1>14, <1>15, UndoHead, UndoNothing
  <1>17. UndoAll(d, F[0]) = UndoAll(d, F[b])
    <2>1. 3 * q <= Len(l) /\ Zeros(l, 3 * q)
      BY <1>2, <1>6, <1>7
    <2> QED
      BY <1>1, <1>2, <2>1, ZeroSkip
  <1>18. Undo(d, e) = Restored(d, o)
    <2>1. ASSUME NEW a \in R
          PROVE  e.data[a - m + 1] = o[a]
      <3>1. PICK i \in 1 .. n : i = a - m + 1
        BY <1>5 DEF Interval
      <3>2. m + i - 1 = a
        BY <1>5, <3>1
      <3>3. e.data[i] = o[m + i - 1]
        BY <1>6, <1>9
      <3> QED
        BY <3>1, <3>2, <3>3
    <2>2. Undo(d, e) = [a \in Addr |-> IF a \in R THEN e.data[a - m + 1] ELSE d[a]]
      BY <1>5, <1>9, <1>10 DEF Undo
    <2> QED
      BY <1>3, <2>1, <2>2 DEF Restored
  <1> QED
    BY <1>1, <1>16, <1>17, <1>18

\* The header buffer as appendEntry fills it.
IsHeader(h, R) == Len(h) = 3 /\ h[1] = Min(R) /\ h[2] = 0 /\ h[3] = Cardinality(R)

\* The header is written behind zeros.
LEMMA HeaderWritten ==
    ASSUME NEW l \in Seq(Nat), NEW p \in Nat, Blank(l, p), Far(p), NEW h \in Seq(Nat),
           NEW R \in Requests, IsHeader(h, R)
    PROVE  /\ Headed(WriteLog(l, p, h), p, R) /\ Len(WriteLog(l, p, h)) = p + 3
           /\ Tidy(WriteLog(l, p, h))
  <1>1. PICK w : w = WriteLog(l, p, h)
    OBVIOUS
  <1>2. Len(l) \in Nat /\ (Len(l) <= p \/ (p = 0 /\ Len(l) = 3))
    BY DEF Blank, hdrSize
  <1>3. \A i \in 1 .. Len(w) : w[i] = IF i \in p + 1 .. p + 3 THEN h[i - p]
                                     ELSE IF i <= Len(l) THEN l[i] ELSE 0
    <2>1. \A i \in 1 .. Len(w) : w[i] = IF i \in p + 1 .. p + Len(h) THEN h[i - p]
                                       ELSE IF i <= Len(l) THEN l[i] ELSE 0
      BY <1>1, WriteLogWords
    <2>2. Len(h) = 3
      BY DEF IsHeader
    <2> QED
      BY <2>1, <2>2
  <1>4. Len(w) = p + 3
    <2>2. Len(h) = 3
      BY DEF IsHeader
    <2>1. Len(w) = IF Len(l) >= p + Len(h) THEN Len(l) ELSE p + Len(h)
      BY <1>1, WriteLogWords
    <2>3. Len(w) = IF Len(l) >= p + 3 THEN Len(l) ELSE p + 3
      BY <2>1, <2>2
    <2>4. PICK k \in Nat : k = Len(l)
      OBVIOUS
    <2>5. k <= p \/ k = p + 3
      <3>1. CASE Len(l) <= p
        BY <2>4, <3>1
      <3>2. CASE p = 0 /\ Len(l) = 3
        BY <2>4, <3>2
      <3> QED
        BY <1>2, <3>1, <3>2
    <2>6. ~(k >= p + 3) \/ k = p + 3
      BY <2>5
    <2> QED
      BY <2>3, <2>4, <2>6, Zenon
  <1>5. ASSUME NEW i \in 1 .. p
        PROVE  w[i] = 0
    <2>1. i \in 1 .. Len(w) /\ i \notin p + 1 .. p + 3
      BY <1>4
    <2>2. w[i] = IF i <= Len(l) THEN l[i] ELSE 0
      BY <1>3, <2>1
    <2>3. i <= Len(l) => l[i] = 0
      <3>1. Zeros(l, Len(l))
        BY <1>5 DEF Blank
      <3> QED
        BY <1>2, <3>1 DEF Zeros
    <2> QED
      BY <2>2, <2>3
  <1>6. w[p + 1] = h[1] /\ w[p + 2] = h[2] /\ w[p + 3] = h[3]
    <2>1. ASSUME NEW k \in 1 .. 3
          PROVE  w[p + k] = h[k]
      <3>1. p + k \in 1 .. Len(w) /\ p + k \in p + 1 .. p + 3 /\ (p + k) - p = k
        BY <1>4
      <3> QED
        BY <1>3, <3>1
    <2> QED
      BY <2>1
  <1>7. Headed(w, p, R)
    BY <1>5, <1>6 DEF Headed, Zeros, IsHeader
  <1>8. Tidy(w)
    <2>1. CASE p = 0
      BY <1>4, <2>1 DEF Tidy, hdrSize
    <2>2. CASE p >= 3
      <3>1. w[3] = 0
        BY <1>5, <2>2
      <3> QED
        BY <1>4, <2>2, <3>1 DEF Tidy, Complete, hdrSize
    <2> QED
      BY <2>1, <2>2 DEF Far, hdrSize
  <1> QED
    BY <1>1, <1>4, <1>7, <1>8

\* Then the old words behind the header.
LEMMA DataWritten ==
    ASSUME NEW l \in Seq(Nat), NEW b \in Nat, Far(b), NEW o, IsBlock(o),
           Headed(l, b, DOMAIN o), Len(l) = b + 3
    PROVE  /\ Logged(WriteLog(l, b + 3, Words(o)), b, o)
           /\ Tidy(WriteLog(l, b + 3, Words(o)))
  <1>1. PICK ws \in Seq(Nat) : ws = Words(o)
    BY WordsOfBlock
  <1>2. PICK m, n : m = Min(DOMAIN o) /\ n = Cardinality(DOMAIN o)
    OBVIOUS
  <1>3. n \in Nat \ {0}
    BY <1>2, WordsOfBlock, RequestInterval
  <1>4. Len(ws) = n /\ \A i \in 1 .. n : ws[i] = o[m + i - 1]
    BY <1>1, <1>2, WordsOfBlock
  <1>5. PICK p \in Nat : p = b + 3
    OBVIOUS
  <1>6. PICK w : w = WriteLog(l, p, ws)
    OBVIOUS
  <1>7. \A i \in 1 .. Len(w) : w[i] = IF i \in p + 1 .. p + n THEN ws[i - p]
                                     ELSE IF i <= Len(l) THEN l[i] ELSE 0
    <2>1. \A i \in 1 .. Len(w) : w[i] = IF i \in p + 1 .. p + Len(ws) THEN ws[i - p]
                                       ELSE IF i <= Len(l) THEN l[i] ELSE 0
      BY <1>6, WriteLogWords
    <2> QED
      BY <1>4, <2>1
  <1>8. Len(w) = p + n
    <2>1. Len(w) = IF Len(l) >= p + Len(ws) THEN Len(l) ELSE p + Len(ws)
      BY <1>6, WriteLogWords
    <2> QED
      BY <1>3, <1>4, <1>5, <2>1
  <1>9. \A i \in 1 .. p : w[i] = l[i]
    <2>1. ASSUME NEW i \in 1 .. p
          PROVE  w[i] = l[i]
      <3>1. i \in 1 .. Len(w) /\ i \notin p + 1 .. p + n /\ i <= Len(l)
        BY <1>3, <1>5, <1>8
      <3> QED
        BY <1>7, <3>1
    <2> QED
      BY <2>1
  <1>10. ASSUME NEW i \in 1 .. n
         PROVE  w[p + i] = o[m + i - 1]
    <2>1. p + i \in 1 .. Len(w) /\ p + i \in p + 1 .. p + n /\ (p + i) - p = i
      BY <1>3, <1>8
    <2> QED
      BY <1>4, <1>7, <2>1
  <1>11. Headed(w, b, DOMAIN o)
    <2>1. \A i \in 1 .. b : w[i] = l[i]
      BY <1>5, <1>9
    <2>2. w[b + 1] = l[b + 1] /\ w[b + 2] = l[b + 2] /\ w[b + 3] = l[b + 3]
      BY <1>5, <1>9
    <2> QED
      BY <2>1, <2>2 DEF Headed, Zeros
  <1>12. Logged(w, b, o)
    BY <1>2, <1>5, <1>8, <1>10, <1>11 DEF Logged, hdrSize
  <1>13. Tidy(w)
    <2>1. CASE b = 0
      <3>1. w[3] = n
        BY <1>2, <1>11, <2>1 DEF Headed
      <3> QED
        BY <1>3, <1>5, <1>8, <2>1, <3>1 DEF Tidy, Complete, hdrSize
    <2>2. CASE b >= 3
      <3>1. w[3] = 0
        BY <1>11, <2>2 DEF Headed, Zeros
      <3> QED
        BY <1>3, <1>5, <1>8, <2>2, <3>1 DEF Tidy, Complete, hdrSize
    <2> QED
      BY <2>1, <2>2 DEF Far, hdrSize
  <1> QED
    BY <1>1, <1>5, <1>6, <1>12, <1>13

\* Truncating leaves the zeros before the entry.
LEMMA EntryRemoved ==
    ASSUME NEW l \in Seq(Nat), NEW b \in Nat, Far(b), NEW o, IsBlock(o), Logged(l, b, o),
           NEW w, w = SubSeq(l, 1, Max({Len(l) - (hdrSize + Cardinality(DOMAIN o)), 0}))
    PROVE  Blank(w, Len(l)) /\ Tidy(w)
  <1>1. PICK n \in Nat : n = Cardinality(DOMAIN o)
    BY WordsOfBlock, RequestInterval
  <1>2. Len(l) = b + 3 + n /\ Zeros(l, b)
    BY <1>1 DEF Logged, Headed, hdrSize
  <1>3. PICK x \in Int : x = Len(l) - (hdrSize + n) /\ x = b
    BY <1>2 DEF hdrSize
  <1>4. Max({x, 0}) = b
    <2>1. Max({x, 0}) = IF x >= 0 THEN x ELSE 0
      BY MaxOfTwo
    <2> QED
      BY <1>3, <2>1
  <1>5. w = SubSeq(l, 1, b)
    BY <1>1, <1>3, <1>4
  <1>6. \A i \in 1 .. b : l[i] = 0 /\ l[i] \in Nat
    BY <1>2 DEF Zeros
  <1>7. w \in Seq(Nat) /\ Len(w) = b /\ \A i \in 1 .. b : w[i] = 0
    <2>1. 1 \in Int /\ b \in Int
      OBVIOUS
    <2>5. /\ SubSeq(l, 1, b) \in Seq(Nat)
          /\ Len(SubSeq(l, 1, b)) = IF 1 <= b THEN b - 1 + 1 ELSE 0
          /\ \A i \in 1 .. b - 1 + 1 : SubSeq(l, 1, b)[i] = l[1 + i - 1]
      BY <1>6, <2>1, SubSeqProperties
    <2>2. /\ w \in Seq(Nat) /\ Len(w) = IF 1 <= b THEN b - 1 + 1 ELSE 0
          /\ \A i \in 1 .. b - 1 + 1 : w[i] = l[1 + i - 1]
      BY <1>5, <2>5
    <2>3. Len(w) = b
      BY <2>2
    <2>4. ASSUME NEW i \in 1 .. b
          PROVE  w[i] = 0
      <3>1. i \in 1 .. b - 1 + 1 /\ 1 + i - 1 = i
        OBVIOUS
      <3>2. w[i] = l[i]
        BY <2>2, <3>1
      <3> QED
        BY <1>6, <3>2
    <2> QED
      BY <2>2, <2>3, <2>4
  <1>8. Blank(w, Len(l))
    BY <1>2, <1>7 DEF Blank, Zeros
  <1>9. Tidy(w)
    <2>1. CASE b = 0
      BY <1>7, <2>1 DEF Tidy
    <2>2. CASE b >= 3
      <3>1. 3 \in 1 .. b
        BY <2>2
      <3>2. w[3] = 0
        BY <1>7, <3>1
      <3> QED
        BY <1>7, <2>2, <3>2 DEF Tidy, Complete, hdrSize
    <2> QED
      BY <2>1, <2>2 DEF Far, hdrSize
  <1> QED
    BY <1>8, <1>9

\* What MountClean finds is blank.
LEMMA CleanIsBlank ==
    ASSUME NEW l \in Seq(Nat), Tidy(l), readPending(l) = <<>>
    PROVE  Blank(l, 0)
  <1>1. PICK F \in [0 .. Len(l) -> Seq(LogEntries)] : Reads(F, l, 0) /\ readPending(l) = F[0]
    BY PendingIsRead
  <1>2. 0 \in 0 .. Len(l)
    OBVIOUS
  <1>3. ~Complete(l, 0)
    <2>1. SUFFICES ASSUME Complete(l, 0) PROVE FALSE
      OBVIOUS
    <2>5. EntryAt(l, 0) \in LogEntries /\ EndOf(l, 0) \in 0 + 1 .. Len(l)
      BY <1>2, <2>1, EntryType
    <2>2. EntryAt(l, 0) \in LogEntries /\ EndOf(l, 0) \in 0 .. Len(l)
      BY <2>5
    <2>3. F[0] = <<EntryAt(l, 0)>> \o F[EndOf(l, 0)]
      BY <1>1, <1>2, <2>1, Zenon DEF Reads
    <2>4. F[EndOf(l, 0)] \in Seq(LogEntries)
      BY <2>2
    <2>6. PICK e \in LogEntries, r \in Seq(LogEntries) : F[0] = <<e>> \o r
      BY <2>2, <2>3, <2>4
    <2>7. <<e>> \o r # <<>>
      BY AfterEntry
    <2> QED
      BY <1>1, <2>6, <2>7
  <1>4. CASE Len(l) = 0
    BY <1>4 DEF Blank, Zeros, Far
  <1>5. CASE Len(l) = hdrSize
    BY <1>3, <1>5 DEF Blank
  <1> QED
    BY <1>3, <1>4, <1>5 DEF Tidy

\* The steps before a write's entry is begun, and those after it is complete.
Early == {"idle", "readInner", "readFill", "preRead", "preFill", "setOff", "setLen", "header"}
Late == {"sync", "writing", "postFill", "remove"}

\* Of call o with device d, the device p before it, its entry's position b, log l
\* with descriptor position q, and header buffer h: until the header is written the
\* log is blank and the device as it was; the old words are those of the device; from
\* the sync on they are in the log, and with them in their place the device is as it
\* was.
Entry(o, d, p, b, l, q, h) ==
    /\ Far(q) /\ Far(b)
    /\ o.pc \in Early => p = d /\ Blank(l, q)
    /\ o.pc \in {"preRead", "preFill", "setOff", "setLen", "header"} => b = q
    /\ o.pc \in {"preFill", "setOff", "setLen", "header", "data"} => Agrees(o.old, d, {})
    /\ o.pc \in {"setLen", "header"} => h[1] = Min(DOMAIN o.old) /\ h[2] = 0
    /\ o.pc = "header" => h[3] = Cardinality(DOMAIN o.old)
    /\ o.pc = "data" => /\ p = d /\ Headed(l, b, DOMAIN o.old)
                        /\ Len(l) = b + hdrSize /\ q = Len(l)
    /\ o.pc \in Late => Logged(l, b, o.old) /\ q = Len(l) /\ p = Restored(d, o.old)

UndoInv ==
    /\ Tidy(log)
    /\ mode = "up" => \A t \in Threads : Entry(op[t], disk, pre, base, log, pos, hdr)

EntryNow(t) == Entry(op[t], disk, pre, base, log, pos, hdr)

\* Old words that the device holds change nothing.
LEMMA RestoreNothing ==
    ASSUME NEW d \in Disks, NEW o, Agrees(o, d, {})
    PROVE  Restored(d, o) = d
  BY DEF Restored, Agrees, Disks

\* The steps of ReadAt, which leave device and log alone.
LEMMA ReadKeepsEntry ==
    ASSUME ShapeOK, NEW t \in Threads, EntryNow(t), Read(t)
    PROVE  EntryNow(t)'
  <1>0. op = [s \in Threads |-> op[s]]
    BY DEF ShapeOK
  <1>1. ASSUME NEW R \in Requests, ReadHit(t, R)
        PROVE  EntryNow(t)'
    BY <1>1 DEF ReadHit, vars, EntryNow
  <1>2. CASE (\E R \in Requests : ReadMiss(t, R)) \/ ReadInner(t) \/ ReadFails(t) \/ ReadFill(t)
    <2>1. op'[t].pc \in {"idle", "readInner", "readFill"}
      <3>1. ASSUME NEW R \in Requests, ReadMiss(t, R)
            PROVE  op'[t].pc = "readInner"
        BY <1>0, <3>1 DEF ReadMiss
      <3>2. ReadInner(t) => op'[t].pc = "readFill"
        BY <1>0 DEF ReadInner
      <3>3. ReadFails(t) \/ ReadFill(t) => op'[t].pc = "idle"
        BY <1>0 DEF ReadFails, ReadFill, Return, Idle
      <3> QED
        BY <1>2, <3>1, <3>2, <3>3
    <2>3. /\ op[t].pc \in {"idle", "readInner", "readFill"}
          /\ UNCHANGED <<disk, pre, base, log, pos, hdr>>
      BY <1>2
      DEF ReadMiss, ReadInner, ReadFails, ReadFill, At, LogUnchanged, MountUnchanged
    <2>4. pre = disk /\ Blank(log, pos) /\ Far(pos) /\ Far(base)
      BY <2>3 DEF EntryNow, Entry, Early
    <2> QED
      BY <2>1, <2>3, <2>4 DEF EntryNow, Entry, Early, Late
  <1> QED
    BY <1>1, <1>2 DEF Read

\* What a step of WriteAt replaces the call by.
LEMMA GotoFields ==
    ASSUME NEW o, CallShape(o), NEW pc, NEW v, v = [o EXCEPT !.pc = pc],
           o.pc \in {"preFill", "setOff", "setLen", "header", "data", "postFill"}
    PROVE  v.pc = pc /\ v.old = o.old /\ v.new = o.new
  <1>1. \/ o = [pc |-> o.pc, new |-> o.new, old |-> o.old]
        \/ o = [pc |-> o.pc, new |-> o.new, old |-> o.old, left |-> o.left]
    BY WriteFields
  <1> QED
    BY <1>1

\* The steps of WriteAt up to the header buffer.
LEMMA BeginKeepsEntry ==
    ASSUME ShapeOK, WordsInv, CacheServesDevice, NEW t, Threads = {t}, EntryNow(t),
           NEW R \in Requests, NEW d \in [R -> DataWords], WriteHit(t, R, d) \/ WriteMiss(t, R, d)
    PROVE  EntryNow(t)'
  <1>0. op = [s \in Threads |-> op[s]] /\ t \in Threads
    BY DEF ShapeOK
  <1>1. /\ op[t].pc = "idle" /\ mode = "up" /\ UNCHANGED <<disk, log, pos, hdr>>
        /\ pre' = disk /\ base' = pos
    BY DEF WriteHit, WriteMiss, At, LogUnchanged
  <1>2. Blank(log, pos) /\ Far(pos)
    BY <1>1 DEF EntryNow, Entry, Early
  <1>3. CASE WriteHit(t, R, d)
    <2>1. op'[t] = [pc |-> "setOff", new |-> d, old |-> lookupCache(cache, R)]
      BY <1>0, <1>3 DEF WriteHit
    <2>2. lookupCache(cache, R) = [a \in R |-> disk[a]]
      BY <1>1, <1>3 DEF CacheServesDevice, WriteHit
    <2>3. op'[t].pc = "setOff" /\ Agrees(op'[t].old, disk, {})
      BY <2>1, <2>2 DEF Agrees
    <2> QED
      BY <1>1, <1>2, <2>3 DEF EntryNow, Entry, Early, Late
  <1>4. CASE WriteMiss(t, R, d)
    <2>1. op'[t].pc = "preRead"
      BY <1>0, <1>4 DEF WriteMiss
    <2> QED
      BY <1>1, <1>2, <2>1 DEF EntryNow, Entry, Early, Late
  <1> QED
    BY <1>3, <1>4

\* The steps from the pre-read to the filled header buffer.
LEMMA PrepareKeepsEntry ==
    ASSUME ShapeOK, WordsInv, NEW t \in Threads, EntryNow(t),
           PreRead(t) \/ PreReadFails(t) \/ PreFill(t) \/ SetOff(t) \/ SetLen(t)
    PROVE  EntryNow(t)'
  <1>0. op = [s \in Threads |-> op[s]] /\ CallShape(op[t])
    BY DEF ShapeOK
  <1>1. UNCHANGED <<disk, pre, base, log, pos>>
    BY DEF PreRead, PreReadFails, PreFill, SetOff, SetLen, LogUnchanged, MountUnchanged
  <1>2. op[t].pc \in {"preRead", "preFill", "setOff", "setLen"}
    BY DEF PreRead, PreReadFails, PreFill, SetOff, SetLen, At
  <1>3. pre = disk /\ Blank(log, pos) /\ Far(pos) /\ Far(base) /\ base = pos
    BY <1>2 DEF EntryNow, Entry, Early
  <1>4. CASE PreRead(t)
    <2>1. op'[t] = [pc |-> "preFill", new |-> op[t].new,
                    old |-> [a \in DOMAIN op[t].new |-> disk[a]]]
      BY <1>0, <1>4 DEF PreRead
    <2>2. op'[t].pc = "preFill" /\ Agrees(op'[t].old, disk, {})
      BY <2>1 DEF Agrees
    <2> QED
      BY <1>1, <1>3, <2>2 DEF EntryNow, Entry, Early, Late
  <1>5. CASE PreReadFails(t)
    <2>1. op'[t].pc = "idle"
      BY <1>0, <1>5 DEF PreReadFails, Return, Idle
    <2> QED
      BY <1>1, <1>3, <2>1 DEF EntryNow, Entry, Early, Late
  <1>6. CASE PreFill(t)
    <2>1. op[t].pc = "preFill" /\ op'[t] = [op[t] EXCEPT !.pc = "setOff"]
      BY <1>0, <1>6 DEF PreFill, At, Goto
    <2>2. op'[t].pc = "setOff" /\ op'[t].old = op[t].old
      BY <1>0, <2>1, GotoFields
    <2>3. Agrees(op[t].old, disk, {})
      BY <2>1 DEF EntryNow, Entry
    <2> QED
      BY <1>1, <1>3, <2>2, <2>3 DEF EntryNow, Entry, Early, Late
  <1>7. CASE SetOff(t)
    <2>1. op[t].pc = "setOff" /\ op'[t] = [op[t] EXCEPT !.pc = "setLen"]
      BY <1>0, <1>7 DEF SetOff, At, Goto
    <2>2. op'[t].pc = "setLen" /\ op'[t].old = op[t].old
      BY <1>0, <2>1, GotoFields
    <2>3. Agrees(op[t].old, disk, {})
      BY <2>1 DEF EntryNow, Entry
    <2>4. hdr'[1] = Min(DOMAIN op[t].old) /\ hdr'[2] = 0
      <3>1. PICK n \in Nat : n = 3 /\ Len(hdr) = n /\ hdr \in Seq(Nat)
        BY DEF WordsInv, LogTyped, hdrSize
      <3>2. hdr \in [1 .. n -> Nat]
        BY <3>1, LenProperties
      <3>3. 1 \in 1 .. n /\ 2 \in 1 .. n
        BY <3>1
      <3> QED
        BY <1>7, <3>2, <3>3 DEF SetOff
    <2> QED
      BY <1>1, <1>3, <2>2, <2>3, <2>4 DEF EntryNow, Entry, Early, Late
  <1>8. CASE SetLen(t)
    <2>1. op[t].pc = "setLen" /\ op'[t] = [op[t] EXCEPT !.pc = "header"]
      BY <1>0, <1>8 DEF SetLen, At, Goto
    <2>2. op'[t].pc = "header" /\ op'[t].old = op[t].old
      BY <1>0, <2>1, GotoFields
    <2>3. Agrees(op[t].old, disk, {}) /\ hdr[1] = Min(DOMAIN op[t].old) /\ hdr[2] = 0
      BY <2>1 DEF EntryNow, Entry
    <2>4. hdr'[1] = hdr[1] /\ hdr'[2] = hdr[2] /\ hdr'[3] = Cardinality(DOMAIN op[t].old)
      <3>1. PICK n \in Nat : n = 3 /\ Len(hdr) = n /\ hdr \in Seq(Nat)
        BY DEF WordsInv, LogTyped, hdrSize
      <3>2. hdr \in [1 .. n -> Nat]
        BY <3>1, LenProperties
      <3>3. 1 \in 1 .. n /\ 2 \in 1 .. n /\ 3 \in 1 .. n
        BY <3>1
      <3> QED
        BY <1>8, <3>2, <3>3 DEF SetLen
    <2> QED
      BY <1>1, <1>3, <2>2, <2>3, <2>4 DEF EntryNow, Entry, Early, Late
  <1> QED
    BY <1>4, <1>5, <1>6, <1>7, <1>8

\* AppendHeader and AppendData put the entry behind zeros.
LEMMA AppendKeepsEntry ==
    ASSUME ShapeOK, WordsInv, Tidy(log), NEW t \in Threads, EntryNow(t),
           AppendHeader(t) \/ AppendData(t)
    PROVE  EntryNow(t)' /\ Tidy(log')
  <1>0. op = [s \in Threads |-> op[s]] /\ CallShape(op[t])
    BY DEF ShapeOK
  <1>1. /\ log \in Seq(Nat) /\ pos \in Nat /\ base \in Nat /\ hdr \in Seq(Nat) /\ Len(hdr) = hdrSize
        /\ disk \in Disks
    BY DEF WordsInv, LogTyped, DeviceTyped, MountTyped
  <1>2. UNCHANGED <<disk, pre, base, hdr>> /\ Far(base) /\ Far(pos)
    BY DEF AppendHeader, AppendData, MountUnchanged, EntryNow, Entry
  <1>3. CASE AppendHeader(t)
    <2>1. /\ op[t].pc = "header" /\ op'[t] = [op[t] EXCEPT !.pc = "data"]
          /\ log' = WriteLog(log, pos, hdr) /\ pos' = pos + 3
      BY <1>0, <1>3 DEF AppendHeader, At, Goto, hdrSize
    <2>2. op'[t].pc = "data" /\ op'[t].old = op[t].old
      BY <1>0, <2>1, GotoFields
    <2>3. PICK R \in Requests : R = DOMAIN op[t].old
      BY <1>0, <2>1, WriteFields
    <2>4. /\ Agrees(op[t].old, disk, {}) /\ base = pos /\ pre = disk /\ Blank(log, pos)
      BY <2>1 DEF EntryNow, Entry, Early
    <2>5. IsHeader(hdr, R)
      BY <1>1, <2>1, <2>3 DEF EntryNow, Entry, IsHeader, hdrSize
    <2>6. Headed(log', pos, R) /\ Len(log') = pos + 3 /\ Tidy(log')
      BY <1>1, <1>2, <2>1, <2>4, <2>5, HeaderWritten
    <2>7. Far(pos + 3)
      BY <1>1 DEF Far, hdrSize
    <2>8. Far(pos') /\ Far(base') /\ Agrees(op'[t].old, disk', {}) /\ pre' = disk'
          /\ Headed(log', base', DOMAIN op'[t].old)
          /\ Len(log') = base' + hdrSize /\ pos' = Len(log')
      BY <1>2, <2>1, <2>2, <2>3, <2>4, <2>6, <2>7 DEF hdrSize
    <2> QED
      BY <2>2, <2>6, <2>8 DEF EntryNow, Entry, Early, Late
  <1>4. CASE AppendData(t)
    <2>1. /\ op[t].pc = "data" /\ op'[t] = [op[t] EXCEPT !.pc = "sync"]
          /\ log' = WriteLog(log, pos, Words(op[t].old))
          /\ pos' = pos + Cardinality(DOMAIN op[t].old)
      BY <1>0, <1>4 DEF AppendData, At, Goto
    <2>2. op'[t].pc = "sync" /\ op'[t].old = op[t].old
      BY <1>0, <2>1, GotoFields
    <2>3. PICK o : o = op[t].old /\ IsBlock(o)
      BY <2>1 DEF WordsInv, CallsTyped, CallTyped
    <2>4. /\ Agrees(o, disk, {}) /\ pre = disk /\ Headed(log, base, DOMAIN o)
          /\ Len(log) = base + 3 /\ pos = base + 3
      BY <2>1, <2>3 DEF EntryNow, Entry, hdrSize
    <2>5. log' = WriteLog(log, base + 3, Words(o))
      BY <2>1, <2>3, <2>4
    <2>6. Logged(log', base, o) /\ Tidy(log')
      BY <1>1, <1>2, <2>3, <2>4, <2>5, DataWritten
    <2>7. PICK n \in Nat : n = Cardinality(DOMAIN o)
      BY <2>3, WordsOfBlock, RequestInterval
    <2>8. pos' = base + 3 + n /\ Len(log') = base + 3 + n
      BY <2>1, <2>3, <2>4, <2>6, <2>7 DEF Logged, hdrSize
    <2>9. Far(pos')
      BY <1>1, <2>7, <2>8 DEF Far, hdrSize
    <2>10. Restored(disk, o) = disk
      BY <1>1, <2>4, RestoreNothing
    <2>11. Logged(log', base', op'[t].old) /\ pos' = Len(log') /\ pre' = Restored(disk', op'[t].old)
           /\ Far(base')
      BY <1>2, <2>2, <2>3, <2>4, <2>6, <2>8, <2>10
    <2> QED
      BY <2>2, <2>6, <2>9, <2>11 DEF EntryNow, Entry, Early, Late
  <1> QED
    BY <1>3, <1>4

\* The steps that write the device, with the entry in the log.
LEMMA WritingKeepsEntry ==
    ASSUME ShapeOK, WordsInv, NEW t \in Threads, EntryNow(t),
           Sync(t) \/ InnerWriteWord(t) \/ PostFill(t)
    PROVE  EntryNow(t)'
  <1>0. op = [s \in Threads |-> op[s]] /\ CallShape(op[t]) /\ disk \in Disks
    BY DEF ShapeOK, WordsInv, DeviceTyped
  <1>1. op[t].pc \in {"sync", "writing", "postFill"} /\ UNCHANGED <<pre, base, log, pos, hdr>>
    BY DEF Sync, InnerWriteWord, PostFill, At, LogUnchanged, MountUnchanged
  <1>2. /\ Far(pos) /\ Far(base) /\ Logged(log, base, op[t].old) /\ pos = Len(log)
        /\ pre = Restored(disk, op[t].old)
    BY <1>1 DEF EntryNow, Entry, Late
  <1>3. SUFFICES /\ op'[t].pc \in Late /\ op'[t].old = op[t].old
                 /\ Restored(disk', op[t].old) = Restored(disk, op[t].old)
    <2>1. /\ op'[t].pc \in Late /\ op'[t].pc \notin Early
          /\ op'[t].pc \notin {"preRead", "preFill", "setOff", "setLen", "header"}
          /\ op'[t].pc \notin {"preFill", "setOff", "setLen", "header", "data"}
          /\ op'[t].pc \notin {"setLen", "header"} /\ op'[t].pc # "header" /\ op'[t].pc # "data"
      BY <1>3 DEF Late, Early
    <2>2. /\ Far(pos') /\ Far(base') /\ Logged(log', base', op'[t].old) /\ pos' = Len(log')
          /\ pre' = Restored(disk', op'[t].old)
      BY <1>1, <1>2, <1>3
    <2> QED
      BY <2>1, <2>2 DEF EntryNow, Entry
  <1>4. CASE Sync(t)
    <2>1. op'[t] = [pc |-> "writing", new |-> op[t].new, old |-> op[t].old,
                    left |-> DOMAIN op[t].new]
      BY <1>0, <1>4 DEF Sync
    <2>2. disk' = disk
      BY <1>4 DEF Sync
    <2> QED
      BY <2>1, <2>2 DEF Late
  <1>5. CASE InnerWriteWord(t)
    <2>1. PICK a \in op[t].left :
             /\ disk' = [disk EXCEPT ![a] = op[t].new[a]]
             /\ op' = [op EXCEPT ![t] =
                         [pc |-> IF op[t].left = {a} THEN "postFill" ELSE "writing",
                          new |-> op[t].new, old |-> op[t].old, left |-> op[t].left \ {a}]]
      BY <1>5, WordShape
    <2>2. op[t].pc = "writing"
      BY <1>5 DEF InnerWriteWord, At
    <2>3. op'[t].pc \in {"postFill", "writing"} /\ op'[t].old = op[t].old
      BY <1>0, <2>1
    <2>4. a \in DOMAIN op[t].old
      BY <1>0, <2>1, <2>2, WriteFields
    <2>5. \A x \in Addr : x = a \/ disk'[x] = disk[x]
      BY <1>0, <2>1 DEF Disks
    <2>6. Restored(disk', op[t].old) = Restored(disk, op[t].old)
      BY <2>4, <2>5 DEF Restored
    <2> QED
      BY <2>3, <2>6 DEF Late
  <1>6. CASE PostFill(t)
    <2>1. op[t].pc = "postFill" /\ op'[t] = [op[t] EXCEPT !.pc = "remove"] /\ disk' = disk
      BY <1>0, <1>6 DEF PostFill, At, Goto
    <2>2. op'[t].pc = "remove" /\ op'[t].old = op[t].old
      BY <1>0, <2>1, GotoFields
    <2> QED
      BY <2>1, <2>2 DEF Late
  <1> QED
    BY <1>4, <1>5, <1>6

\* RemoveLast leaves a blank log.
LEMMA RemoveKeepsEntry ==
    ASSUME ShapeOK, WordsInv, NEW t \in Threads, EntryNow(t), RemoveLast(t)
    PROVE  EntryNow(t)' /\ Tidy(log')
  <1>0. op = [s \in Threads |-> op[s]] /\ log \in Seq(Nat) /\ base \in Nat
    BY DEF ShapeOK, WordsInv, LogTyped, MountTyped
  <1>1. op[t].pc = "remove" /\ UNCHANGED <<disk, base, pos, hdr>> /\ pre' = disk
    BY DEF RemoveLast, At, MountUnchanged
  <1>2. Far(pos) /\ Far(base) /\ Logged(log, base, op[t].old) /\ pos = Len(log)
    BY <1>1 DEF EntryNow, Entry, Late
  <1>3. PICK o : o = op[t].old /\ IsBlock(o)
    BY <1>1 DEF WordsInv, CallsTyped, CallTyped
  <1>4. log' = SubSeq(log, 1, Max({Len(log) - (hdrSize + Cardinality(DOMAIN o)), 0}))
    BY <1>3 DEF RemoveLast
  <1>5. Blank(log', Len(log)) /\ Tidy(log')
    BY <1>0, <1>2, <1>3, <1>4, EntryRemoved
  <1>6. op'[t].pc = "idle"
    BY <1>0 DEF RemoveLast, Return, Idle
  <1>7. Far(pos') /\ Far(base') /\ pre' = disk' /\ Blank(log', pos')
    BY <1>1, <1>2, <1>5
  <1> QED
    BY <1>5, <1>6, <1>7 DEF EntryNow, Entry, Early, Late

\* A mount starts with a blank log.
LEMMA MountKeepsEntry ==
    ASSUME WordsInv, Tidy(log), NEW t \in Threads, Mount \/ Close \/ Crash
    PROVE  Tidy(log') /\ (mode' = "up" => EntryNow(t)')
  <1>0. log \in Seq(Nat) /\ Len(<<>>) = 0 /\ Tidy(<<>>) /\ Blank(<<>>, 0) /\ Far(0)
    <2>1. Len(<<>>) = 0
      OBVIOUS
    <2> QED
      BY <2>1 DEF WordsInv, LogTyped, Tidy, Blank, Zeros, Far
  <1>1. log' \in {log, <<>>}
    BY DEF Mount, MountClean, MountPending, RecoverEntry, RecoverRefused, RecoverFails,
        RecoverDone, Close, Crash
  <1>2. Tidy(log')
    BY <1>0, <1>1
  <1>3. ASSUME mode' = "up"
        PROVE  EntryNow(t)'
    <2>1. MountClean \/ RecoverDone
      BY <1>3 DEF Mount, MountPending, RecoverEntry, RecoverRefused, RecoverFails, Close, Crash
    <2>2. Fresh /\ disk' = disk
      BY <2>1 DEF MountClean, RecoverDone
    <2>3. Blank(log', 0)
      BY <1>0, <2>1, CleanIsBlank DEF MountClean, RecoverDone
    <2>4. op'[t].pc = "idle" /\ pre' = disk' /\ pos' = 0 /\ base' = 0
      BY <2>2 DEF Fresh, Idle
    <2> QED
      BY <1>0, <2>3, <2>4 DEF EntryNow, Entry, Early, Late
  <1> QED
    BY <1>2, <1>3

\* Every step of WriteAt, unless the log or the device fails in the middle.
LEMMA WriteKeepsEntry ==
    ASSUME ShapeOK, WordsInv, CacheServesDevice, NEW t, Threads = {t},
           "write" \notin Faults, "log" \notin Faults, Tidy(log), EntryNow(t), Write(t)
    PROVE  EntryNow(t)' /\ Tidy(log')
  <1>0. t \in Threads
    OBVIOUS
  <1>1. CASE \E R \in Requests : \E d \in [R -> DataWords] : WriteHit(t, R, d) \/ WriteMiss(t, R, d)
    <2>1. EntryNow(t)'
      BY <1>1, BeginKeepsEntry
    <2>2. log' = log
      BY <1>1 DEF WriteHit, WriteMiss, LogUnchanged
    <2> QED
      BY <2>1, <2>2
  <1>2. CASE PreRead(t) \/ PreReadFails(t) \/ PreFill(t) \/ SetOff(t) \/ SetLen(t)
    <2>1. EntryNow(t)'
      BY <1>0, <1>2, PrepareKeepsEntry
    <2>2. log' = log
      BY <1>2 DEF PreRead, PreReadFails, PreFill, SetOff, SetLen, LogUnchanged
    <2> QED
      BY <2>1, <2>2
  <1>3. CASE AppendHeader(t) \/ AppendData(t)
    BY <1>0, <1>3, AppendKeepsEntry
  <1>4. CASE Sync(t) \/ InnerWriteWord(t) \/ PostFill(t)
    <2>1. EntryNow(t)'
      BY <1>0, <1>4, WritingKeepsEntry
    <2>2. log' = log
      BY <1>4 DEF Sync, InnerWriteWord, PostFill, LogUnchanged
    <2> QED
      BY <2>1, <2>2
  <1>5. CASE RemoveLast(t)
    BY <1>0, <1>5, RemoveKeepsEntry
  <1>6. ~AppendFails(t) /\ ~InnerWriteFails(t) /\ ~RemoveFails(t)
    BY DEF AppendFails, InnerWriteFails, RemoveFails
  <1> QED
    BY <1>1, <1>2, <1>3, <1>4, <1>5, <1>6 DEF Write

\* So every step keeps the log as UndoInv says ...
LEMMA NextUndo ==
    ASSUME NEW t, Threads = {t}, "write" \notin Faults, "log" \notin Faults
    PROVE  ListInv /\ WordsInv /\ CacheServesDevice /\ UndoInv /\ [Next]_vars => UndoInv'
  <1> SUFFICES ASSUME ListInv, WordsInv, CacheServesDevice, UndoInv, [Next]_vars
               PROVE  UndoInv'
    OBVIOUS
  <1>1. t \in Threads /\ ShapeOK /\ Tidy(log) /\ (mode = "up" => EntryNow(t))
    BY DEF ListInv, UndoInv, EntryNow
  <1>2. SUFFICES Tidy(log') /\ (mode' = "up" => EntryNow(t)')
    BY <1>2 DEF UndoInv, EntryNow
  <1>3. CASE Read(t)
    <2>1. mode = "up" /\ log' = log
      BY <1>3 DEF Read, ReadHit, ReadMiss, ReadInner, ReadFails, ReadFill, At, LogUnchanged, vars
    <2> QED
      BY <1>1, <1>3, <2>1, ReadKeepsEntry
  <1>4. CASE Write(t)
    <2>1. mode = "up"
      BY <1>4
      DEF Write, WriteHit, WriteMiss, PreRead, PreReadFails, PreFill, SetOff, SetLen,
          AppendHeader, AppendData, Sync, AppendFails, InnerWriteWord, InnerWriteFails,
          PostFill, RemoveLast, RemoveFails, At
    <2> QED
      BY <1>1, <1>4, <2>1, WriteKeepsEntry
  <1>5. CASE Mount \/ Close \/ Crash
    BY <1>1, <1>5, MountKeepsEntry
  <1>6. CASE UNCHANGED vars
    BY <1>1, <1>6 DEF vars, EntryNow
  <1> QED
    BY <1>3, <1>4, <1>5, <1>6 DEF Next

\* ... which makes an entry at a multiple of the header size undo its write.
LEMMA EntryUndoes ==
    ASSUME NEW t, Threads = {t}
    PROVE  ListInv /\ WordsInv /\ UndoInv => AlignedUndo
  <1> SUFFICES ASSUME ListInv, WordsInv, UndoInv, mode = "up", base % 3 = 0
               PROVE  Recovered = pre
    BY DEF AlignedUndo, hdrSize
  <1>1. t \in Threads /\ CallShape(op[t]) /\ EntryNow(t)
    BY DEF ListInv, ShapeOK, UndoInv, EntryNow
  <1>2. log \in Seq(Nat) /\ pos \in Nat /\ base \in Nat /\ disk \in Disks
    BY DEF WordsInv, LogTyped, MountTyped, DeviceTyped
  <1>3. op[t].pc \in Early \/ op[t].pc = "data" \/ op[t].pc \in Late
    BY <1>1 DEF CallShape, Idle, Early, Late
  <1>4. CASE op[t].pc \in Early
    <2>1. pre = disk /\ Blank(log, pos)
      BY <1>1, <1>4 DEF EntryNow, Entry
    <2> QED
      BY <1>2, <2>1, UndoBlank DEF Recovered
  <1>5. CASE op[t].pc = "data"
    <2>1. PICK R \in Requests : R = DOMAIN op[t].old
      BY <1>1, <1>5, WriteFields
    <2>2. pre = disk /\ Headed(log, base, R) /\ Len(log) = base + 3
      BY <1>1, <1>5, <2>1 DEF EntryNow, Entry, hdrSize
    <2> QED
      BY <1>2, <2>2, UndoHeaded DEF Recovered
  <1>6. CASE op[t].pc \in Late
    <2>1. PICK o : o = op[t].old /\ IsBlock(o)
      BY <1>1, <1>6 DEF WordsInv, CallsTyped, CallTyped, Late
    <2>2. Logged(log, base, o) /\ pre = Restored(disk, o)
      BY <1>1, <1>6, <2>1 DEF EntryNow, Entry
    <2> QED
      BY <1>2, <2>1, <2>2, UndoLogged DEF Recovered
  <1> QED
    BY <1>3, <1>4, <1>5, <1>6

\* With a single thread, requests that are nested or disjoint, and neither the device
\* nor the log failing in the middle of a write, a crash at any step of WriteAt is
\* undone completely whenever the entry starts a whole number of headers into the
\* file, for devices, requests, caches and logs of any size and any number of
\* crashes and mounts before.
THEOREM AlignedUndoCorrect ==
    ASSUME Laminar, NEW t, Threads = {t}, "write" \notin Faults, "log" \notin Faults
    PROVE  Spec => []AlignedUndo
  <1>1. Init => UndoInv
    BY DEF Init, UndoInv, Tidy
  <1>2. ListInv /\ WordsInv /\ CacheServesDevice /\ UndoInv /\ [Next]_vars => UndoInv'
    BY NextUndo
  <1>3. ListInv /\ WordsInv /\ UndoInv => AlignedUndo
    BY EntryUndoes
  <1>4. Spec => []CacheServesDevice
    BY CacheServesCorrect
  <1> QED
    BY <1>1, <1>2, <1>3, <1>4, ListCorrect, WordsCorrect, PTL DEF Spec
=============================================================================

-------------------------- MODULE FreeSpace_proofs --------------------------
(***************************************************************************)
(* The allocator of the ext4 driver never hands out a number twice and     *)
(* loses none until a write back is cut short, for any number of groups of *)
(* any size.                                                               *)
(***************************************************************************)
EXTENDS FreeSpace, Minimum, FiniteSetTheorems

\* A multiple of PerGroup and a rest below it are unique.
LEMMA SameGroup ==
    ASSUME NEW P \in Nat, NEW g \in Nat, NEW h \in Nat, NEW b \in 0 .. P - 1, NEW c \in 0 .. P - 1,
           g * P + b = h * P + c
    PROVE  g = h /\ b = c
  <1>1. ASSUME NEW x \in Nat, NEW y \in Nat, x < y
        PROVE  x * P + P <= y * P
    <2>1. PICK k \in Nat : y = x + 1 + k
      <3>1. y - x - 1 \in Nat /\ y = x + 1 + (y - x - 1)
        BY <1>1
      <3> QED
        BY <3>1
    <2>2. y * P = x * P + P + k * P
      BY <2>1
    <2>3. k * P \in Nat /\ x * P \in Nat
      OBVIOUS
    <2> QED
      BY <2>2, <2>3
  <1>2. g * P \in Nat /\ h * P \in Nat
    OBVIOUS
  <1>3. ~(g < h)
    BY <1>1, <1>2
  <1>4. ~(h < g)
    BY <1>1, <1>2
  <1>5. g = h
    BY <1>3, <1>4
  <1> QED
    BY <1>2, <1>5

\* Division with rest.
LEMMA GroupAndBit ==
    ASSUME NEW P \in Nat \ {0}, NEW x \in Nat
    PROVE  /\ x \div P \in Nat /\ x % P \in 0 .. P - 1
           /\ x = (x \div P) * P + (x % P)
  OBVIOUS

\* Different bits of the bitmaps have different numbers.
LEMMA NumberUnique ==
    ASSUME NEW k \in Kinds, NEW g \in Groups, NEW h \in Groups, NEW b \in Bits, NEW c \in Bits,
           Number(k, g, b) = Number(k, h, c)
    PROVE  g = h /\ b = c
  <1>1. PerGroup \in Nat /\ g \in Nat /\ h \in Nat /\ b \in 0 .. PerGroup - 1
        /\ c \in 0 .. PerGroup - 1 /\ Base(k) \in Nat
    BY GroupsAssumption DEF Groups, Bits, Base
  <1>2. g * PerGroup \in Nat /\ h * PerGroup \in Nat
    BY <1>1
  <1>3. g * PerGroup + b = h * PerGroup + c
    BY <1>1, <1>2 DEF Number
  <1> QED
    BY <1>1, <1>3, SameGroup

\* FreeBlock and FreeInode find the bit a number was made from.
LEMMA NumberFound ==
    ASSUME NEW k \in Kinds, NEW n \in Nat, n >= Base(k), GroupOf(k, n) \in Groups
    PROVE  BitOf(k, n) \in Bits /\ n = Number(k, GroupOf(k, n), BitOf(k, n))
  <1>1. PerGroup \in Nat \ {0} /\ n - Base(k) \in Nat /\ Base(k) \in Nat
    BY GroupsAssumption DEF Base
  <1>2. PICK x \in Nat : x = n - Base(k)
    BY <1>1
  <1>3. /\ x \div PerGroup \in Nat /\ x % PerGroup \in 0 .. PerGroup - 1
        /\ x = (x \div PerGroup) * PerGroup + (x % PerGroup)
    BY <1>1, GroupAndBit
  <1>4. GroupOf(k, n) = x \div PerGroup /\ BitOf(k, n) = x % PerGroup
    BY <1>2 DEF GroupOf, BitOf
  <1>5. n = x + Base(k)
    BY <1>1, <1>2
  <1> QED
    BY <1>3, <1>4, <1>5 DEF Number, Bits

\* The other way round: group and bit of the number of a bit.
LEMMA NumberOfBit ==
    ASSUME NEW k \in Kinds, NEW g \in Groups, NEW b \in Bits
    PROVE  /\ Number(k, g, b) \in Nat /\ Number(k, g, b) >= Base(k)
           /\ GroupOf(k, Number(k, g, b)) = g /\ BitOf(k, Number(k, g, b)) = b
  <1>1. PerGroup \in Nat \ {0} /\ g \in Nat /\ b \in 0 .. PerGroup - 1 /\ Base(k) \in Nat
    BY GroupsAssumption DEF Groups, Bits, Base
  <1>2. g * PerGroup \in Nat
    BY <1>1
  <1>3. PICK x \in Nat : x = g * PerGroup + b
    BY <1>1, <1>2
  <1>4. Number(k, g, b) = x + Base(k) /\ Number(k, g, b) - Base(k) = x
    BY <1>1, <1>2, <1>3 DEF Number
  <1>5. /\ x \div PerGroup \in Nat /\ x % PerGroup \in 0 .. PerGroup - 1
        /\ x = (x \div PerGroup) * PerGroup + (x % PerGroup)
    BY <1>1, GroupAndBit
  <1>6. x \div PerGroup = g /\ x % PerGroup = b
    BY <1>1, <1>3, <1>5, SameGroup
  <1> QED
    BY <1>1, <1>4, <1>6 DEF GroupOf, BitOf

-----------------------------------------------------------------------------
(* The inductive invariant: NothingLostOrShared, for what is on the device  *)
(* too, and the shape of the bitmaps.                                       *)

Bitmaps == [Kinds -> [Groups -> SUBSET Bits]]
Fields(d) == d = [bitmap |-> d.bitmap, free |-> d.free, sb |-> d.sb]

\* The numbers in own are numbers of bits that were free at the start.
OwnSound(own) ==
    /\ own \in [Kinds -> SUBSET Nat]
    /\ \A k \in Kinds : \A n \in own[k] :
        /\ n >= Base(k) /\ GroupOf(k, n) \in Groups
        /\ BitOf(k, n) \notin InitUsed[k][GroupOf(k, n)]

\* The bitmaps m and the numbers own account for each other.
Balanced(m, own) ==
    /\ m \in Bitmaps /\ OwnSound(own)
    /\ \A k \in Kinds : \A g \in Groups :
        m[k][g] = InitUsed[k][g] \union {b \in Bits : Number(k, g, b) \in own[k]}

SpaceInv ==
    /\ Fields(disk) /\ Balanced(disk.bitmap, ownedDisk)
    /\ Fields(view) /\ Balanced(view.bitmap, owned)
    /\ mode # "op" => owned = ownedDisk

\* Taking a bit that is not set, and owning its number, keeps the balance.
LEMMA TakeKeepsBalance ==
    ASSUME NEW m, NEW own, Balanced(m, own), NEW k \in Kinds, NEW g \in Groups,
           NEW b \in Bits, b \notin m[k][g], NEW m2, NEW own2,
           m2 = [m EXCEPT ![k][g] = m[k][g] \union {b}],
           own2 = [own EXCEPT ![k] = own[k] \union {Number(k, g, b)}]
    PROVE  Balanced(m2, own2)
  <1>1. /\ m2 = [m EXCEPT ![k][g] = m[k][g] \union {b}]
        /\ own2 = [own EXCEPT ![k] = own[k] \union {Number(k, g, b)}]
    OBVIOUS
  <1>2. m \in Bitmaps /\ own \in [Kinds -> SUBSET Nat]
    BY DEF Balanced, OwnSound
  <1>3. m2 \in Bitmaps
    BY <1>1, <1>2 DEF Bitmaps
  <1>4. OwnSound(own2)
    <2>1. own2 \in [Kinds -> SUBSET Nat]
      BY <1>1, <1>2, NumberOfBit
    <2>2. b \notin InitUsed[k][g]
      BY DEF Balanced
    <2>3. \A j \in Kinds : \A n \in own2[j] : n \in own[j] \/ (j = k /\ n = Number(k, g, b))
      BY <1>1, <1>2
    <2> QED
      BY <2>1, <2>2, <2>3, NumberOfBit DEF OwnSound, Balanced
  <1>5. ASSUME NEW j \in Kinds, NEW h \in Groups
        PROVE  m2[j][h] = InitUsed[j][h] \union {c \in Bits : Number(j, h, c) \in own2[j]}
    <2>1. m[j][h] = InitUsed[j][h] \union {c \in Bits : Number(j, h, c) \in own[j]}
      BY DEF Balanced
    <2>2. CASE j # k
      BY <1>1, <1>2, <2>1, <2>2 DEF Bitmaps
    <2>3. CASE j = k /\ h # g
      <3>1. \A c \in Bits : Number(j, h, c) # Number(k, g, b)
        BY <2>3, NumberUnique
      <3>2. m2[j][h] = m[j][h] /\ own2[j] = own[j] \union {Number(k, g, b)}
        BY <1>1, <1>2, <2>3 DEF Bitmaps
      <3> QED
        BY <2>1, <3>1, <3>2
    <2>4. CASE j = k /\ h = g
      <3>1. \A c \in Bits : Number(j, h, c) = Number(k, g, b) <=> c = b
        BY <2>4, NumberUnique
      <3>2. m2[j][h] = m[j][h] \union {b} /\ own2[j] = own[j] \union {Number(k, g, b)}
        BY <1>1, <1>2, <2>4 DEF Bitmaps
      <3> QED
        BY <2>1, <3>1, <3>2
    <2> QED
      BY <2>2, <2>3, <2>4
  <1> QED
    BY <1>1, <1>3, <1>4, <1>5 DEF Balanced

\* Clearing the bit of a number that is owned, and giving the number up, keeps it.
LEMMA GiveKeepsBalance ==
    ASSUME NEW m, NEW own, Balanced(m, own), NEW k \in Kinds, NEW n \in own[k],
           NEW g, NEW b, g = GroupOf(k, n), b = BitOf(k, n), NEW m2, NEW own2,
           m2 = [m EXCEPT ![k][g] = m[k][g] \ {b}], own2 = [own EXCEPT ![k] = own[k] \ {n}]
    PROVE  Balanced(m2, own2)
  <1>1. g = GroupOf(k, n) /\ b = BitOf(k, n)
    OBVIOUS
  <1>2. m2 = [m EXCEPT ![k][g] = m[k][g] \ {b}] /\ own2 = [own EXCEPT ![k] = own[k] \ {n}]
    OBVIOUS
  <1>3. m \in Bitmaps /\ own \in [Kinds -> SUBSET Nat]
    BY DEF Balanced, OwnSound
  <1>4. n \in Nat /\ n >= Base(k) /\ g \in Groups /\ b \notin InitUsed[k][g]
    BY <1>1, <1>3 DEF Balanced, OwnSound
  <1>5. b \in Bits /\ n = Number(k, g, b)
    BY <1>1, <1>4, NumberFound
  <1>6. m2 \in Bitmaps
    <2>1. m[k] \in [Groups -> SUBSET Bits] /\ m[k][g] \ {b} \in SUBSET Bits
      BY <1>3, <1>4 DEF Bitmaps
    <2>2. [m[k] EXCEPT ![g] = m[k][g] \ {b}] \in [Groups -> SUBSET Bits]
      BY <2>1
    <2> QED
      BY <1>2, <1>3, <2>2 DEF Bitmaps
  <1>7. OwnSound(own2)
    <2>1. own2 \in [Kinds -> SUBSET Nat] /\ \A j \in Kinds : own2[j] \subseteq own[j]
      BY <1>2, <1>3
    <2> QED
      BY <2>1 DEF Balanced, OwnSound
  <1>8. ASSUME NEW j \in Kinds, NEW h \in Groups
        PROVE  m2[j][h] = InitUsed[j][h] \union {c \in Bits : Number(j, h, c) \in own2[j]}
    <2>1. m[j][h] = InitUsed[j][h] \union {c \in Bits : Number(j, h, c) \in own[j]}
      BY DEF Balanced
    <2>2. CASE j # k
      BY <1>2, <1>3, <2>1, <2>2 DEF Bitmaps
    <2>3. CASE j = k /\ h # g
      <3>1. \A c \in Bits : Number(j, h, c) # n
        BY <1>4, <1>5, <2>3, NumberUnique
      <3>2. m2[j][h] = m[j][h] /\ own2[j] = own[j] \ {n}
        BY <1>2, <1>3, <2>3 DEF Bitmaps
      <3> QED
        BY <2>1, <3>1, <3>2
    <2>4. CASE j = k /\ h = g
      <3>1. ASSUME NEW c \in Bits
            PROVE  Number(j, h, c) = n <=> c = b
        <4>1. Number(j, h, c) = n => c = b
          BY <1>4, <1>5, <2>4, NumberUnique
        <4> QED
          BY <1>5, <2>4, <4>1
      <3>2. m2[j][h] = m[j][h] \ {b} /\ own2[j] = own[j] \ {n}
        BY <1>2, <1>3, <2>4 DEF Bitmaps
      <3> QED
        BY <1>4, <2>1, <2>4, <3>1, <3>2
    <2> QED
      BY <2>2, <2>3, <2>4
  <1> QED
    BY <1>1, <1>2, <1>6, <1>7, <1>8 DEF Balanced

-----------------------------------------------------------------------------
(* The steps *)

\* Writing descriptor and superblock leaves the bitmaps alone.
LEMMA CountsLeaveBitmaps ==
    ASSUME NEW v, Fields(v), NEW g, NEW m
    PROVE  Fields(WriteBackCounts(v, g, m)) /\ WriteBackCounts(v, g, m).bitmap = v.bitmap
  <1>1. PICK f : f = [k \in Kinds |-> [v.free[k] EXCEPT ![g] = m.free[k][g]]]
    OBVIOUS
  <1>2. PICK w : w = [v EXCEPT !.free = f]
    OBVIOUS
  <1>3. w = [bitmap |-> v.bitmap, free |-> f, sb |-> v.sb]
    BY <1>2 DEF Fields
  <1>4. PICK x : x = [w EXCEPT !.sb = m.sb]
    OBVIOUS
  <1>5. x = [bitmap |-> v.bitmap, free |-> f, sb |-> m.sb]
    BY <1>3, <1>4
  <1>6. WriteBackCounts(v, g, m) = x
    BY <1>1, <1>2, <1>4 DEF WriteBackCounts
  <1> QED
    BY <1>5, <1>6 DEF Fields

\* Changing one group's bitmap changes only that.
LEMMA BitmapField ==
    ASSUME NEW v, Fields(v), v.bitmap \in Bitmaps, NEW k \in Kinds, NEW g \in Groups, NEW S
    PROVE  /\ Fields([v EXCEPT !.bitmap[k][g] = S])
           /\ [v EXCEPT !.bitmap[k][g] = S].bitmap = [v.bitmap EXCEPT ![k][g] = S]
  <1>1. PICK m : m = [v.bitmap EXCEPT ![k][g] = S]
    OBVIOUS
  <1>2. [v EXCEPT !.bitmap = m] = [bitmap |-> m, free |-> v.free, sb |-> v.sb]
    BY DEF Fields
  <1>3. [v EXCEPT !.bitmap[k][g] = S] = [v EXCEPT !.bitmap = m]
    BY <1>1
  <1> QED
    BY <1>1, <1>2, <1>3 DEF Fields

\* AllocateBlock and AllocateInode take a bit that is not set in the bitmap they read.
LEMMA AllocateKeeps ==
    ASSUME SpaceInv, NEW k \in Kinds, Allocate(k)
    PROVE  SpaceInv'
  <1>1. PICK g : g = Min(Eligible(k))
    OBVIOUS
  <1>2. PICK b : b = Min(Candidates(k, g))
    OBVIOUS
  <1>3. g \in Groups /\ Candidates(k, g) # {}
    <2>1. Eligible(k) \in SUBSET Nat /\ Eligible(k) # {}
      BY GroupsAssumption DEF Allocate, Eligible, Groups
    <2>2. g \in Eligible(k)
      BY <1>1, <2>1, MinIsSmallest
    <2> QED
      BY <2>2 DEF Eligible
  <1>4. b \in Bits /\ b \notin view.bitmap[k][g]
    <2>1. Candidates(k, g) \in SUBSET Nat
      BY GroupsAssumption DEF Candidates, Bits
    <2>2. b \in Candidates(k, g)
      BY <1>2, <1>3, <2>1, MinIsSmallest
    <2> QED
      BY <2>2 DEF Candidates
  <1>5. PICK S, w : /\ S = view.bitmap[k][g] \union {b}
                    /\ w = [view EXCEPT !.bitmap[k][g] = S]
    OBVIOUS
  <1>6. Fields(w) /\ w.bitmap = [view.bitmap EXCEPT ![k][g] = S]
    <2>1. Fields(view) /\ view.bitmap \in Bitmaps
      BY DEF SpaceInv, Balanced
    <2> QED
      BY <1>3, <1>5, <2>1, BitmapField
  <1>7. view' = WriteBackCounts(w, g, mem')
        /\ owned' = [owned EXCEPT ![k] = owned[k] \union {Number(k, g, b)}]
    BY <1>1, <1>2, <1>5 DEF Allocate
  <1>8. Fields(view') /\ view'.bitmap = w.bitmap
    BY <1>6, <1>7, CountsLeaveBitmaps
  <1>9. Balanced(view'.bitmap, owned')
    <2>1. view'.bitmap = [view.bitmap EXCEPT ![k][g] = view.bitmap[k][g] \union {b}]
      BY <1>5, <1>6, <1>8
    <2>2. Balanced(view.bitmap, owned)
      BY DEF SpaceInv
    <2>3. PICK m, m2, own, own2 : m = view.bitmap /\ m2 = view'.bitmap
                                  /\ own = owned /\ own2 = owned'
      OBVIOUS
    <2>4. /\ Balanced(m, own) /\ b \notin m[k][g]
          /\ m2 = [m EXCEPT ![k][g] = m[k][g] \union {b}]
          /\ own2 = [own EXCEPT ![k] = own[k] \union {Number(k, g, b)}]
      BY <1>4, <1>7, <2>1, <2>2, <2>3
    <2>5. Balanced(m2, own2)
      BY <1>3, <1>4, <2>4, TakeKeepsBalance, Zenon
    <2> QED
      BY <2>3, <2>5
  <1> QED
    BY <1>8, <1>9 DEF SpaceInv, Allocate, MountUnchanged

\* FreeBlock and FreeInode clear the bit of the number they are given, counted
\* in full or not.
LEMMA FreeKeeps ==
    ASSUME SpaceInv, NEW k \in Kinds, NEW n \in owned[k], Free(k, n) \/ FreeUncounted(k, n)
    PROVE  SpaceInv'
  <1>1. PICK g, b : g = GroupOf(k, n) /\ b = BitOf(k, n)
    OBVIOUS
  <1>2. g \in Groups
    BY <1>1 DEF Free, FreeUncounted
  <1>3. PICK S, w : S = view.bitmap[k][g] \ {b} /\ w = [view EXCEPT !.bitmap[k][g] = S]
    OBVIOUS
  <1>4. Fields(w) /\ w.bitmap = [view.bitmap EXCEPT ![k][g] = S]
    <2>1. Fields(view) /\ view.bitmap \in Bitmaps
      BY DEF SpaceInv, Balanced
    <2> QED
      BY <1>2, <1>3, <2>1, BitmapField
  <1>5. Fields(view') /\ view'.bitmap = w.bitmap
    <2>1. CASE Free(k, n)
      <3>1. view' = WriteBackCounts(w, g, mem')
        BY <1>1, <1>3, <2>1 DEF Free
      <3> QED
        BY <1>4, <3>1, CountsLeaveBitmaps
    <2>2. CASE FreeUncounted(k, n)
      <3>1. view' = w
        BY <1>1, <1>3, <2>2 DEF FreeUncounted
      <3> QED
        BY <1>4, <3>1
    <2> QED
      BY <2>1, <2>2
  <1>6. owned' = [owned EXCEPT ![k] = owned[k] \ {n}]
    BY DEF Free, FreeUncounted
  <1>7. Balanced(view'.bitmap, owned')
    <2>1. view'.bitmap = [view.bitmap EXCEPT ![k][g] = view.bitmap[k][g] \ {b}]
      BY <1>3, <1>4, <1>5
    <2>2. Balanced(view.bitmap, owned)
      BY DEF SpaceInv
    <2>3. PICK m, m2, own, own2 : m = view.bitmap /\ m2 = view'.bitmap
                                  /\ own = owned /\ own2 = owned'
      OBVIOUS
    <2>4. /\ Balanced(m, own) /\ n \in own[k]
          /\ m2 = [m EXCEPT ![k][g] = m[k][g] \ {b}]
          /\ own2 = [own EXCEPT ![k] = own[k] \ {n}]
      BY <1>6, <2>1, <2>2, <2>3
    <2>5. Balanced(m2, own2)
      BY <1>1, <2>4, GiveKeepsBalance, Zenon
    <2> QED
      BY <2>3, <2>5
  <1> QED
    BY <1>5, <1>7 DEF SpaceInv, Free, FreeUncounted, MountUnchanged

\* Writing other fields of the device than the bitmaps.
LEMMA OtherFields ==
    ASSUME NEW d, Fields(d), NEW f, NEW s
    PROVE  /\ Fields([d EXCEPT !.sb = s]) /\ [d EXCEPT !.sb = s].bitmap = d.bitmap
           /\ Fields([d EXCEPT !.free = f, !.sb = s])
           /\ [d EXCEPT !.free = f, !.sb = s].bitmap = d.bitmap
  <1>1. [d EXCEPT !.sb = s] = [bitmap |-> d.bitmap, free |-> d.free, sb |-> s]
    BY DEF Fields
  <1>2. PICK w : w = [d EXCEPT !.free = f]
    OBVIOUS
  <1>3. w = [bitmap |-> d.bitmap, free |-> f, sb |-> d.sb]
    BY <1>2 DEF Fields
  <1>4. [w EXCEPT !.sb = s] = [bitmap |-> d.bitmap, free |-> f, sb |-> s]
    BY <1>3
  <1>5. [d EXCEPT !.free = f, !.sb = s] = [bitmap |-> d.bitmap, free |-> f, sb |-> s]
    BY <1>2, <1>4
  <1> QED
    BY <1>1, <1>5 DEF Fields

\* At the start nothing has been handed out ...
LEMMA InitSpace == Init => SpaceInv
  <1> SUFFICES ASSUME Init PROVE SpaceInv
    OBVIOUS
  <1>1. Fields(Formatted) /\ Formatted.bitmap = InitUsed
    BY DEF Fields, Formatted
  <1>2. Balanced(InitUsed, None)
    BY InitUsedAssumption DEF Balanced, OwnSound, None, Bitmaps
  <1> QED
    BY <1>1, <1>2 DEF Init, SpaceInv

\* What holds until a write back is cut short.
Space == torn \/ SpaceInv

\* Nothing that is owned is free in the bitmaps, so no release is refused.
LEMMA NoneRefused ==
    ASSUME SpaceInv, NEW k \in Kinds, NEW n \in owned[k]
    PROVE  ~FreeRefused(k, n)
  <1>1. Balanced(view.bitmap, owned)
    BY DEF SpaceInv
  <1>2. n \in Nat /\ n >= Base(k) /\ GroupOf(k, n) \in Groups
    BY <1>1 DEF Balanced, OwnSound
  <1>3. BitOf(k, n) \in Bits /\ n = Number(k, GroupOf(k, n), BitOf(k, n))
    BY <1>2, NumberFound
  <1>4. BitOf(k, n) \in view.bitmap[k][GroupOf(k, n)]
    BY <1>1, <1>2, <1>3 DEF Balanced
  <1> QED
    BY <1>4 DEF FreeRefused

\* A write back that was cut short is not forgotten.
LEMMA TornStays == torn /\ [Next]_vars => torn'
  BY DEF Next, Operation, vars, Begin, Commit, CommitTorn, CrashInCommit, WriteBackCut, Rollback,
         FreeLeaks, Allocate, AllocateFails, Free, FreeUncounted, FreeRefused, MountUnchanged,
         Mount, Unmount, Crash, FsckFix

\* ... and every step but a torn write back keeps the balance, on the device and in
\* the transaction.
LEMMA NextSpace == Space /\ [Next]_vars => Space'
  <1> SUFFICES ASSUME SpaceInv, [Next]_vars, ~torn' PROVE SpaceInv'
    BY TornStays DEF Space
  <1>1. ASSUME NEW k \in Kinds, Allocate(k)
        PROVE  SpaceInv'
    BY <1>1, AllocateKeeps
  <1>2. ASSUME NEW k \in Kinds, NEW n \in owned[k], Free(k, n) \/ FreeUncounted(k, n)
        PROVE  SpaceInv'
    BY <1>2, FreeKeeps
  <1>3. CASE Begin \/ Commit \/ Rollback \/ FreeLeaks \/ Mount \/ Crash
    BY <1>3 DEF Begin, Commit, Rollback, FreeLeaks, Mount, Crash, MountUnchanged, SpaceInv
  <1>4. CASE Unmount
    <2>1. Fields(disk') /\ disk'.bitmap = disk.bitmap /\ view' = disk'
      BY <1>4, OtherFields DEF Unmount, SpaceInv
    <2> QED
      BY <1>4, <2>1 DEF Unmount, SpaceInv
  <1>5. CASE FsckFix
    <2>1. PICK f, s : disk' = [disk EXCEPT !.free = f, !.sb = s]
      BY <1>5 DEF FsckFix
    <2>2. Fields(disk') /\ disk'.bitmap = disk.bitmap
      BY <2>1, OtherFields DEF SpaceInv
    <2> QED
      BY <1>5, <2>2 DEF FsckFix, SpaceInv
  <1>6. CASE UNCHANGED vars
    BY <1>6 DEF vars, SpaceInv
  <1>7. ASSUME NEW k \in Kinds, AllocateFails(k)
        PROVE  SpaceInv'
    BY <1>7 DEF AllocateFails, SpaceInv
  <1>8. CASE CommitTorn \/ CrashInCommit
    BY <1>8 DEF CommitTorn, CrashInCommit, WriteBackCut
  <1> QED
    BY <1>1, <1>2, <1>3, <1>4, <1>5, <1>6, <1>7, <1>8, NoneRefused DEF Next, Operation

\* Until a write back is cut short, and across commits, failed operations, device
\* errors, crashes at other points, remounts and fsck --fix, whatever the free
\* counts say, the bits in use are those in use at the start and those of
\* the numbers AllocateBlock and AllocateInode have handed out and FreeBlock and
\* FreeInode have not taken back: none is handed out twice and none is lost.
THEOREM SpaceCorrect == Spec => []NothingLostOrShared
  <1>1. Init => Space
    BY InitSpace DEF Space
  <1>2. Space => NothingLostOrShared
    BY DEF Space, SpaceInv, Balanced, OwnSound, NothingLostOrShared, Accounts
  <1> QED
    BY <1>1, <1>2, NextSpace, PTL DEF Spec

-----------------------------------------------------------------------------
(* The free counts.  Their sum is a recursive function; what it computes is  *)
(* proved by looking at the smallest index at which a claim would fail.      *)

\* The partial sums of f: t[i] is the sum of the first i counts.
PartialSums(t, f, n) ==
    t \in [0 .. n -> Int] /\ t[0] = 0 /\ \A i \in 1 .. n : t[i] = t[i - 1] + f[i - 1]

\* There are partial sums of any length (by the shortest length without).
LEMMA SumsExist ==
    ASSUME NEW f \in [Groups -> Int]
    PROVE  \E t : PartialSums(t, f, GroupCount)
  <1> DEFINE Bad == {n \in 0 .. GroupCount : ~\E t : PartialSums(t, f, n)}
  <1>0. GroupCount \in Nat /\ Groups = 0 .. GroupCount - 1
    BY GroupsAssumption DEF Groups
  <1>1. SUFFICES ASSUME Bad # {} PROVE FALSE
    <2>1. GroupCount \in 0 .. GroupCount
      BY <1>0
    <2> QED
      BY <2>1
  <1>2. PICK n \in Bad : \A m \in Bad : n <= m
    <2>1. Bad \in SUBSET Nat
      BY <1>0
    <2> HIDE DEF Bad
    <2> QED
      BY <1>1, <2>1, SmallestExists
  <1>3. n # 0
    <2>1. PartialSums([i \in 0 .. 0 |-> 0], f, 0)
      BY DEF PartialSums
    <2> QED
      BY <1>2, <2>1
  <1>4. n \in 1 .. GroupCount /\ n - 1 \in 0 .. GroupCount /\ n - 1 \in Groups /\ n - 1 \notin Bad
    BY <1>0, <1>2, <1>3
  <1>5. PICK t : PartialSums(t, f, n - 1)
    BY <1>4
  <1>6. PICK u : u = [i \in 0 .. n |-> IF i = n THEN t[n - 1] + f[n - 1] ELSE t[i]]
    OBVIOUS
  <1>7. PartialSums(u, f, n)
    <2>1. t \in [0 .. n - 1 -> Int] /\ t[0] = 0 /\ \A i \in 1 .. n - 1 : t[i] = t[i - 1] + f[i - 1]
      BY <1>5 DEF PartialSums
    <2>2. n \in Nat /\ f[n - 1] \in Int /\ t[n - 1] \in Int
      BY <1>0, <1>4, <2>1
    <2>3. u \in [0 .. n -> Int] /\ u[0] = 0
      BY <1>3, <1>6, <2>1, <2>2
    <2>4. \A i \in 1 .. n : u[i] = u[i - 1] + f[i - 1]
      BY <1>6, <2>1, <2>2
    <2> QED
      BY <2>3, <2>4 DEF PartialSums
  <1> QED
    BY <1>2, <1>7

\* SumOf is the last of the partial sums.
LEMMA SumIsLast ==
    ASSUME NEW f \in [Groups -> Int]
    PROVE  \E t : PartialSums(t, f, GroupCount) /\ SumOf(f) = t[GroupCount]
  <1> DEFINE sum[i \in 0 .. GroupCount] == IF i = 0 THEN 0 ELSE sum[i - 1] + f[i - 1]
  <1>0. GroupCount \in Nat /\ Groups = 0 .. GroupCount - 1
    BY GroupsAssumption DEF Groups
  <1>1. PICK t : PartialSums(t, f, GroupCount)
    BY SumsExist
  <1>2. t = [i \in 0 .. GroupCount |-> IF i = 0 THEN 0 ELSE t[i - 1] + f[i - 1]]
    BY <1>0, <1>1 DEF PartialSums
  <1>3. sum = [i \in 0 .. GroupCount |-> IF i = 0 THEN 0 ELSE sum[i - 1] + f[i - 1]]
    BY <1>2
  <1>4. SumOf(f) = sum[GroupCount]
    BY DEF SumOf
  <1> HIDE DEF sum
  <1>5. \A i \in 0 .. GroupCount : sum[i] = IF i = 0 THEN 0 ELSE sum[i - 1] + f[i - 1]
    BY <1>3
  <1>6. \A i \in 0 .. GroupCount : t[i] = IF i = 0 THEN 0 ELSE t[i - 1] + f[i - 1]
    BY <1>2
  <1>7. PICK S : S = {i \in 0 .. GroupCount : sum[i] # t[i]}
    OBVIOUS
  <1>8. S = {}
    <2>1. SUFFICES ASSUME S # {} PROVE FALSE
      OBVIOUS
    <2>2. S \in SUBSET Nat
      BY <1>0, <1>7
    <2>3. PICK i \in S : \A j \in S : i <= j
      BY <2>1, <2>2, SmallestExists
    <2>4. i \in 0 .. GroupCount /\ sum[i] # t[i]
      BY <1>7, <2>3
    <2>5. i # 0 /\ i - 1 \in 0 .. GroupCount /\ i - 1 \notin S
      BY <1>0, <1>5, <1>6, <2>3, <2>4
    <2>6. sum[i - 1] = t[i - 1]
      BY <1>7, <2>5
    <2> QED
      BY <1>5, <1>6, <2>4, <2>5, <2>6
  <1>9. sum[GroupCount] = t[GroupCount]
    BY <1>0, <1>7, <1>8
  <1> QED
    BY <1>1, <1>4, <1>9

\* Partial sums are unique.  A count changed by d changes the sum by d ...
LEMMA SumChanged ==
    ASSUME NEW f \in [Groups -> Int], NEW g \in Groups, NEW d \in Int, NEW f2,
           f2 = [f EXCEPT ![g] = f[g] + d]
    PROVE  SumOf(f2) = SumOf(f) + d
  <1>0. GroupCount \in Nat /\ Groups = 0 .. GroupCount - 1 /\ g \in Nat
    BY GroupsAssumption DEF Groups
  <1>2. f2 = [f EXCEPT ![g] = f[g] + d] /\ f2 \in [Groups -> Int]
    OBVIOUS
  <1>3. PICK t : PartialSums(t, f, GroupCount) /\ SumOf(f) = t[GroupCount]
    BY SumIsLast
  <1>4. PICK u : PartialSums(u, f2, GroupCount) /\ SumOf(f2) = u[GroupCount]
    BY <1>2, SumIsLast
  <1>5. PICK S : S = {i \in 0 .. GroupCount : u[i] # (IF i > g THEN t[i] + d ELSE t[i])}
    OBVIOUS
  <1>6. S = {}
    <2>1. SUFFICES ASSUME S # {} PROVE FALSE
      OBVIOUS
    <2>2. S \in SUBSET Nat
      BY <1>0, <1>5
    <2>3. PICK i \in S : \A j \in S : i <= j
      BY <2>1, <2>2, SmallestExists
    <2>4. i \in 0 .. GroupCount /\ u[i] # (IF i > g THEN t[i] + d ELSE t[i])
      BY <1>5, <2>3
    <2>5. i # 0
      BY <1>0, <1>3, <1>4, <2>4 DEF PartialSums
    <2>6. i - 1 \in 0 .. GroupCount /\ i - 1 \notin S
      BY <1>0, <2>3, <2>4, <2>5
    <2>7. u[i - 1] = (IF i - 1 > g THEN t[i - 1] + d ELSE t[i - 1])
      BY <1>5, <2>6
    <2>8. i \in 1 .. GroupCount /\ i - 1 \in Groups
      BY <1>0, <2>4, <2>5
    <2>9. u[i] = u[i - 1] + f2[i - 1] /\ t[i] = t[i - 1] + f[i - 1] /\ t[i - 1] \in Int
      BY <1>3, <1>4, <2>6, <2>8 DEF PartialSums
    <2>10. f[i - 1] \in Int /\ f2[i - 1] = IF i - 1 = g THEN f[i - 1] + d ELSE f[i - 1]
      BY <1>2, <2>8
    <2> QED
      BY <1>0, <2>4, <2>7, <2>8, <2>9, <2>10
  <1>7. GroupCount \in 0 .. GroupCount /\ GroupCount > g
    BY <1>0
  <1>8. u[GroupCount] = t[GroupCount] + d
    BY <1>5, <1>6, <1>7
  <1> QED
    BY <1>3, <1>4, <1>8

\* ... and a sum of natural numbers is one, no smaller than any of them.
LEMMA SumBounds ==
    ASSUME NEW f \in [Groups -> Nat]
    PROVE  SumOf(f) \in Nat /\ \A g \in Groups : f[g] <= SumOf(f)
  <1>0. GroupCount \in Nat /\ Groups = 0 .. GroupCount - 1
    BY GroupsAssumption DEF Groups
  <1>1. f \in [Groups -> Int]
    OBVIOUS
  <1>2. PICK t : PartialSums(t, f, GroupCount) /\ SumOf(f) = t[GroupCount]
    BY <1>1, SumIsLast
  <1>3. PICK S : S = {i \in 0 .. GroupCount : ~(t[i] >= 0 /\ \A g \in 0 .. i - 1 : f[g] <= t[i])}
    OBVIOUS
  <1>4. S = {}
    <2>1. SUFFICES ASSUME S # {} PROVE FALSE
      OBVIOUS
    <2>2. S \in SUBSET Nat
      BY <1>0, <1>3
    <2>3. PICK i \in S : \A j \in S : i <= j
      BY <2>1, <2>2, SmallestExists
    <2>4. i \in 0 .. GroupCount /\ ~(t[i] >= 0 /\ \A g \in 0 .. i - 1 : f[g] <= t[i])
      BY <1>3, <2>3
    <2>5. i # 0
      BY <1>0, <1>2, <2>4 DEF PartialSums
    <2>6. i - 1 \in 0 .. GroupCount /\ i - 1 \notin S
      BY <1>0, <2>3, <2>4, <2>5
    <2>7. t[i - 1] >= 0 /\ \A g \in 0 .. (i - 1) - 1 : f[g] <= t[i - 1]
      BY <1>3, <2>6
    <2>8. i \in 1 .. GroupCount /\ i - 1 \in Groups
      BY <1>0, <2>4, <2>5
    <2>9. t[i] = t[i - 1] + f[i - 1] /\ t[i - 1] \in Int /\ f[i - 1] \in Nat
      BY <1>1, <1>2, <2>6, <2>8 DEF PartialSums
    <2>10. ASSUME NEW g \in 0 .. i - 1 PROVE f[g] <= t[i]
      <3>1. g \in Groups /\ f[g] \in Nat
        BY <1>0, <1>1, <2>8
      <3>2. CASE g = i - 1
        BY <2>7, <2>9, <3>2
      <3>3. CASE g # i - 1
        <4>1. g \in 0 .. (i - 1) - 1
          BY <2>8, <3>3
        <4> QED
          BY <2>7, <2>9, <3>1, <4>1
      <3> QED
        BY <3>2, <3>3
    <2> QED
      BY <2>4, <2>7, <2>9, <2>10
  <1>5. GroupCount \in 0 .. GroupCount /\ t[GroupCount] \in Int
    BY <1>0, <1>2 DEF PartialSums
  <1>6. t[GroupCount] >= 0 /\ \A g \in 0 .. GroupCount - 1 : f[g] <= t[GroupCount]
    BY <1>3, <1>4, <1>5
  <1> QED
    BY <1>0, <1>1, <1>2, <1>5, <1>6

-----------------------------------------------------------------------------
(* The inductive invariant of the counts: what is written back is what is    *)
(* in memory, and before the first call of an operation the transaction      *)
(* shows the device.                                                         *)

Counters == [free : [Kinds -> [Groups -> Int]], sb : [Kinds -> Int]]

Settled ==
    /\ mode # "op" => calls = 0
    /\ calls = 0 => view = disk
    /\ failures = 0 /\ ~fsck =>
        /\ CountsRight(disk.bitmap, disk.free, disk.sb)
        /\ mode # "down" => mem = Loaded(view) /\ CountsRight(view.bitmap, view.free, view.sb)

\* A group's count of free bits is a natural number ...
LEMMA ClearIsNat ==
    ASSUME NEW S \in SUBSET Bits
    PROVE  Clear(S) \in Nat /\ Cardinality(S) \in Nat
  <1>1. IsFiniteSet(Bits)
    BY GroupsAssumption, FS_Interval DEF Bits
  <1>2. IsFiniteSet(Bits \ S) /\ IsFiniteSet(S)
    BY <1>1, FS_Subset
  <1> QED
    BY <1>2, FS_CardinalityType DEF Clear

\* ... one less with a bit taken and one more with a bit given back.
LEMMA ClearChanges ==
    ASSUME NEW S \in SUBSET Bits, NEW b \in Bits
    PROVE  /\ b \notin S => Clear(S \union {b}) = Clear(S) + (-1)
           /\ b \in S => Clear(S \ {b}) = Clear(S) + 1
  <1>1. IsFiniteSet(Bits)
    BY GroupsAssumption, FS_Interval DEF Bits
  <1>2. IsFiniteSet(Bits \ S) /\ Cardinality(Bits \ S) \in Nat
    BY <1>1, FS_Subset, ClearIsNat DEF Clear
  <1>3. ASSUME b \notin S PROVE Clear(S \union {b}) = Clear(S) + (-1)
    <2>1. Bits \ (S \union {b}) = (Bits \ S) \ {b} /\ b \in Bits \ S
      BY <1>3
    <2>2. Cardinality((Bits \ S) \ {b}) = Cardinality(Bits \ S) - 1
      BY <1>2, <2>1, FS_RemoveElement
    <2> QED
      BY <1>2, <2>1, <2>2 DEF Clear
  <1>4. ASSUME b \in S PROVE Clear(S \ {b}) = Clear(S) + 1
    <2>1. Bits \ (S \ {b}) = (Bits \ S) \union {b} /\ b \notin Bits \ S
      BY <1>4
    <2>2. Cardinality((Bits \ S) \union {b}) = Cardinality(Bits \ S) + 1
      BY <1>2, <2>1, FS_AddElement
    <2> QED
      BY <1>2, <2>1, <2>2 DEF Clear
  <1> QED
    BY <1>3, <1>4

\* The greater of two integers.
LEMMA MaxOfTwo ==
    ASSUME NEW x \in Int
    PROVE  Max({x, 0}) \in Int /\ (x >= 0 => Max({x, 0}) = x)
  <1>1. \E y \in {x, 0} : \A z \in {x, 0} : y >= z
    <2>1. CASE x >= 0
      BY <2>1
    <2>2. CASE ~(x >= 0)
      BY <2>2
    <2> QED
      BY <2>1, <2>2
  <1>2. Max({x, 0}) \in {x, 0} /\ \A z \in {x, 0} : Max({x, 0}) >= z
    BY <1>1 DEF Max
  <1> QED
    BY <1>2

\* Bitmap, group count and total stay in step when a group's bitmap changes and
\* both are changed by as much.
LEMMA CountsFollow ==
    ASSUME NEW m \in Bitmaps, NEW free \in [Kinds -> [Groups -> Int]], NEW sb \in [Kinds -> Int],
           CountsRight(m, free, sb), NEW k \in Kinds, NEW g \in Groups,
           NEW S \in SUBSET Bits, NEW d \in Int, Clear(S) = Clear(m[k][g]) + d,
           NEW m2, NEW free2, NEW sb2, m2 = [m EXCEPT ![k][g] = S],
           free2 = [free EXCEPT ![k][g] = free[k][g] + d],
           sb2 = [sb EXCEPT ![k] = Max({sb[k] + d, 0})]
    PROVE  CountsRight(m2, free2, sb2)
  <1>1. m2 = [m EXCEPT ![k][g] = S] /\ free2 = [free EXCEPT ![k][g] = free[k][g] + d]
        /\ sb2 = [sb EXCEPT ![k] = Max({sb[k] + d, 0})] /\ Clear(S) = Clear(m[k][g]) + d
    OBVIOUS
  <1>2. \A j \in Kinds : \A h \in Groups : m2[j][h] = IF j = k /\ h = g THEN S ELSE m[j][h]
    BY <1>1 DEF Bitmaps
  <1>3. \A j \in Kinds : \A h \in Groups :
            free2[j][h] = IF j = k /\ h = g THEN free[k][g] + d ELSE free[j][h]
    BY <1>1
  <1>4. \A j \in Kinds : \A h \in Groups : free[j][h] = Clear(m[j][h])
    BY DEF CountsRight
  <1>5. \A j \in Kinds : \A h \in Groups : free2[j][h] = Clear(m2[j][h])
    BY <1>1, <1>2, <1>3, <1>4
  <1>6. \A j \in Kinds : j # k => SumOf(free2[j]) = SumOf(free[j])
    <2>1. \A j \in Kinds : j # k => free2[j] = free[j]
      BY <1>1
    <2> QED
      BY <2>1
  <1>7. SumOf(free2[k]) = SumOf(free[k]) + d
    <2>1. PICK f, f2 : f = free[k] /\ f2 = free2[k]
      OBVIOUS
    <2>2. f \in [Groups -> Int] /\ f2 = [f EXCEPT ![g] = f[g] + d]
      BY <1>1, <2>1
    <2>3. SumOf(f2) = SumOf(f) + d
      BY <2>2, SumChanged, Zenon
    <2> QED
      BY <2>1, <2>3
  <1>8. SumOf(free2[k]) \in Nat
    <2>1. \A h \in Groups : free2[k][h] \in Nat
      <3>1. \A h \in Groups : m2[k][h] \in SUBSET Bits
        BY <1>2 DEF Bitmaps
      <3> QED
        BY <1>5, <3>1, ClearIsNat
    <2>2. free2[k] \in [Groups -> Nat]
      <3>1. free2[k] = [free[k] EXCEPT ![g] = free[k][g] + d] /\ free[k] \in [Groups -> Int]
        BY <1>1
      <3>2. free2[k] = [h \in Groups |-> free2[k][h]]
        BY <3>1
      <3> QED
        BY <2>1, <3>2
    <2> QED
      BY <2>2, SumBounds
  <1>9. sb2[k] = SumOf(free2[k])
    <2>1. sb[k] = SumOf(free[k]) /\ sb[k] \in Int
      BY DEF CountsRight
    <2>2. sb[k] + d >= 0 /\ sb[k] + d \in Int
      BY <1>7, <1>8, <2>1
    <2>3. Max({sb[k] + d, 0}) = sb[k] + d
      BY <2>2, MaxOfTwo
    <2> QED
      BY <1>1, <1>7, <2>1, <2>3
  <1>10. \A j \in Kinds : sb2[j] = SumOf(free2[j])
    <2>1. \A j \in Kinds : j # k => sb2[j] = sb[j] /\ sb[j] = SumOf(free[j])
      BY <1>1 DEF CountsRight
    <2> QED
      BY <1>6, <1>9, <2>1
  <1> QED
    BY <1>5, <1>10 DEF CountsRight


-----------------------------------------------------------------------------
(* The steps, for types and counts *)

\* What a call does to the parts of memory and device.
Bumped(f, k, g, d) == [f EXCEPT ![k][g] = f[k][g] + d]
Totalled(s, k, d) == [s EXCEPT ![k] = Max({s[k] + d, 0})]
Replaced(m, k, g, S) == [m EXCEPT ![k][g] = S]
Rewritten(v, k, g, S) == [v EXCEPT !.bitmap[k][g] = S]
Written(f, g, f2) == [j \in Kinds |-> [f[j] EXCEPT ![g] = f2[j][g]]]

\* bgd count and superblock total, changed in memory.
LEMMA CountedFields ==
    ASSUME mem \in Counters, NEW k \in Kinds, NEW g \in Groups, NEW d \in Int
    PROVE  /\ Counted(k, g, d) \in Counters
           /\ Counted(k, g, d).free = Bumped(mem.free, k, g, d)
           /\ Counted(k, g, d).sb = Totalled(mem.sb, k, d)
           /\ CountedInGroup(k, g, d) \in Counters
  <1>1. PICK f, s : f = mem.free /\ s = mem.sb
    OBVIOUS
  <1>2. mem = [free |-> f, sb |-> s] /\ f \in [Kinds -> [Groups -> Int]] /\ s \in [Kinds -> Int]
    BY <1>1 DEF Counters
  <1>3. PICK f2 : f2 = [f EXCEPT ![k][g] = f[k][g] + d]
    OBVIOUS
  <1>4. PICK s2 : s2 = [s EXCEPT ![k] = Max({s[k] + d, 0})]
    OBVIOUS
  <1>5. f2 \in [Kinds -> [Groups -> Int]]
    <2>1. [f[k] EXCEPT ![g] = f[k][g] + d] \in [Groups -> Int]
      BY <1>2
    <2> QED
      BY <1>2, <1>3, <2>1
  <1>6. s2 \in [Kinds -> Int]
    <2>1. Max({s[k] + d, 0}) \in Int
      BY <1>2, MaxOfTwo
    <2> QED
      BY <1>2, <1>4, <2>1
  <1>7. PICK w : w = [mem EXCEPT !.free = f2]
    OBVIOUS
  <1>8. w = [free |-> f2, sb |-> s]
    BY <1>2, <1>7
  <1>9. [mem EXCEPT !.free[k][g] = mem.free[k][g] + d] = w
    BY <1>1, <1>3, <1>7
  <1>10. [w EXCEPT !.sb = s2] = [free |-> f2, sb |-> s2]
    BY <1>8
  <1>11. [w EXCEPT !.sb[k] = Max({w.sb[k] + d, 0})] = [w EXCEPT !.sb = s2]
    BY <1>4, <1>8
  <1>12. Counted(k, g, d) = [w EXCEPT !.sb[k] = Max({w.sb[k] + d, 0})]
    BY <1>9 DEF Counted
  <1>13. CountedInGroup(k, g, d) = w
    BY <1>9 DEF CountedInGroup
  <1>14. Counted(k, g, d) = [free |-> f2, sb |-> s2]
    BY <1>10, <1>11, <1>12
  <1> QED
    BY <1>1, <1>3, <1>4, <1>5, <1>6, <1>8, <1>13, <1>14 DEF Counters, Bumped, Totalled

\* The group's descriptor and the superblock, written from memory.
LEMMA WrittenBack ==
    ASSUME NEW v \in Layout, NEW m \in Counters, NEW g \in Groups
    PROVE  /\ WriteBackCounts(v, g, m) \in Layout
           /\ WriteBackCounts(v, g, m).bitmap = v.bitmap
           /\ WriteBackCounts(v, g, m).free = Written(v.free, g, m.free)
           /\ WriteBackCounts(v, g, m).sb = m.sb
  <1>1. PICK f : f = [k \in Kinds |-> [v.free[k] EXCEPT ![g] = m.free[k][g]]]
    OBVIOUS
  <1>2. f \in [Kinds -> [Groups -> Int]] /\ m.sb \in [Kinds -> Int]
    <2>1. \A k \in Kinds : [v.free[k] EXCEPT ![g] = m.free[k][g]] \in [Groups -> Int]
      BY DEF Layout, Counters
    <2> QED
      BY <1>1, <2>1 DEF Counters
  <1>3. PICK w : w = [v EXCEPT !.free = f]
    OBVIOUS
  <1>4. w = [bitmap |-> v.bitmap, free |-> f, sb |-> v.sb]
    BY <1>3 DEF Layout
  <1>5. [w EXCEPT !.sb = m.sb] = [bitmap |-> v.bitmap, free |-> f, sb |-> m.sb]
    BY <1>4
  <1>6. WriteBackCounts(v, g, m) = [w EXCEPT !.sb = m.sb]
    BY <1>1, <1>3 DEF WriteBackCounts
  <1>7. v.bitmap \in [Kinds -> [Groups -> SUBSET Bits]]
    BY DEF Layout
  <1> QED
    BY <1>1, <1>2, <1>5, <1>6, <1>7 DEF Layout, Written

\* Layout w is v with bitmap S for kind k of group g.
WithBitmap(w, v, k, g, S) ==
    /\ w \in Layout /\ w.bitmap = Replaced(v.bitmap, k, g, S)
    /\ w.free = v.free /\ w.sb = v.sb

\* A changed bitmap in a layout.
LEMMA BitmapInLayout ==
    ASSUME NEW v \in Layout, NEW k \in Kinds, NEW g \in Groups, NEW S \in SUBSET Bits, NEW w,
           w = Rewritten(v, k, g, S)
    PROVE  WithBitmap(w, v, k, g, S)
  <1>1. PICK m : m = [v.bitmap EXCEPT ![k][g] = S]
    OBVIOUS
  <1>2. m \in [Kinds -> [Groups -> SUBSET Bits]]
    <2>1. v.bitmap \in [Kinds -> [Groups -> SUBSET Bits]]
      BY DEF Layout
    <2>2. [v.bitmap[k] EXCEPT ![g] = S] \in [Groups -> SUBSET Bits]
      BY <2>1
    <2> QED
      BY <1>1, <2>1, <2>2
  <1>3. [v EXCEPT !.bitmap = m] = [bitmap |-> m, free |-> v.free, sb |-> v.sb]
    BY DEF Layout
  <1>4. w = [v EXCEPT !.bitmap = m]
    BY <1>1 DEF Rewritten
  <1> QED
    BY <1>1, <1>2, <1>3, <1>4 DEF Layout, Replaced, WithBitmap

\* The step of AllocateBlock, AllocateInode, FreeBlock and FreeInode: bitmap and
\* counts change together, in memory and in the transaction.
LEMMA CallKeepsCounts ==
    ASSUME mem \in Counters, view \in Layout, NEW k \in Kinds, NEW g \in Groups,
           NEW S \in SUBSET Bits, NEW d \in Int, Clear(S) = Clear(view.bitmap[k][g]) + d,
           mem' = Counted(k, g, d),
           view' = WriteBackCounts([view EXCEPT !.bitmap[k][g] = S], g, mem')
    PROVE  /\ mem' \in Counters /\ view' \in Layout
           /\ mem = Loaded(view) /\ CountsRight(view.bitmap, view.free, view.sb) =>
                mem' = Loaded(view') /\ CountsRight(view'.bitmap, view'.free, view'.sb)
  <1>1. PICK w, m, v, m2, v2 : w = [view EXCEPT !.bitmap[k][g] = S]
                              /\ m = mem /\ v = view /\ m2 = mem' /\ v2 = view'
    OBVIOUS
  <1>2. /\ m2 \in Counters
        /\ m2.free = Bumped(m.free, k, g, d) /\ m2.sb = Totalled(m.sb, k, d)
    <2>1. mem' = Counted(k, g, d)
      OBVIOUS
    <2>2. /\ Counted(k, g, d) \in Counters
          /\ Counted(k, g, d).free = Bumped(mem.free, k, g, d)
          /\ Counted(k, g, d).sb = Totalled(mem.sb, k, d)
      BY CountedFields, Zenon
    <2> QED
      BY <1>1, <2>1, <2>2, Zenon
  <1>3. w \in Layout /\ w.bitmap = Replaced(v.bitmap, k, g, S) /\ w.free = v.free /\ w.sb = v.sb
    <2>1. v \in Layout /\ w = Rewritten(v, k, g, S)
      BY <1>1 DEF Rewritten
    <2>2. WithBitmap(w, v, k, g, S)
      BY <2>1, BitmapInLayout, Zenon
    <2> QED
      BY <2>2 DEF WithBitmap
  <1>4. v2 = WriteBackCounts(w, g, m2)
    BY <1>1
  <1>5. /\ v2 \in Layout /\ v2.bitmap = w.bitmap /\ v2.sb = m2.sb
        /\ v2.free = Written(w.free, g, m2.free)
    BY <1>2, <1>3, <1>4, WrittenBack, Zenon
  <1>6. ASSUME m = Loaded(v), CountsRight(v.bitmap, v.free, v.sb)
        PROVE  m2 = Loaded(v2) /\ CountsRight(v2.bitmap, v2.free, v2.sb)
    <2>1. m.free = v.free /\ m.sb = v.sb /\ m.free \in [Kinds -> [Groups -> Int]]
          /\ m.sb \in [Kinds -> Int] /\ v.bitmap \in Bitmaps
      BY <1>1, <1>6 DEF Loaded, Layout, Bitmaps
    <2>2. v2.free = m2.free
      <3>1. ASSUME NEW j \in Kinds
            PROVE  [m.free[j] EXCEPT ![g] = m2.free[j][g]] = m2.free[j]
        <4>1. CASE j # k
          BY <1>2, <2>1, <4>1 DEF Bumped
        <4>2. CASE j = k
          BY <1>2, <2>1, <4>2 DEF Bumped
        <4> QED
          BY <4>1, <4>2
      <3>2. v2.free = [j \in Kinds |-> m2.free[j]]
        BY <1>3, <1>5, <2>1, <3>1 DEF Written
      <3>3. m2.free = [j \in Kinds |-> m2.free[j]]
        BY <1>2 DEF Counters
      <3> QED
        BY <3>2, <3>3
    <2>3. m2 = [free |-> m2.free, sb |-> m2.sb]
      BY <1>2 DEF Counters
    <2>4. CountsRight(v.bitmap, m.free, m.sb)
      BY <1>6, <2>1
    <2>5. Clear(S) = Clear(v.bitmap[k][g]) + d
      BY <1>1
    <2>6. PICK b, b2, f, f2, s, s2 : /\ b = v.bitmap /\ b2 = v2.bitmap /\ f = m.free /\ f2 = m2.free
                                     /\ s = m.sb /\ s2 = m2.sb
      OBVIOUS
    <2>7. CountsRight(b2, f2, s2)
      <3>1. /\ b \in Bitmaps /\ f \in [Kinds -> [Groups -> Int]] /\ s \in [Kinds -> Int]
            /\ CountsRight(b, f, s) /\ Clear(S) = Clear(b[k][g]) + d
        BY <2>1, <2>4, <2>5, <2>6
      <3>2. /\ b2 = [b EXCEPT ![k][g] = S] /\ f2 = [f EXCEPT ![k][g] = f[k][g] + d]
            /\ s2 = [s EXCEPT ![k] = Max({s[k] + d, 0})]
        BY <1>2, <1>3, <1>5, <2>6 DEF Bumped, Totalled, Replaced
      <3> QED
        BY <3>1, <3>2, CountsFollow, Zenon
    <2> QED
      BY <1>5, <2>2, <2>3, <2>6, <2>7 DEF Loaded
  <1> QED
    BY <1>1, <1>2, <1>5, <1>6


\* What AllocateBlock and AllocateInode find.
LEMMA FoundFree ==
    ASSUME NEW k \in Kinds, Eligible(k) # {}
    PROVE  LET g == Min(Eligible(k)) IN
           g \in Groups /\ Min(Candidates(k, g)) \in Bits /\ Min(Candidates(k, g)) \notin view.bitmap[k][g]
  <1>1. PICK g : g = Min(Eligible(k))
    OBVIOUS
  <1>2. g \in Eligible(k)
    <2>1. Eligible(k) \in SUBSET Nat
      BY GroupsAssumption DEF Eligible, Groups
    <2> QED
      BY <1>1, <2>1, MinIsSmallest
  <1>3. Candidates(k, g) \in SUBSET Nat /\ Candidates(k, g) # {} /\ g \in Groups
    BY <1>2, GroupsAssumption DEF Candidates, Bits, Eligible
  <1>4. Min(Candidates(k, g)) \in Candidates(k, g)
    BY <1>3, MinIsSmallest
  <1>5. Min(Candidates(k, g)) \in Bits /\ Min(Candidates(k, g)) \notin view.bitmap[k][g]
    BY <1>4 DEF Candidates
  <1> QED
    BY <1>1, <1>3, <1>5

\* A call keeps the types and the counts.
LEMMA AllocateSettled ==
    ASSUME TypeOK, Settled, NEW k \in Kinds, Allocate(k)
    PROVE  TypeOK' /\ Settled'
  <1>1. PICK g, b, S : /\ g = Min(Eligible(k)) /\ b = Min(Candidates(k, g))
                       /\ S = view.bitmap[k][g] \union {b}
    OBVIOUS
  <1>2. g \in Groups /\ b \in Bits /\ b \notin view.bitmap[k][g]
    BY <1>1, FoundFree DEF Allocate
  <1>3. mem \in Counters /\ view \in Layout
    BY DEF TypeOK, Counters
  <1>4. view.bitmap[k][g] \in SUBSET Bits
    BY <1>2, <1>3 DEF Layout
  <1>5. S \in SUBSET Bits /\ Clear(S) = Clear(view.bitmap[k][g]) + (-1) /\ -1 \in Int
    BY <1>1, <1>2, <1>4, ClearChanges
  <1>6. /\ mem' = Counted(k, g, -1)
        /\ view' = WriteBackCounts([view EXCEPT !.bitmap[k][g] = S], g, mem')
    BY <1>1 DEF Allocate
  <1>7. /\ mem' \in Counters /\ view' \in Layout
        /\ mem = Loaded(view) /\ CountsRight(view.bitmap, view.free, view.sb) =>
             mem' = Loaded(view') /\ CountsRight(view'.bitmap, view'.free, view'.sb)
    BY <1>2, <1>3, <1>5, <1>6, CallKeepsCounts
  <1>8. /\ mode = "op" /\ mode' = "op" /\ calls < MaxCalls /\ calls' = calls + 1 /\ disk' = disk
        /\ failures' = failures /\ torn' = torn /\ fsck' = fsck
    BY DEF Allocate, MountUnchanged
  <1>9. calls' \in 0 .. MaxCalls /\ calls' # 0
    BY <1>8, BoundsAssumption DEF TypeOK
  <1>10. owned' \in [Kinds -> SUBSET Nat] /\ ownedDisk' \in [Kinds -> SUBSET Nat]
    <2>1. Number(k, g, b) \in Nat /\ owned' = [owned EXCEPT ![k] = owned[k] \union {Number(k, g, b)}]
      BY <1>1, <1>2, NumberOfBit DEF Allocate
    <2> QED
      BY <2>1 DEF TypeOK, Allocate, MountUnchanged
  <1>11. TypeOK'
    BY <1>7, <1>8, <1>9, <1>10 DEF TypeOK, Counters
  <1> QED
    BY <1>7, <1>8, <1>9, <1>11 DEF Settled

LEMMA FreeSettled ==
    ASSUME TypeOK, Settled, NEW k \in Kinds, NEW n \in owned[k], Free(k, n)
    PROVE  TypeOK' /\ Settled'
  <1>1. PICK g, b, S : /\ g = GroupOf(k, n) /\ b = BitOf(k, n)
                       /\ S = view.bitmap[k][g] \ {b}
    OBVIOUS
  <1>2. g \in Groups /\ b \in view.bitmap[k][g]
    BY <1>1 DEF Free
  <1>3. mem \in Counters /\ view \in Layout
    BY DEF TypeOK, Counters
  <1>4. view.bitmap[k][g] \in SUBSET Bits
    BY <1>2, <1>3 DEF Layout
  <1>5. S \in SUBSET Bits /\ Clear(S) = Clear(view.bitmap[k][g]) + 1 /\ 1 \in Int
    BY <1>1, <1>2, <1>4, ClearChanges
  <1>6. /\ mem' = Counted(k, g, 1)
        /\ view' = WriteBackCounts([view EXCEPT !.bitmap[k][g] = S], g, mem')
    BY <1>1 DEF Free
  <1>7. /\ mem' \in Counters /\ view' \in Layout
        /\ mem = Loaded(view) /\ CountsRight(view.bitmap, view.free, view.sb) =>
             mem' = Loaded(view') /\ CountsRight(view'.bitmap, view'.free, view'.sb)
    BY <1>2, <1>3, <1>5, <1>6, CallKeepsCounts
  <1>8. /\ mode = "op" /\ mode' = "op" /\ calls < MaxCalls /\ calls' = calls + 1 /\ disk' = disk
        /\ failures' = failures /\ torn' = torn /\ fsck' = fsck
    BY DEF Free, MountUnchanged
  <1>9. calls' \in 0 .. MaxCalls /\ calls' # 0
    BY <1>8, BoundsAssumption DEF TypeOK
  <1>10. owned' \in [Kinds -> SUBSET Nat] /\ ownedDisk' \in [Kinds -> SUBSET Nat]
    BY DEF TypeOK, Free, MountUnchanged
  <1>11. TypeOK'
    BY <1>7, <1>8, <1>9, <1>10 DEF TypeOK, Counters
  <1> QED
    BY <1>7, <1>8, <1>9, <1>11 DEF Settled

\* The calls that fail: the counts are off from then on, the types are not.
LEMMA FailuresSettled ==
    ASSUME TypeOK, Settled, NEW k \in Kinds,
           \/ AllocateFails(k)
           \/ \E n \in owned[k] : FreeUncounted(k, n)
    PROVE  TypeOK' /\ Settled'
  <1>1. mem \in Counters /\ view \in Layout /\ disk \in Layout /\ failures \in Nat
    BY DEF TypeOK, Counters
  <1>2. failures' = failures + 1 /\ disk' = disk /\ torn' = torn /\ fsck' = fsck
    BY DEF AllocateFails, FreeUncounted
  <1>3. owned' \in [Kinds -> SUBSET Nat] /\ ownedDisk' \in [Kinds -> SUBSET Nat]
    BY DEF TypeOK, AllocateFails, FreeUncounted
  <1>4. failures' # 0 /\ failures' \in Nat
    BY <1>1, <1>2
  <1>5. CASE AllocateFails(k)
    <2>1. Min(Eligible(k)) \in Groups
      BY <1>5, FoundFree DEF AllocateFails
    <2>2. mem' \in Counters
      BY <1>1, <1>5, <2>1, CountedFields DEF AllocateFails
    <2>3. mode' = "up" /\ view' = disk' /\ calls' = 0
      BY <1>5 DEF AllocateFails
    <2>4. TypeOK'
      BY <1>1, <1>2, <1>3, <1>4, <2>2, <2>3, BoundsAssumption DEF TypeOK, Counters
    <2> QED
      BY <1>4, <2>3, <2>4 DEF Settled
  <1>6. ASSUME NEW n \in owned[k], FreeUncounted(k, n)
        PROVE  TypeOK' /\ Settled'
    <2>1. PICK g, S : g = GroupOf(k, n) /\ S = view.bitmap[k][g] \ {BitOf(k, n)}
      OBVIOUS
    <2>2. g \in Groups /\ mem' = CountedInGroup(k, g, 1) /\ view' = [view EXCEPT !.bitmap[k][g] = S]
      BY <1>6, <2>1 DEF FreeUncounted
    <2>3. mem' \in Counters
      BY <1>1, <2>2, CountedFields
    <2>4. view' \in Layout
      <3>1. S \in SUBSET Bits
        BY <1>1, <2>1, <2>2 DEF Layout
      <3>2. PICK v, w : v = view /\ w = view'
        OBVIOUS
      <3>3. v \in Layout /\ w = Rewritten(v, k, g, S)
        BY <1>1, <2>2, <3>2 DEF Rewritten
      <3>4. WithBitmap(w, v, k, g, S)
        BY <2>2, <3>1, <3>3, BitmapInLayout, Zenon
      <3> QED
        BY <3>2, <3>4, Zenon DEF WithBitmap
    <2>5. mode = "op" /\ mode' = "op" /\ calls < MaxCalls /\ calls' = calls + 1
      BY <1>6 DEF FreeUncounted
    <2>6. calls' \in 0 .. MaxCalls /\ calls' # 0
      BY <2>5, BoundsAssumption DEF TypeOK
    <2>7. TypeOK'
      BY <1>1, <1>2, <1>3, <1>4, <2>3, <2>4, <2>5, <2>6 DEF TypeOK, Counters
    <2> QED
      BY <1>4, <2>5, <2>6, <2>7 DEF Settled
  <1> QED
    BY <1>5, <1>6


\* A freshly made file system has the right counts.
LEMMA FormattedRight ==
    /\ Formatted \in Layout /\ Loaded(Formatted) \in Counters
    /\ CountsRight(Formatted.bitmap, Formatted.free, Formatted.sb)
  <1>1. PICK f : f = [k \in Kinds |-> [g \in Groups |-> Clear(InitUsed[k][g])]]
    OBVIOUS
  <1>2. PICK s : s = [k \in Kinds |-> SumOf(f[k])]
    OBVIOUS
  <1>3. Formatted = [bitmap |-> InitUsed, free |-> f, sb |-> s]
    BY <1>1, <1>2 DEF Formatted
  <1>4. \A k \in Kinds : \A g \in Groups : Clear(InitUsed[k][g]) \in Nat
    BY InitUsedAssumption, ClearIsNat
  <1>5. f \in [Kinds -> [Groups -> Nat]] /\ f \in [Kinds -> [Groups -> Int]]
    BY <1>1, <1>4
  <1>6. s \in [Kinds -> Int]
    <2>1. \A k \in Kinds : f[k] \in [Groups -> Nat]
      BY <1>5
    <2>2. \A k \in Kinds : SumOf(f[k]) \in Int
      BY <2>1, SumBounds
    <2> QED
      BY <1>2, <2>2
  <1>7. Formatted \in Layout /\ Loaded(Formatted) \in Counters
    BY <1>3, <1>5, <1>6, InitUsedAssumption DEF Layout, Loaded, Counters
  <1>8. CountsRight(InitUsed, f, s)
    BY <1>1, <1>2 DEF CountsRight
  <1> QED
    BY <1>3, <1>7, <1>8

LEMMA InitSettled == Init => TypeOK /\ Settled
  <1> SUFFICES ASSUME Init PROVE TypeOK /\ Settled
    OBVIOUS
  <1>1. None \in [Kinds -> SUBSET Nat]
    BY DEF None
  <1>2. TypeOK
    <2>1. disk \in Layout /\ view \in Layout /\ mem \in Counters
      BY FormattedRight, Zenon DEF Init
    <2>2. calls \in 0 .. MaxCalls /\ failures \in Nat
      BY BoundsAssumption DEF Init
    <2>3. torn \in BOOLEAN /\ fsck \in BOOLEAN /\ mode \in {"down", "up", "op"}
      BY Zenon DEF Init
    <2>4. owned \in [Kinds -> SUBSET Nat] /\ ownedDisk \in [Kinds -> SUBSET Nat]
      BY <1>1, Zenon DEF Init
    <2> QED
      BY <2>1, <2>2, <2>3, <2>4, Zenon DEF TypeOK, Counters
  <1> QED
    BY <1>2, FormattedRight DEF Init, Settled

\* What fsck --fix writes are numbers (whether they are the right ones or not).
LEMMA FsckFixSettled ==
    ASSUME TypeOK, Settled, FsckFix
    PROVE  TypeOK' /\ Settled'
  <1>1. PICK f, s : /\ f = [k \in Kinds |-> [g \in Groups |-> expectedFree(disk.bitmap[k][g])]]
                    /\ s = [k \in Kinds |-> SumOf(f[k])]
    OBVIOUS
  <1>2. disk \in Layout
    BY DEF TypeOK
  <1>3. \A k \in Kinds : \A g \in Groups : expectedFree(disk.bitmap[k][g]) \in Int
    <2>1. \A k \in Kinds : \A g \in Groups : disk.bitmap[k][g] \in SUBSET Bits
      BY <1>2 DEF Layout
    <2> QED
      BY <2>1, GroupsAssumption, ClearIsNat DEF expectedFree
  <1>4. f \in [Kinds -> [Groups -> Int]]
    BY <1>1, <1>3
  <1>5. s \in [Kinds -> Int]
    <2>1. \A k \in Kinds : SumOf(f[k]) \in Int
      <3>1. SUFFICES ASSUME NEW k \in Kinds PROVE SumOf(f[k]) \in Int
        OBVIOUS
      <3>2. PICK h : h = f[k] /\ h \in [Groups -> Int]
        BY <1>4
      <3>3. PICK t : PartialSums(t, h, GroupCount) /\ SumOf(h) = t[GroupCount]
        BY <3>2, SumIsLast
      <3> QED
        BY <3>2, <3>3, GroupsAssumption DEF PartialSums
    <2> QED
      BY <1>1, <2>1
  <1>6. disk' = [disk EXCEPT !.free = f, !.sb = s]
    BY <1>1 DEF FsckFix
  <1>7. disk' = [bitmap |-> disk.bitmap, free |-> f, sb |-> s]
    <2>1. PICK w : w = [disk EXCEPT !.free = f]
      OBVIOUS
    <2>2. w = [bitmap |-> disk.bitmap, free |-> f, sb |-> disk.sb]
      BY <1>2, <2>1 DEF Layout
    <2>3. disk' = [w EXCEPT !.sb = s]
      BY <1>6, <2>1
    <2> QED
      BY <2>2, <2>3
  <1>8. disk' \in Layout /\ Loaded(disk') \in Counters
    BY <1>2, <1>4, <1>5, <1>7 DEF Layout, Loaded, Counters
  <1>9. view' = disk' /\ mem' = Loaded(disk') /\ fsck' = TRUE
        /\ UNCHANGED <<mode, calls, failures, torn, owned, ownedDisk>>
    BY DEF FsckFix
  <1>10. TypeOK'
    BY <1>8, <1>9 DEF TypeOK, Counters
  <1> QED
    BY <1>9, <1>10 DEF Settled

\* Destroy writes totals that are on the device already, unless something failed.
LEMMA UnmountSettled ==
    ASSUME TypeOK, Settled, Unmount
    PROVE  TypeOK' /\ Settled'
  <1>1. disk \in Layout /\ mem \in Counters
    BY DEF TypeOK, Counters
  <1>2. disk' = [bitmap |-> disk.bitmap, free |-> disk.free, sb |-> mem.sb]
    BY <1>1 DEF Unmount, Layout
  <1>3. disk' \in Layout /\ Loaded(disk') \in Counters
    BY <1>1, <1>2 DEF Layout, Loaded, Counters
  <1>4. /\ mode = "up" /\ mode' = "down" /\ view' = disk' /\ mem' = Loaded(disk')
        /\ UNCHANGED <<calls, failures, torn, fsck, owned, ownedDisk>>
    BY DEF Unmount
  <1>5. TypeOK'
    BY <1>3, <1>4 DEF TypeOK, Counters
  <1>6. ASSUME failures = 0, ~fsck
        PROVE  CountsRight(disk'.bitmap, disk'.free, disk'.sb)
    <2>1. calls = 0 /\ view = disk
      BY <1>4 DEF Settled
    <2>2. mem = Loaded(disk) /\ CountsRight(disk.bitmap, disk.free, disk.sb)
      BY <1>4, <1>6, <2>1 DEF Settled
    <2>3. mem.sb = disk.sb
      BY <2>2 DEF Loaded
    <2> QED
      BY <1>2, <2>2, <2>3
  <1> QED
    BY <1>4, <1>5, <1>6 DEF Settled

\* The other steps copy whole layouts.
LEMMA CopiesSettled ==
    ASSUME TypeOK, Settled, Begin \/ Commit \/ Rollback \/ FreeLeaks \/ Mount \/ Crash
    PROVE  TypeOK' /\ Settled'
  <1>1. disk \in Layout => Loaded(disk) \in Counters
    BY DEF Layout, Loaded, Counters
  <1>2. CASE Begin
    <2>1. TypeOK'
      BY <1>2, BoundsAssumption DEF Begin, MountUnchanged, TypeOK
    <2> QED
      BY <1>2, <2>1 DEF Begin, MountUnchanged, Settled
  <1>3. CASE Commit
    <2>1. TypeOK'
      BY <1>3, BoundsAssumption DEF Commit, TypeOK
    <2> QED
      BY <1>3, <2>1 DEF Commit, Settled
  <1>4. CASE Rollback
    <2>1. failures' \in Nat /\ (failures' = 0 => failures = 0 /\ calls = 0)
      BY <1>4 DEF Rollback, TypeOK
    <2>2. TypeOK'
      BY <1>4, <2>1, BoundsAssumption DEF Rollback, TypeOK
    <2> QED
      BY <1>4, <2>1, <2>2 DEF Rollback, Settled
  <1>5. CASE FreeLeaks
    <2>1. failures' \in Nat /\ failures' # 0 /\ calls' \in 0 .. MaxCalls /\ calls' # 0
      BY <1>5, BoundsAssumption DEF FreeLeaks, TypeOK
    <2>2. TypeOK'
      BY <1>5, <2>1 DEF FreeLeaks, TypeOK
    <2> QED
      BY <1>5, <2>1, <2>2 DEF FreeLeaks, Settled
  <1>6. CASE Mount
    <2>1. TypeOK'
      BY <1>1, <1>6 DEF Mount, TypeOK, Counters
    <2> QED
      BY <1>6, <2>1 DEF Mount, Settled
  <1>7. CASE Crash
    <2>1. TypeOK'
      BY <1>1, <1>7, BoundsAssumption DEF Crash, MountUnchanged, TypeOK, Counters
    <2> QED
      BY <1>7, <2>1 DEF Crash, MountUnchanged, Settled
  <1> QED
    BY <1>2, <1>3, <1>4, <1>5, <1>6, <1>7

\* A release that is refused changes only who owns what.
LEMMA RefusedSettled ==
    ASSUME TypeOK, Settled, NEW k \in Kinds, NEW n \in owned[k], FreeRefused(k, n)
    PROVE  TypeOK' /\ Settled'
  <1>1. calls' \in 0 .. MaxCalls /\ calls' # 0 /\ mode = "op" /\ mode' = "op"
    BY BoundsAssumption DEF FreeRefused, TypeOK
  <1>2. owned' \in [Kinds -> SUBSET Nat]
    BY DEF FreeRefused, TypeOK
  <1>3. TypeOK'
    BY <1>1, <1>2 DEF FreeRefused, MountUnchanged, TypeOK
  <1> QED
    BY <1>1, <1>3 DEF FreeRefused, MountUnchanged, Settled

\* A device with some blocks new and some old is still a device ...
LEMMA MixedInLayout ==
    ASSUME disk \in Layout, view \in Layout, NEW W
    PROVE  Mixed(W) \in Layout
  <1>1. PICK b, f, s :
            /\ b = [k \in Kinds |-> [g \in Groups |->
                    IF <<"bitmap", k, g>> \in W THEN view.bitmap[k][g] ELSE disk.bitmap[k][g]]]
            /\ f = [k \in Kinds |-> [g \in Groups |->
                    IF <<"descriptor", g>> \in W THEN view.free[k][g] ELSE disk.free[k][g]]]
            /\ s = IF <<"superblock">> \in W THEN view.sb ELSE disk.sb
    OBVIOUS
  <1>2. Mixed(W) = [bitmap |-> b, free |-> f, sb |-> s]
    BY <1>1 DEF Mixed
  <1>3. b \in [Kinds -> [Groups -> SUBSET Bits]]
    BY <1>1 DEF Layout
  <1>4. f \in [Kinds -> [Groups -> Int]]
    BY <1>1 DEF Layout
  <1>5. s \in [Kinds -> Int]
    BY <1>1 DEF Layout
  <1> QED
    BY <1>2, <1>3, <1>4, <1>5 DEF Layout

\* ... which is all that can be said of a torn write back.
LEMMA TornSettled ==
    ASSUME TypeOK, Settled, CommitTorn \/ CrashInCommit
    PROVE  TypeOK' /\ Settled'
  <1>1. WriteBackCut
    BY DEF CommitTorn, CrashInCommit
  <1>2. disk' \in Layout /\ view' = disk' /\ calls' = 0
    <2>1. PICK W : disk' = Mixed(W)
      BY <1>1 DEF WriteBackCut
    <2> QED
      BY <1>1, <2>1, MixedInLayout DEF WriteBackCut, TypeOK
  <1>3. Loaded(disk') \in Counters
    BY <1>2 DEF Layout, Loaded, Counters
  <1>4. owned' \in [Kinds -> SUBSET Nat] /\ ownedDisk' \in [Kinds -> SUBSET Nat]
    <2>1. PICK own \in [Kinds -> SUBSET UNION {owned[k] \union ownedDisk[k] : k \in Kinds}] :
            ownedDisk' = own /\ owned' = own
      BY <1>1 DEF WriteBackCut
    <2>2. UNION {owned[k] \union ownedDisk[k] : k \in Kinds} \subseteq Nat
      BY DEF TypeOK
    <2>3. own \in [Kinds -> SUBSET Nat]
      BY <2>2
    <2> QED
      BY <2>1, <2>3
  <1>5. failures' \in Nat /\ failures' # 0 /\ torn' = TRUE /\ fsck' = fsck
    BY <1>1 DEF WriteBackCut, TypeOK
  <1>6. mode' \in {"up", "down"} /\ mem' \in Counters
    BY <1>3 DEF CommitTorn, CrashInCommit, TypeOK, Counters
  <1>7. calls' \in 0 .. MaxCalls
    BY <1>2, BoundsAssumption
  <1>8. TypeOK'
    BY <1>2, <1>4, <1>5, <1>6, <1>7 DEF TypeOK, Counters
  <1> QED
    BY <1>2, <1>5, <1>8 DEF Settled

LEMMA NextSettled == TypeOK /\ Settled /\ [Next]_vars => TypeOK' /\ Settled'
  <1> SUFFICES ASSUME TypeOK, Settled, [Next]_vars PROVE TypeOK' /\ Settled'
    OBVIOUS
  <1>2. ASSUME NEW k \in Kinds, Allocate(k)
        PROVE  TypeOK' /\ Settled'
    BY <1>2, AllocateSettled
  <1>3. ASSUME NEW k \in Kinds, NEW n \in owned[k], Free(k, n)
        PROVE  TypeOK' /\ Settled'
    BY <1>3, FreeSettled
  <1>4. ASSUME NEW k \in Kinds, AllocateFails(k) \/ \E n \in owned[k] : FreeUncounted(k, n)
        PROVE  TypeOK' /\ Settled'
    BY <1>4, FailuresSettled
  <1>5. CASE UNCHANGED vars
    BY <1>5 DEF vars, TypeOK, Settled
  <1>6. ASSUME NEW k \in Kinds, NEW n \in owned[k], FreeRefused(k, n)
        PROVE  TypeOK' /\ Settled'
    BY <1>6, RefusedSettled
  <1> QED
    BY <1>2, <1>3, <1>4, <1>5, <1>6, TornSettled, CopiesSettled, UnmountSettled, FsckFixSettled
       DEF Next, Operation

\* The allocator's state keeps its types, after a torn write back too: no count
\* becomes anything but a number and no bit behind the last one of a group is ever
\* set.
THEOREM TypeCorrect == Spec => []TypeOK
  BY InitSettled, NextSettled, PTL DEF Spec

\* As long as no call and no operation after a call fails, no write back is cut
\* short by an error or a crash and fsck --fix has not run, the bitmaps, the groups'
\* free counts and the superblock's totals agree, in memory and on the device, at
\* every step and across remounts and crashes outside a write back: for any number
\* and size of groups.
THEOREM CountsCorrect == Spec => []CountsExact
  <1>1. Settled => CountsExact
    <2>1. SUFFICES ASSUME Settled, failures = 0, ~fsck
                   PROVE  /\ CountsRight(disk.bitmap, disk.free, disk.sb)
                          /\ mode # "down" => CountsRight(view.bitmap, mem.free, mem.sb)
      BY DEF CountsExact
    <2>2. mem = Loaded(view) => mem.free = view.free /\ mem.sb = view.sb
      BY DEF Loaded
    <2> QED
      BY <2>1, <2>2 DEF Settled
  <1> QED
    BY <1>1, InitSettled, NextSettled, PTL DEF Spec
=============================================================================

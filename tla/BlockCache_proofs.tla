-------------------------- MODULE BlockCache_proofs -------------------------
(***************************************************************************)
(* What updateCache of vfs/redolog.go keeps, for lists of any length and   *)
(* blocks of any size: the order of the list (WidestFirst) and, when the   *)
(* requests are nested or disjoint, the agreement of whatever lookupCache  *)
(* can find with the device (FreshOrShadowed).                             *)
(***************************************************************************)
EXTENDS BlockCache, Minimum

\* A function on 1 .. n is a list of length n.
LEMMA ListLength ==
    ASSUME NEW n \in Nat, NEW c, c = [i \in 1 .. n |-> c[i]]
    PROVE  Len(c) = n /\ DOMAIN c = 1 .. n
  OBVIOUS

\* The block updateCache moves: it covers the request and none before it does.
LEMMA FirstCovering ==
    ASSUME NEW n \in Nat, NEW c, c = [i \in 1 .. n |-> c[i]], NEW R, CacheHit(c, R)
    PROVE  /\ Min(Covering(c, R)) \in 1 .. n
           /\ R \subseteq DOMAIN c[Min(Covering(c, R))]
           /\ \A k \in 1 .. n : k < Min(Covering(c, R)) => ~(R \subseteq DOMAIN c[k])
  <1>0. DOMAIN c = 1 .. n
    BY ListLength
  <1>1. Covering(c, R) \in SUBSET Nat /\ Covering(c, R) # {}
    <2>1. Covering(c, R) \subseteq 1 .. n
      BY <1>0 DEF Covering
    <2>2. 1 .. n \subseteq Nat
      OBVIOUS
    <2>3. Covering(c, R) # {}
      BY DEF CacheHit
    <2> QED
      BY <2>1, <2>2, <2>3, Zenon
  <1>2. Min(Covering(c, R)) \in Covering(c, R)
        /\ \A k \in Covering(c, R) : Min(Covering(c, R)) <= k
    BY <1>1, MinIsSmallest
  <1>3. \A k : k \in Covering(c, R) <=> k \in 1 .. n /\ R \subseteq DOMAIN c[k]
    BY <1>0 DEF Covering
  <1>4. \A k \in 1 .. n : k < Min(Covering(c, R)) => k \notin Covering(c, R)
    BY <1>2, <1>3
  <1> QED
    BY <1>2, <1>3, <1>4

-----------------------------------------------------------------------------
(* The two things updateCache can do to a list of n blocks *)

IsList(c, n) == c = [k \in 1 .. n |-> c[k]]

\* e is c with block i moved to the front, now holding what b holds.
Moved(c, e, n, i, b) ==
    /\ IsList(e, n) /\ e[1] = b
    /\ \A k \in 2 .. i : e[k] = c[k - 1]
    /\ \A k \in i + 1 .. n : e[k] = c[k]

\* e is c with b put before it, cut to m blocks.
Pushed(c, e, m, b) ==
    /\ IsList(e, m) /\ e[1] = b
    /\ \A k \in 2 .. m : e[k] = c[k - 1]

\* MoveToFront is such a move.
LEMMA MoveToFrontMoves ==
    ASSUME NEW n \in Nat, NEW c, IsList(c, n), NEW i \in 1 .. n, NEW b
    PROVE  Moved(c, MoveToFront(c, i, b), n, i, b)
  BY ListLength DEF MoveToFront, Moved, IsList

\* PushFront never makes the list longer than slots.
LEMMA PushFrontPushes ==
    ASSUME NEW n \in Nat, NEW c, IsList(c, n), NEW slots \in Nat \ {0}, n <= slots, NEW b
    PROVE  \E m \in 1 .. slots : m <= n + 1 /\ Pushed(c, PushFront(c, b, slots), m, b)
  <1> DEFINE m == IF n >= slots THEN n ELSE n + 1
  <1>1. m \in 1 .. slots /\ m <= n + 1
    OBVIOUS
  <1>2. Pushed(c, PushFront(c, b, slots), m, b)
    BY ListLength DEF PushFront, Pushed, IsList
  <1> QED
    BY <1>1, <1>2

\* Copying words over a block does not change which addresses it covers.
LEMMA PatchDomain ==
    ASSUME NEW b, NEW d
    PROVE  /\ DOMAIN Patch(b, d) = DOMAIN b
           /\ \A a \in DOMAIN b : Patch(b, d)[a] = IF a \in DOMAIN d THEN d[a] ELSE b[a]
  BY DEF Patch

\* updateCache moves the first block that covers the request, patched, to the
\* front; if there is none it puts the request there as a block of its own.
LEMMA UpdateCases ==
    ASSUME NEW n \in Nat, NEW c, IsList(c, n), NEW d, NEW slots \in Nat \ {0}, n <= slots
    PROVE  \/ \E i \in 1 .. n :
                /\ DOMAIN d \subseteq DOMAIN c[i]
                /\ \A k \in 1 .. n : k < i => ~(DOMAIN d \subseteq DOMAIN c[k])
                /\ Moved(c, updateCache(c, d, slots), n, i, Patch(c[i], d))
           \/ /\ \A k \in 1 .. n : ~(DOMAIN d \subseteq DOMAIN c[k])
              /\ \E m \in 1 .. slots : m <= n + 1 /\ Pushed(c, updateCache(c, d, slots), m, d)
  <1>1. CASE CacheHit(c, DOMAIN d)
    <2>1. PICK i : i = Min(Covering(c, DOMAIN d))
      OBVIOUS
    <2>2. i \in 1 .. n /\ DOMAIN d \subseteq DOMAIN c[i]
          /\ \A k \in 1 .. n : k < i => ~(DOMAIN d \subseteq DOMAIN c[k])
      BY <1>1, <2>1, FirstCovering DEF IsList
    <2>3. updateCache(c, d, slots) = MoveToFront(c, i, Patch(c[i], d))
      BY <1>1, <2>1 DEF updateCache
    <2>4. Moved(c, updateCache(c, d, slots), n, i, Patch(c[i], d))
      BY <2>2, <2>3, MoveToFrontMoves
    <2> QED
      BY <2>2, <2>4
  <1>2. CASE ~CacheHit(c, DOMAIN d)
    <2>1. \A k \in 1 .. n : ~(DOMAIN d \subseteq DOMAIN c[k])
      BY <1>2, ListLength DEF CacheHit, Covering, IsList
    <2>2. updateCache(c, d, slots) = PushFront(c, d, slots)
      BY <1>2 DEF updateCache
    <2> QED
      BY <2>1, <2>2, PushFrontPushes
  <1> QED
    BY <1>1, <1>2

-----------------------------------------------------------------------------
(* The order of the list *)

Ordered(c, n) == \A i, j \in 1 .. n : i < j => ~(DOMAIN c[i] \subseteq DOMAIN c[j])

\* Moving the first block that covers a request to the front keeps the order:
\* the blocks before it do not cover the request, so they do not contain it.
LEMMA MoveKeepsOrder ==
    ASSUME NEW n \in Nat, NEW c, NEW e, NEW i \in 1 .. n, NEW b, NEW R,
           Ordered(c, n), Moved(c, e, n, i, b), DOMAIN b = DOMAIN c[i],
           R \subseteq DOMAIN c[i],
           \A k \in 1 .. n : k < i => ~(R \subseteq DOMAIN c[k])
    PROVE  Ordered(e, n)
  <1> SUFFICES ASSUME NEW k \in 1 .. n, NEW j \in 1 .. n, k < j
               PROVE  ~(DOMAIN e[k] \subseteq DOMAIN e[j])
    BY DEF Ordered
  <1>1. PICK q \in 1 .. n : /\ e[j] = c[q] /\ q # i
                            /\ q = j \/ q = j - 1
                            /\ j <= i <=> q = j - 1
    <2>1. CASE j <= i
      <3>1. e[j] = c[j - 1]
        BY <2>1 DEF Moved
      <3> QED
        BY <2>1, <3>1
    <2>2. CASE i < j
      <3>1. e[j] = c[j]
        BY <2>2 DEF Moved
      <3> QED
        BY <2>2, <3>1
    <2> QED
      BY <2>1, <2>2
  <1>2. CASE k = 1
    <2>1. DOMAIN e[k] = DOMAIN c[i]
      BY <1>2 DEF Moved
    <2>2. CASE q < i
      BY <1>1, <2>1, <2>2
    <2>3. CASE i < q
      BY <1>1, <2>1, <2>3 DEF Ordered
    <2> QED
      BY <1>1, <2>2, <2>3
  <1>3. CASE k # 1
    <2>1. CASE k <= i
      <3>1. e[k] = c[k - 1]
        BY <1>3, <2>1 DEF Moved
      <3>2. k - 1 \in 1 .. n /\ k - 1 < q
        BY <1>1, <1>3
      <3> QED
        BY <1>1, <3>1, <3>2 DEF Ordered
    <2>2. CASE i < k
      <3>1. e[k] = c[k]
        BY <2>2 DEF Moved
      <3>2. k < q
        BY <1>1, <2>2
      <3> QED
        BY <1>1, <3>1, <3>2 DEF Ordered
    <2> QED
      BY <2>1, <2>2
  <1> QED
    BY <1>2, <1>3

\* A block no other block covers may be put at the front.
LEMMA PushKeepsOrder ==
    ASSUME NEW n \in Nat, NEW m \in Nat, m <= n + 1, NEW c, NEW e, NEW b,
           Ordered(c, n), Pushed(c, e, m, b),
           \A k \in 1 .. n : ~(DOMAIN b \subseteq DOMAIN c[k])
    PROVE  Ordered(e, m)
  <1> SUFFICES ASSUME NEW k \in 1 .. m, NEW j \in 1 .. m, k < j
               PROVE  ~(DOMAIN e[k] \subseteq DOMAIN e[j])
    BY DEF Ordered
  <1>1. e[j] = c[j - 1] /\ j - 1 \in 1 .. n
    BY DEF Pushed
  <1>2. CASE k = 1
    BY <1>1, <1>2 DEF Pushed
  <1>3. CASE k # 1
    <2>1. e[k] = c[k - 1] /\ k - 1 \in 1 .. n /\ k - 1 < j - 1
      BY <1>3 DEF Pushed
    <2> QED
      BY <1>1, <2>1 DEF Ordered
  <1> QED
    BY <1>2, <1>3

\* updateCache keeps a list of at most slots blocks a list of at most slots
\* blocks, and its widest copies first, whatever is cached.
LEMMA UpdateKeepsList ==
    ASSUME NEW requests, NEW slots \in Nat \ {0}, NEW c, NEW d,
           IsBlockList(c, requests, slots), WidestFirst(c), DOMAIN d \in requests
    PROVE  /\ IsBlockList(updateCache(c, d, slots), requests, slots)
           /\ WidestFirst(updateCache(c, d, slots))
  <1>1. PICK n \in 0 .. slots : IsList(c, n) /\ \A i \in 1 .. n : DOMAIN c[i] \in requests
    BY DEF IsBlockList, IsList
  <1>2. n \in Nat /\ n <= slots
    OBVIOUS
  <1>3. Ordered(c, n)
    BY <1>1, <1>2, ListLength DEF WidestFirst, Ordered, IsList
  <1>4. PICK e : e = updateCache(c, d, slots)
    OBVIOUS
  <1>5. SUFFICES \E m \in 0 .. slots : /\ IsList(e, m) /\ Ordered(e, m)
                                       /\ \A k \in 1 .. m : DOMAIN e[k] \in requests
    <2>1. PICK m \in 0 .. slots : /\ IsList(e, m) /\ Ordered(e, m)
                                  /\ \A k \in 1 .. m : DOMAIN e[k] \in requests
      BY <1>5
    <2>2. DOMAIN e = 1 .. m
      BY <2>1, ListLength DEF IsList
    <2>3. IsBlockList(e, requests, slots)
      BY <2>1 DEF IsBlockList, IsList
    <2>4. WidestFirst(e)
      BY <2>1, <2>2 DEF WidestFirst, Ordered
    <2> QED
      BY <1>4, <2>3, <2>4
  <1>6. ASSUME NEW i \in 1 .. n, DOMAIN d \subseteq DOMAIN c[i],
               \A k \in 1 .. n : k < i => ~(DOMAIN d \subseteq DOMAIN c[k]),
               Moved(c, e, n, i, Patch(c[i], d))
        PROVE  Ordered(e, n) /\ \A k \in 1 .. n : DOMAIN e[k] \in requests
    <2>1. DOMAIN Patch(c[i], d) = DOMAIN c[i]
      BY PatchDomain
    <2>2. Ordered(e, n)
      BY <1>2, <1>3, <1>6, <2>1, MoveKeepsOrder
    <2>3. ASSUME NEW k \in 1 .. n
          PROVE  DOMAIN e[k] \in requests
      <3>1. k = 1 \/ k \in 2 .. i \/ k \in i + 1 .. n
        BY <1>2
      <3>2. k \in 2 .. i => k - 1 \in 1 .. n
        BY <1>2
      <3> QED
        BY <1>1, <1>6, <2>1, <3>1, <3>2 DEF Moved
    <2> QED
      BY <2>2, <2>3
  <1>7. ASSUME \A k \in 1 .. n : ~(DOMAIN d \subseteq DOMAIN c[k]),
               NEW m \in 1 .. slots, m <= n + 1, Pushed(c, e, m, d)
        PROVE  Ordered(e, m) /\ \A k \in 1 .. m : DOMAIN e[k] \in requests
    <2>1. Ordered(e, m)
      BY <1>2, <1>3, <1>7, PushKeepsOrder
    <2>2. ASSUME NEW k \in 1 .. m
          PROVE  DOMAIN e[k] \in requests
      <3>1. k = 1 \/ (k \in 2 .. m /\ k - 1 \in 1 .. n)
        BY <1>2, <1>7
      <3> QED
        BY <1>1, <1>7, <3>1 DEF Pushed
    <2> QED
      BY <2>1, <2>2
  <1> QED
    BY <1>1, <1>2, <1>4, <1>6, <1>7, UpdateCases DEF Moved, Pushed

-----------------------------------------------------------------------------
(* The words of the list *)

NestedOrDisjoint(requests) ==
    \A R, S \in requests : R \cap S = {} \/ R \subseteq S \/ S \subseteq R

Hidden(c, j) == \E i \in 1 .. j - 1 : DOMAIN c[j] \subseteq DOMAIN c[i]
FreshOrHidden(c, n, disk, W) == \A j \in 1 .. n : Agrees(c[j], disk, W) \/ Hidden(c, j)

\* The same said with positions instead of the domain of the list.
LEMMA HiddenIsShadowed ==
    ASSUME NEW n \in Nat, NEW c, IsList(c, n), NEW disk, NEW W
    PROVE  FreshOrShadowed(c, disk, W) <=> FreshOrHidden(c, n, disk, W)
  <1>1. DOMAIN c = 1 .. n
    BY ListLength DEF IsList
  <1>2. \A j \in 1 .. n : Shadowed(c, j) <=> Hidden(c, j)
    BY <1>1 DEF Shadowed, Hidden
  <1> QED
    BY <1>1, <1>2 DEF FreshOrShadowed, FreshOrHidden

\* Once the request d is on the device, a block that was right but for d is
\* right, or lies inside the request, or contains it.
LEMMA StaleMeetsRequest ==
    ASSUME NEW requests, NestedOrDisjoint(requests), NEW R \in requests,
           NEW b, DOMAIN b \in requests, NEW disk, NEW W, W = {} \/ W = R,
           Agrees(b, disk, W)
    PROVE  \/ Agrees(b, disk, {})
           \/ DOMAIN b \subseteq R
           \/ R \subseteq DOMAIN b /\ R \cap DOMAIN b # {}
  <1>1. CASE R \cap DOMAIN b = {}
    BY <1>1 DEF Agrees
  <1>2. CASE R \cap DOMAIN b # {}
    BY <1>2 DEF NestedOrDisjoint
  <1> QED
    BY <1>1, <1>2

\* Moving the patched first covering block to the front: it now agrees with the
\* device, and what disagrees because of the request lies inside it.
LEMMA MoveKeepsFresh ==
    ASSUME NEW requests, NestedOrDisjoint(requests), NEW n \in Nat, NEW c, NEW e,
           NEW d, DOMAIN d \in requests, NEW i \in 1 .. n, NEW disk, NEW W,
           W = {} \/ W = DOMAIN d, Agrees(d, disk, {}),
           \A k \in 1 .. n : DOMAIN c[k] \in requests,
           Ordered(c, n), FreshOrHidden(c, n, disk, W),
           DOMAIN d \subseteq DOMAIN c[i],
           \A k \in 1 .. n : k < i => ~(DOMAIN d \subseteq DOMAIN c[k]),
           Moved(c, e, n, i, Patch(c[i], d))
    PROVE  FreshOrHidden(e, n, disk, {})
  <1>1. e[1] = Patch(c[i], d) /\ DOMAIN e[1] = DOMAIN c[i]
    BY PatchDomain DEF Moved
  <1>2. Agrees(c[i], disk, W)
    <2>1. ~Hidden(c, i)
      <3> SUFFICES ASSUME NEW k \in 1 .. i - 1, DOMAIN c[i] \subseteq DOMAIN c[k]
                   PROVE  FALSE
        BY DEF Hidden
      <3>1. k \in 1 .. n /\ k < i
        OBVIOUS
      <3> QED
        BY <3>1
    <2> QED
      BY <2>1 DEF FreshOrHidden
  <1>3. Agrees(e[1], disk, {})
    BY <1>1, <1>2, PatchDomain DEF Agrees
  <1>4. ASSUME NEW j \in 2 .. n, NEW q \in 1 .. n, e[j] = c[q], q # i,
               q < i => j = q + 1, i < q => j = q
        PROVE  Agrees(e[j], disk, {}) \/ Hidden(e, j)
    <2>1. 1 \in 1 .. j - 1
      OBVIOUS
    <2>2. DOMAIN e[j] \subseteq DOMAIN e[1] => Hidden(e, j)
      BY <2>1 DEF Hidden
    <2>3. CASE Agrees(c[q], disk, W)
      <3>1. CASE DOMAIN c[q] \subseteq DOMAIN d
        BY <1>1, <1>4, <2>2, <3>1
      <3>2. CASE DOMAIN d \subseteq DOMAIN c[q] /\ DOMAIN d \cap DOMAIN c[q] # {}
        <4>1. i < q
          BY <1>4, <3>2
        <4>2. ~(DOMAIN c[i] \subseteq DOMAIN c[q])
          BY <4>1 DEF Ordered
        <4>3. DOMAIN c[i] \cap DOMAIN c[q] # {}
          BY <3>2
        <4>4. DOMAIN c[q] \subseteq DOMAIN c[i]
          BY <4>2, <4>3 DEF NestedOrDisjoint
        <4> QED
          BY <1>1, <1>4, <2>2, <4>4
      <3> QED
        BY <1>4, <2>3, <3>1, <3>2, StaleMeetsRequest
    <2>4. ASSUME NEW p \in 1 .. q - 1, DOMAIN c[q] \subseteq DOMAIN c[p]
          PROVE  Hidden(e, j)
      <3>1. CASE p = i
        BY <1>1, <1>4, <2>2, <2>4, <3>1
      <3>2. CASE p < i
        <4>1. p + 1 \in 2 .. i /\ p + 1 \in 1 .. j - 1 /\ (p + 1) - 1 = p
          BY <1>4, <3>2
        <4>2. e[p + 1] = c[p]
          BY <4>1 DEF Moved
        <4> QED
          BY <1>4, <2>4, <4>1, <4>2 DEF Hidden
      <3>3. CASE i < p
        <4>1. p \in i + 1 .. n /\ p \in 1 .. j - 1
          BY <1>4, <3>3
        <4>2. e[p] = c[p]
          BY <4>1 DEF Moved
        <4> QED
          BY <1>4, <2>4, <4>1, <4>2 DEF Hidden
      <3> QED
        BY <3>1, <3>2, <3>3
    <2> QED
      BY <2>3, <2>4 DEF FreshOrHidden, Hidden
  <1>5. ASSUME NEW j \in 1 .. n
        PROVE  Agrees(e[j], disk, {}) \/ Hidden(e, j)
    <2>1. CASE j = 1
      BY <1>3, <2>1
    <2>2. CASE j \in 2 .. i
      <3>1. e[j] = c[j - 1]
        BY <2>2 DEF Moved
      <3>2. j \in 2 .. n /\ j - 1 \in 1 .. n /\ j - 1 < i /\ j = (j - 1) + 1
        BY <2>2
      <3> QED
        BY <1>4, <3>1, <3>2
    <2>3. CASE j \in i + 1 .. n
      <3>1. e[j] = c[j]
        BY <2>3 DEF Moved
      <3>2. j \in 2 .. n /\ i < j
        BY <2>3
      <3> QED
        BY <1>4, <3>1, <3>2
    <2> QED
      BY <2>1, <2>2, <2>3
  <1> QED
    BY <1>5 DEF FreshOrHidden

\* Putting an uncovered request at the front: what disagrees because of it lies
\* inside it, and the block that drops out is the last, so it hid none.
LEMMA PushKeepsFresh ==
    ASSUME NEW requests, NestedOrDisjoint(requests), NEW n \in Nat, NEW c, NEW e,
           NEW d, DOMAIN d \in requests, NEW m \in Nat, m <= n + 1, NEW disk, NEW W,
           W = {} \/ W = DOMAIN d, Agrees(d, disk, {}),
           \A k \in 1 .. n : DOMAIN c[k] \in requests,
           FreshOrHidden(c, n, disk, W),
           \A k \in 1 .. n : ~(DOMAIN d \subseteq DOMAIN c[k]),
           Pushed(c, e, m, d)
    PROVE  FreshOrHidden(e, m, disk, {})
  <1> SUFFICES ASSUME NEW j \in 1 .. m
               PROVE  Agrees(e[j], disk, {}) \/ Hidden(e, j)
    BY DEF FreshOrHidden
  <1>1. e[1] = d
    BY DEF Pushed
  <1>2. CASE j = 1
    BY <1>1, <1>2
  <1>3. CASE j # 1
    <2>1. PICK q \in 1 .. n : q = j - 1
      BY <1>3
    <2>2. e[j] = c[q]
      BY <1>3, <2>1 DEF Pushed
    <2>3. CASE Agrees(c[q], disk, W)
      <3>1. CASE DOMAIN c[q] \subseteq DOMAIN d
        <4>1. 1 \in 1 .. j - 1
          BY <1>3
        <4> QED
          BY <1>1, <2>2, <3>1, <4>1 DEF Hidden
      <3> QED
        BY <2>2, <2>3, <3>1, StaleMeetsRequest
    <2>4. ASSUME NEW p \in 1 .. q - 1, DOMAIN c[q] \subseteq DOMAIN c[p]
          PROVE  Hidden(e, j)
      <3>1. p + 1 \in 2 .. m /\ p + 1 \in 1 .. j - 1 /\ (p + 1) - 1 = p
        BY <2>1
      <3>2. e[p + 1] = c[p]
        BY <3>1 DEF Pushed
      <3> QED
        BY <2>2, <2>4, <3>1, <3>2 DEF Hidden
    <2> QED
      BY <2>2, <2>3, <2>4 DEF FreshOrHidden, Hidden
  <1> QED
    BY <1>2, <1>3

\* updateCache with a request that is on the device makes the list agree with
\* the device again, when it did so but for that request before.
LEMMA UpdateFresh ==
    ASSUME NEW requests, NestedOrDisjoint(requests), NEW slots \in Nat \ {0},
           NEW c, NEW d, NEW disk, NEW W,
           IsBlockList(c, requests, slots), WidestFirst(c), DOMAIN d \in requests,
           W = {} \/ W = DOMAIN d, Agrees(d, disk, {}), FreshOrShadowed(c, disk, W)
    PROVE  FreshOrShadowed(updateCache(c, d, slots), disk, {})
  <1>1. PICK n \in 0 .. slots : IsList(c, n) /\ \A i \in 1 .. n : DOMAIN c[i] \in requests
    BY DEF IsBlockList, IsList
  <1>2. n \in Nat /\ n <= slots
    OBVIOUS
  <1>3. Ordered(c, n)
    BY <1>1, <1>2, ListLength DEF WidestFirst, Ordered, IsList
  <1>4. FreshOrHidden(c, n, disk, W)
    BY <1>1, <1>2, HiddenIsShadowed
  <1>5. PICK e : e = updateCache(c, d, slots)
    OBVIOUS
  <1>6. ASSUME NEW i \in 1 .. n, DOMAIN d \subseteq DOMAIN c[i],
               \A k \in 1 .. n : k < i => ~(DOMAIN d \subseteq DOMAIN c[k]),
               Moved(c, e, n, i, Patch(c[i], d))
        PROVE  FreshOrShadowed(e, disk, {})
    <2>1. FreshOrHidden(e, n, disk, {})
      BY <1>1, <1>2, <1>3, <1>4, <1>6, MoveKeepsFresh
    <2> QED
      BY <1>2, <1>6, <2>1, HiddenIsShadowed DEF Moved
  <1>7. ASSUME \A k \in 1 .. n : ~(DOMAIN d \subseteq DOMAIN c[k]),
               NEW m \in 1 .. slots, m <= n + 1, Pushed(c, e, m, d)
        PROVE  FreshOrShadowed(e, disk, {})
    <2>1. m \in Nat
      OBVIOUS
    <2>2. FreshOrHidden(e, m, disk, {})
      BY <1>1, <1>2, <1>4, <1>7, <2>1, PushKeepsFresh
    <2> QED
      BY <1>7, <2>1, <2>2, HiddenIsShadowed DEF Pushed
  <1> QED
    BY <1>1, <1>2, <1>5, <1>6, <1>7, UpdateCases

\* While every block agrees with the device or is shadowed, what lookupCache
\* returns is what the device holds: the first covering block is not shadowed.
LEMMA LookupFresh ==
    ASSUME NEW requests, NEW slots \in Nat \ {0}, NEW c, NEW disk, NEW R,
           IsBlockList(c, requests, slots), FreshOrShadowed(c, disk, {}), CacheHit(c, R)
    PROVE  lookupCache(c, R) = [a \in R |-> disk[a]]
  <1>1. PICK n \in 0 .. slots : IsList(c, n)
    BY DEF IsBlockList, IsList
  <1>2. n \in Nat
    OBVIOUS
  <1>3. PICK i : i = Min(Covering(c, R))
    OBVIOUS
  <1>4. i \in 1 .. n /\ R \subseteq DOMAIN c[i]
        /\ \A k \in 1 .. n : k < i => ~(R \subseteq DOMAIN c[k])
    BY <1>1, <1>2, <1>3, FirstCovering DEF IsList
  <1>5. ~Hidden(c, i)
    <2> SUFFICES ASSUME NEW k \in 1 .. i - 1, DOMAIN c[i] \subseteq DOMAIN c[k]
                 PROVE  FALSE
      BY DEF Hidden
    <2>1. k \in 1 .. n /\ k < i
      BY <1>4
    <2> QED
      BY <1>4, <2>1
  <1>6. Agrees(c[i], disk, {})
    BY <1>1, <1>2, <1>4, <1>5, HiddenIsShadowed DEF FreshOrHidden
  <1> QED
    BY <1>3, <1>4, <1>6 DEF lookupCache, Agrees

\* Every word of the list after updateCache was in it, or in the request.
LEMMA UpdateWords ==
    ASSUME NEW requests, NEW slots \in Nat \ {0}, NEW c, NEW d, NEW s,
           IsBlockList(c, requests, slots),
           \A i \in DOMAIN c : \A a \in DOMAIN c[i] : c[i][a] \in s[a],
           \A a \in DOMAIN d : d[a] \in s[a]
    PROVE  \A i \in DOMAIN updateCache(c, d, slots) :
             \A a \in DOMAIN updateCache(c, d, slots)[i] : updateCache(c, d, slots)[i][a] \in s[a]
  <1>1. PICK n \in 0 .. slots : IsList(c, n)
    BY DEF IsBlockList, IsList
  <1>2. n \in Nat /\ n <= slots
    OBVIOUS
  <1>3. DOMAIN c = 1 .. n
    BY <1>1, <1>2, ListLength DEF IsList
  <1>4. PICK e : e = updateCache(c, d, slots)
    OBVIOUS
  <1>5. SUFFICES ASSUME NEW k \in DOMAIN e, NEW a \in DOMAIN e[k]
                 PROVE  e[k][a] \in s[a]
    BY <1>4, <1>5
  <1>6. ASSUME NEW i \in 1 .. n, Moved(c, e, n, i, Patch(c[i], d))
        PROVE  e[k][a] \in s[a]
    <2>1. k \in 1 .. n
      BY <1>2, <1>6, ListLength DEF Moved, IsList
    <2>2. CASE k = 1
      BY <1>3, <1>6, <2>2, PatchDomain DEF Moved
    <2>3. CASE k \in 2 .. i
      <3>1. e[k] = c[k - 1] /\ k - 1 \in 1 .. n
        BY <1>2, <1>6, <2>3 DEF Moved
      <3> QED
        BY <1>3, <3>1
    <2>4. CASE k \in i + 1 .. n
      <3>1. e[k] = c[k]
        BY <1>6, <2>4 DEF Moved
      <3> QED
        BY <1>3, <2>1, <3>1
    <2> QED
      BY <1>2, <2>1, <2>2, <2>3, <2>4
  <1>7. ASSUME NEW m \in 1 .. slots, m <= n + 1, Pushed(c, e, m, d)
        PROVE  e[k][a] \in s[a]
    <2>1. k \in 1 .. m
      BY <1>7, ListLength DEF Pushed, IsList
    <2>2. CASE k = 1
      BY <1>7, <2>2 DEF Pushed
    <2>3. CASE k # 1
      <3>1. e[k] = c[k - 1] /\ k - 1 \in 1 .. n
        BY <1>2, <1>7, <2>1, <2>3 DEF Pushed
      <3> QED
        BY <1>3, <3>1
    <2> QED
      BY <2>2, <2>3
  <1> QED
    BY <1>1, <1>2, <1>4, <1>6, <1>7, UpdateCases
=============================================================================

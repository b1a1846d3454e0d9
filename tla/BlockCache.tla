----------------------------- MODULE BlockCache -----------------------------
(***************************************************************************)
(* The block cache of vfs/redolog.go: a list of cached blocks, most recent *)
(* first, searched front to back.                                          *)
(*                                                                         *)
(* A cacheBlock {offset, data} is a function from the addresses it covers  *)
(* to the words it holds, so "the request lies inside the block" is        *)
(* inclusion of domains and "copy p over the block" is function override.  *)
(* Requests are non-empty, as both callers make sure.                      *)
(***************************************************************************)
EXTENDS Naturals, Sequences, FiniteSetsExt

\* The blocks of cache c that hold every address of R.
Covering(c, R) == {i \in DOMAIN c : R \subseteq DOMAIN c[i]}

\* lookupCache: there is a hit ...
CacheHit(c, R) == Covering(c, R) # {}

\* ... and the first covering block of the list answers it.
lookupCache(c, R) == LET b == c[Min(Covering(c, R))] IN [a \in R |-> b[a]]

\* Block b with the words of d copied over its own.
Patch(b, d) == [a \in DOMAIN b |-> IF a \in DOMAIN d THEN d[a] ELSE b[a]]

\* Block i of the list, with its new contents b, moved to the front.
MoveToFront(c, i, b) ==
    [k \in DOMAIN c |-> IF k = 1 THEN b ELSE IF k <= i THEN c[k - 1] ELSE c[k]]

\* PushFront that lets the list grow (faulty).
PushFrontUnbounded(c, d, slots) == <<d>> \o c

\* A new block at the front; the last one drops out of a full list.
PushFront(c, d, slots) ==
    [k \in 1 .. (IF Len(c) >= slots THEN Len(c) ELSE Len(c) + 1) |->
        IF k = 1 THEN d ELSE c[k - 1]]

(***************************************************************************)
(* Faulty forms of updateCache, for showing that the properties can fail.  *)
(***************************************************************************)
\* Always adds a block, even when a cached one covers the request.
updateCacheAlwaysPush(c, d, slots) == PushFront(c, d, slots)

\* Copies the request to the start of the covering block (relativeOff lost).
updateCacheNoOffset(c, d, slots) ==
    IF CacheHit(c, DOMAIN d)
    THEN LET i == Min(Covering(c, DOMAIN d))
             shift == Min(DOMAIN d) - Min(DOMAIN c[i])
             moved == [a \in {x - shift : x \in DOMAIN d} |-> d[a + shift]]
         IN  MoveToFront(c, i, Patch(c[i], moved))
    ELSE PushFront(c, d, slots)

\* updateCache: the first covering block is patched and moved to the front;
\* without one the request becomes a block of its own.
updateCache(c, d, slots) ==
    IF CacheHit(c, DOMAIN d)
    THEN LET i == Min(Covering(c, DOMAIN d)) IN MoveToFront(c, i, Patch(c[i], d))
    ELSE PushFront(c, d, slots)

-----------------------------------------------------------------------------
(* What holds of such a list *)

\* A list of at most slots blocks, each of them for one of the requests.
IsBlockList(c, requests, slots) ==
    \E n \in 0 .. slots :
        /\ c = [i \in 1 .. n |-> c[i]]
        /\ \A i \in 1 .. n : DOMAIN c[i] \in requests

\* No block lies inside a block behind it.
WidestFirst(c) ==
    \A i, j \in DOMAIN c : i < j => ~(DOMAIN c[i] \subseteq DOMAIN c[j])

\* Block j is never the first to cover a request: one before it contains it.
Shadowed(c, j) == \E i \in DOMAIN c : i < j /\ DOMAIN c[j] \subseteq DOMAIN c[i]

\* Outside W block b has the words of the device d.
Agrees(b, d, W) == \A a \in DOMAIN b : a \in W \/ b[a] = d[a]

\* Every block agrees with the device outside W or is shadowed.
FreshOrShadowed(c, d, W) == \A j \in DOMAIN c : Agrees(c[j], d, W) \/ Shadowed(c, j)
=============================================================================

---------------------------- MODULE MCTxJournal -----------------------------
(***************************************************************************)
(* Which thread writes which blocks, for checking TxJournal with TLC.      *)
(***************************************************************************)
EXTENDS TxJournal

CONSTANTS b1, b2, b3, t1, t2

\* Every operation may write every block.
AllBlocks(t) == Blocks

\* Each thread has a block of its own, so their writes never conflict.
OwnBlock(t) == IF t = t1 THEN {b1} ELSE {b2}

\* Both words of a block, the magic number included.
AllWrites == {1, 2} \X (Data \union {Magic})

\* The magic number where a record has it, and an ordinary word behind it.
TwoWrites == {<<1, Magic>>, <<2, CHOOSE d \in Data : TRUE>>}

\* TxJournal orders blocks only by the iteration over the map of dirty blocks,
\* which takes any order, so where every block may be written by every thread
\* their names are interchangeable.
BlockSymmetry == Permutations(Blocks)

ASSUME BlockNamesAssumption == Blocks \subseteq {b1, b2, b3} /\ Threads \subseteq {t1, t2}
=============================================================================

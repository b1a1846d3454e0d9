----------------------------- MODULE MCFileData -----------------------------
(***************************************************************************)
(* Instances of FileData for TLC.                                          *)
(***************************************************************************)
EXTENDS FileData

\* Two files with a path each.
TwoFiles == [p \in {"a", "b"} |-> IF p = "b" THEN 2 ELSE 1]

\* The first may have three blocks; the second comes between them.
ThreeBlocks == [f \in {1, 2} |-> IF f = 1 THEN 6 ELSE 1]

\* Two files, of which the first can outgrow a leaf of three extents.
FourBlocks == [f \in {1, 2} |-> IF f = 1 THEN 6 ELSE 4]
=============================================================================

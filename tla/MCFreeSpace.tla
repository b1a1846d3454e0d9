---------------------------- MODULE MCFreeSpace -----------------------------
(***************************************************************************)
(* A small file system for checking FreeSpace with TLC: two groups, some   *)
(* blocks and inodes of each taken by metadata.                            *)
(***************************************************************************)
EXTENDS FreeSpace

MCInitUsed ==
    [k \in Kinds |-> [g \in Groups |->
        Bits \intersect
            (IF k = "block" THEN (IF g = 0 THEN {0} ELSE {1}) ELSE (IF g = 0 THEN {0} ELSE {1}))]]
=============================================================================

---------------------------- MODULE MCBtrfsTree -----------------------------
(***************************************************************************)
(* Instances of BtrfsTree for TLC.                                         *)
(***************************************************************************)
EXTENDS BtrfsTree
=============================================================================

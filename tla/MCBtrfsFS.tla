----------------------------- MODULE MCBtrfsFS ------------------------------
(***************************************************************************)
(* BtrfsFS for TLC.                                                        *)
(***************************************************************************)
EXTENDS BtrfsFS, TLC

\* Nothing in the module tells one name from another but by comparing them.
NameSymmetry == Permutations(Names)

\* Only listings of the root read what listings of the root have cached, so a behaviour
\* with one goes on as it would without.
NotListed == listed = <<>>
=============================================================================

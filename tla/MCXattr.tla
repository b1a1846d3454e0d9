------------------------------ MODULE MCXattr -------------------------------
(***************************************************************************)
(* An instance of Xattr for TLC.                                           *)
(***************************************************************************)
EXTENDS Xattr

\* Both names fit in a tail with two words of values, in a block with three.
TwoNames == <<"a", "b">>
SmallValues == {<<"x">>, <<"y", "z">>}
=============================================================================

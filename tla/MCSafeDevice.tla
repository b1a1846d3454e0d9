---------------------------- MODULE MCSafeDevice ----------------------------
(***************************************************************************)
(* Request sets for checking SafeDevice with TLC.                          *)
(***************************************************************************)
EXTENDS SafeDevice

\* A block, a structure inside it and a block beside it: nested or disjoint.
NestedRequests == {Interval(0, 2), Interval(1, 1), Interval(2, 1)}

\* A one-word and a two-word request over the same two words.
TinyRequests == {Interval(0, 2), Interval(1, 1)}

ASSUME NestedAssumption == Requests = NestedRequests \/ Requests = TinyRequests
=============================================================================

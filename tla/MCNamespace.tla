---------------------------- MODULE MCNamespace -----------------------------
(***************************************************************************)
(* Instances of Namespace for TLC.                                         *)
(***************************************************************************)
EXTENDS Namespace

\* A short and a longer name: 3 and 4 words.
TwoNames == [n \in {"a", "b", Dot, DotDot} |->
                IF n = "b" THEN 5 ELSE IF n = DotDot THEN 2 ELSE 1]

\* Links lead to the root, and it is the root that is listed.
TheRoot == {<<>>}

\* Behaviours are followed up to the Rename that is undone half-way: nothing is
\* claimed of what comes after it.
NotUndone == ~undone
=============================================================================

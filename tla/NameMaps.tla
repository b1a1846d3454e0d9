------------------------------ MODULE NameMaps ------------------------------
(***************************************************************************)
(* What the path operations promise: every directory is a map from names   *)
(* to inodes, and an operation changes one name of one directory or moves  *)
(* one, all at once.  Namespace implements this module as long as the      *)
(* device has room.                                                        *)
(***************************************************************************)
EXTENDS Naturals, FiniteSets

CONSTANTS Inodes, Names, Root

VARIABLE names      \* for every inode the names it has as a directory

Init == names = [i \in Inodes |-> <<>>]

\* Map m with name n leading to i, and without name n.
With(m, n, i) == [x \in DOMAIN m \union {n} |-> IF x = n THEN i ELSE m[x]]
Without(m, n) == [x \in DOMAIN m \ {n} |-> m[x]]

\* A new name, for an inode that has no names of its own.
Enter(d, n, i) ==
    /\ n \notin DOMAIN names[d] /\ i # Root /\ i # d
    /\ names[i] = <<>>
    /\ names' = [names EXCEPT ![d] = With(@, n, i)]

\* A name goes, and with it never a directory that still has names.
Remove(d, n) ==
    /\ n \in DOMAIN names[d] /\ names[names[d][n]] = <<>>
    /\ names' = [names EXCEPT ![d] = Without(@, n)]

\* A name moves; one it replaces goes in the same step.
Move(d, n, e, m) ==
    /\ n \in DOMAIN names[d] /\ <<d, n>> # <<e, m>>
    /\ m \in DOMAIN names[e] => names[names[e][m]] = <<>>
    /\ names' = IF d = e THEN [names EXCEPT ![d] = With(Without(@, n), m, names[d][n])]
                ELSE [names EXCEPT ![d] = Without(@, n), ![e] = With(@, m, names[d][n])]

\* (Steps that change nothing stutter.)
Next ==
    /\ names' # names
    /\ \E d \in Inodes, n \in Names :
        \/ \E i \in Inodes : Enter(d, n, i)
        \/ Remove(d, n)
        \/ \E e \in Inodes, m \in Names : Move(d, n, e, m)

Spec == Init /\ [][Next]_names
=============================================================================

------------------------------ MODULE ItemMap -------------------------------
(***************************************************************************)
(* What a btrfs tree promises the code above it: the items it was given,   *)
(* one for a key, and read in the order of their keys.                     *)
(***************************************************************************)
EXTENDS Naturals, Sequences

CONSTANTS Keys, Sizes, First

VARIABLE items      \* all items, as a walk of the tree meets them

KeysOf == {items[i].key : i \in DOMAIN items}

Init == items = First

Insert(k, n) ==
    /\ k \notin KeysOf
    /\ items' = SelectSeq(items, LAMBDA e : e.key < k) \o <<[key |-> k, val |-> n]>>
                    \o SelectSeq(items, LAMBDA e : e.key > k)

Delete(k) ==
    /\ k \in KeysOf
    /\ items' = SelectSeq(items, LAMBDA e : e.key # k)

Update(k, n) ==
    /\ k \in KeysOf
    /\ items' = [i \in DOMAIN items |-> IF items[i].key = k THEN [items[i] EXCEPT !.val = n] ELSE items[i]]

Next == \E k \in Keys : Delete(k) \/ \E n \in Sizes : Insert(k, n) \/ Update(k, n)

Spec == Init /\ [][Next]_items
=============================================================================

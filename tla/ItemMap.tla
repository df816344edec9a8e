------------------------------ MODULE ItemMap ------------------------------
(***************************************************************************)
(* What a btrfs tree promises to its callers: a map from keys to items,    *)
(* here the size of the item.  An insertion adds one key that was absent,  *)
(* a deletion removes present keys that follow each other, the other       *)
(* operations change one item in place, and a call that fails changes      *)
(* nothing.  Each operation relates the map m before to the map n after.   *)
(***************************************************************************)
EXTENDS Integers

VARIABLE map        \* the items, a partial function from keys to sizes

Init == map = <<>>

\* the two maps agree on the keys outside S
SameBut(m, n, S) ==
    /\ DOMAIN m \ S = DOMAIN n \ S
    /\ \A k \in DOMAIN m \ S : m[k] = n[k]

\* btrfs_insert_item of a key that is absent
Insert(m, n, k) == k \notin DOMAIN m /\ k \in DOMAIN n /\ SameBut(m, n, {k})

\* btrfs_del_items of the present keys from i to j
Delete(m, n, i, j) ==
    LET gone == {k \in DOMAIN m : i <= k /\ k <= j} IN
    gone \cap DOMAIN n = {} /\ SameBut(m, n, gone)

\* btrfs_extend_item, and btrfs_truncate_item at the end of the item
Resize(m, n, k) == k \in DOMAIN n /\ SameBut(m, n, {k})

\* an item moves to a free key between its neighbours: btrfs_set_item_key_safe,
\* and btrfs_truncate_item at the front of the item
Move(m, n, k, j) ==
    /\ j \notin DOMAIN m /\ k \notin DOMAIN n
    /\ \A i \in DOMAIN m \ {k} : (i < k) <=> (i < j)
    /\ n[j] <= m[k]
    /\ SameBut(m, n, {k, j})

\* btrfs_split_item: the end of an item becomes an item of its own
Split(m, n, k, j) ==
    /\ k < j /\ j \notin DOMAIN m /\ k \in DOMAIN n
    /\ n[k] + n[j] = m[k]
    /\ SameBut(m, n, {k, j})

Step(m, n) ==
    \/ \E k \in DOMAIN n \ DOMAIN m : Insert(m, n, k)
    \/ \E i, j \in DOMAIN m : i <= j /\ Delete(m, n, i, j)
    \/ \E k \in DOMAIN m : Resize(m, n, k)
    \/ \E k \in DOMAIN m, j \in DOMAIN n \ DOMAIN m : Move(m, n, k, j) \/ Split(m, n, k, j)

Next == \E m \in {map}, n \in {map'} : Step(m, n)

Spec == Init /\ [][Next]_map
=============================================================================

------------------------------- MODULE BTree -------------------------------
(***************************************************************************)
(* The operations on a btrfs tree (ctree.c): the search from the root that *)
(* makes room or merges nodes on its way down, the insertion and deletion  *)
(* of items with the pushes and splits they cause, and the walks between   *)
(* leaves.                                                                 *)
(*                                                                         *)
(* A block is its level and its contents, a sequence: a leaf holds items   *)
(* (key and size), a node holds pointers (key and child).  A pointer is    *)
(* the child block itself, so that a tree is a value; which extent a block *)
(* is written to is the business of CowCommit.  A path is a record of the  *)
(* root and of slots, one slot for each level: path->nodes[l] is the block *)
(* that the slots above level l lead to.  "bug" says that a BUG_ON fired   *)
(* or that memory past the items of a block was used.                      *)
(***************************************************************************)
EXTENDS Integers, Sequences, FiniteSets, TLC

CONSTANTS Setups,   \* the instances that one run covers, see setup
          MaxLevel  \* BTRFS_MAX_LEVEL

VARIABLES setup,    \* the constants of the tree: ptrs is BTRFS_NODEPTRS_PER_BLOCK,
                    \* keep the pointers push_node_left leaves behind (8), leaf
                    \* BTRFS_LEAF_DATA_SIZE, head sizeof(struct btrfs_item); the
                    \* keys, those of type BTRFS_DIR_ITEM_KEY, the item sizes and
                    \* the calls the callers make
          root,     \* root->node
          bug       \* the last call hit a BUG_ON, or a block it refused to read

vars == <<setup, root, bug>>

Levels == 0 .. MaxLevel - 1

Lo(a, b) == IF a < b THEN a ELSE b

Take(q, n) == SubSeq(q, 1, n)
Drop(q, n) == SubSeq(q, n + 1, Len(q))
InsertAtSlot(q, n, e) == Take(q, n) \o <<e>> \o Drop(q, n)
RemoveSlots(q, n, nr) == Take(q, n) \o Drop(q, n + nr)

Block(l, q) == [level |-> l, it |-> q]
Ptr(k, b) == [k |-> k, sub |-> b]
Nr(b) == Len(b.it)

-----------------------------------------------------------------------------
(* The path. *)

HasNode(p, l) == l <= p.root.level

RECURSIVE Node(_, _)
Node(p, l) == IF l = p.root.level THEN p.root
              ELSE Node(p, l + 1).it[p.slots[l + 1] + 1].sub

RECURSIVE SetNode(_, _, _)
SetNode(p, l, q) ==
    IF l = p.root.level THEN [p EXCEPT !.root.it = q]
    ELSE LET up == Node(p, l + 1) IN
         SetNode(p, l + 1, [up.it EXCEPT ![p.slots[l + 1] + 1].sub.it = q])

\* the contents of the block at a slot of the node at level l
SetChild(p, l, slot, q) == SetNode(p, l, [Node(p, l).it EXCEPT ![slot + 1].sub.it = q])

\* btrfs_set_node_key
SetKey(p, l, slot, k) == SetNode(p, l, [Node(p, l).it EXCEPT ![slot + 1].k = k])

SetSlot(p, l, n) == [p EXCEPT !.slots[l] = n]

Bug(p, cond) == [p EXCEPT !.bug = @ \/ cond]

NoPath(tree) == [root |-> tree, slots |-> [l \in Levels |-> 0], bug |-> FALSE]

fixup_low_keys_Early(p, k, l) == IF HasNode(p, l) THEN SetKey(p, l, p.slots[l], k) ELSE p
RECURSIVE fixup_low_keys(_, _, _)
fixup_low_keys(p, k, l) ==
    IF ~HasNode(p, l) THEN p
    ELSE LET q == SetKey(p, l, p.slots[l], k) IN
         IF p.slots[l] # 0 THEN q ELSE fixup_low_keys(q, k, l + 1)

-----------------------------------------------------------------------------
(* Leaf space, the checks of a block that is read, and the search in it. *)

RECURSIVE Bytes(_)
Bytes(q) == IF q = <<>> THEN 0 ELSE Head(q).size + setup.head + Bytes(Tail(q))

leaf_space_used(q, start, nr) == Bytes(SubSeq(q, start + 1, Lo(Len(q), start + nr)))

btrfs_leaf_free_space(q) == setup.leaf - leaf_space_used(q, 0, Len(q))

\* The order of the last two keys is not looked at: the loop ends at nritems - 2.
KeysChecked(q) == \A i \in 1 .. Len(q) - 2 : q[i].k < q[i + 1].k

btrfs_check_node(hasParent, k, b) ==
    /\ Nr(b) \in 1 .. setup.ptrs
    /\ hasParent => b.it[1].k = k
    /\ KeysChecked(b.it)

btrfs_check_leaf(hasParent, k, b) ==
    /\ b.level = 0
    /\ btrfs_leaf_free_space(b.it) >= 0
    /\ b.it = <<>> \/ ((hasParent => b.it[1].k = k) /\ KeysChecked(b.it))

check_block(p, l) ==
    LET up == HasNode(p, l + 1)
        k == IF up THEN Node(p, l + 1).it[p.slots[l + 1] + 1].k ELSE 0
    IN  IF l = 0 THEN btrfs_check_leaf(up, k, Node(p, 0))
                 ELSE btrfs_check_node(up, k, Node(p, l))

\* found, and the slot of the key or the slot where it would be inserted
RECURSIVE generic_bin_search(_, _, _, _)
generic_bin_search(q, k, low, high) ==
    LET mid == (low + high) \div 2 IN
    CASE low >= high -> [found |-> FALSE, slot |-> low]
      [] low < high /\ q[mid + 1].k < k -> generic_bin_search(q, k, mid + 1, high)
      [] low < high /\ q[mid + 1].k > k -> generic_bin_search(q, k, low, mid)
      [] OTHER -> [found |-> TRUE, slot |-> mid]

bin_search(b, k) == generic_bin_search(b.it, k, 0, Nr(b))

-----------------------------------------------------------------------------
(* Moving pointers between nodes. *)

\* how many pointers go from src to the end of dst; none is the return value 1
push_node_left(dst, src, empty) ==
    LET n == Len(src)
        room == setup.ptrs - Len(dst)
        all == Lo(n, room)
    IN  CASE room <= 0 \/ (~empty /\ n <= setup.keep) -> 0
          [] room > 0 /\ ~empty /\ n > setup.keep -> Lo(n - setup.keep, room)
          [] OTHER -> IF all < n /\ n - all < setup.keep
                      THEN IF all <= setup.keep THEN 0 ELSE all - setup.keep
                      ELSE all

\* how many pointers go from the end of src to the start of dst
balance_node_right(dst, src) ==
    LET n == Len(src)
        room == setup.ptrs - Len(dst)
        half == n \div 2 + 1
    IN  IF room <= 0 \/ n < 4 \/ half >= n THEN 0 ELSE Lo(half, room)

\* q is the path after the pointer is gone: an emptied root becomes a leaf.
DelPtr(p, q, l, slot) ==
    CASE Nr(Node(q, l)) = 0 /\ l = p.root.level -> [Bug(q, l # 1) EXCEPT !.root.level = 0]
      [] slot = 0 /\ (Nr(Node(q, l)) > 0 \/ l # p.root.level) ->
           fixup_low_keys(q, (IF Nr(Node(q, l)) = 0 THEN Node(p, l) ELSE Node(q, l)).it[1].k, l + 1)
      [] OTHER -> q

btrfs_del_ptr(p, l, slot) ==
    DelPtr(p, SetNode(p, l, RemoveSlots(Node(p, l).it, slot, 1)), l, slot)

insert_ptr(p, l, slot, k, b) ==
    LET up == Node(p, l) IN
    Bug(SetNode(p, l, InsertAtSlot(up.it, slot, Ptr(k, b))),
        slot > Nr(up) \/ Nr(up) = setup.ptrs)

insert_new_root(p, l) ==
    [p EXCEPT !.root = Block(l, <<Ptr(p.root.it[1].k, p.root)>>), !.slots[l] = 0]

\* the contents of the node at a slot of the parent, none when there is no such slot
read_node_slot(up, slot) ==
    IF slot \in 0 .. Nr(up) - 1 THEN up.it[slot + 1].sub.it ELSE <<>>

\* A node and its neighbours below one parent: their contents, and which there are.
\* The first node has no left neighbour and the last no right one (an empty sequence).
Siblings(up, slot, M) ==
    [L |-> read_node_slot(up, slot - 1), M |-> M, R |-> read_node_slot(up, slot + 1),
     left |-> slot > 0, right |-> slot < Nr(up) - 1]
ToLeft(b, n) == [b EXCEPT !.L = @ \o Take(b.M, n), !.M = Drop(b.M, n)]
FromLeft(b, n) == [b EXCEPT !.L = Take(b.L, Len(b.L) - n),
                            !.M = Drop(b.L, Len(b.L) - n) \o b.M]
FromRight(b, n) == [b EXCEPT !.M = @ \o Take(b.R, n), !.R = Drop(b.R, n)]
ToRight(b, n) == [b EXCEPT !.M = Take(b.M, Len(b.M) - n),
                           !.R = Drop(b.M, Len(b.M) - n) \o b.R]

\* The path stays at its pointer: n is its place counted from the start of the left
\* block, which now holds len; or len is what the path's own block keeps of a push right.
FollowLeft(p, l, n, len) ==
    IF len > n THEN SetSlot(SetSlot(p, l + 1, p.slots[l + 1] - 1), l, n)
               ELSE SetSlot(p, l, n - len)
FollowRight(p, l, len) ==
    IF p.slots[l] >= len
    THEN SetSlot(SetSlot(p, l, p.slots[l] - len), l + 1, p.slots[l + 1] + 1) ELSE p

\* Two neighbouring children and the key of the second.
SetPair(p, l, slot, a, b) ==
    SetKey(SetChild(SetChild(p, l, slot, a), l, slot + 1, b), l, slot + 1, b[1].k)

\* What balance_level moves: to the left neighbour what fits, from the right one what
\* fits; a node left with one pointer is helped by the left neighbour, or joins it.
Squeeze(b) == IF b.left THEN ToLeft(b, push_node_left(b.L, b.M, TRUE)) ELSE b
Refill(b) == IF b.right THEN FromRight(b, push_node_left(b.M, b.R, TRUE)) ELSE b
NotAlone(b, n) == IF n > 0 THEN FromLeft(b, n) ELSE ToLeft(b, push_node_left(b.L, b.M, TRUE))
Rescue(b) == IF Len(b.M) = 1 /\ b.left THEN NotAlone(b, balance_node_right(b.M, b.L)) ELSE b

PutLeft(p, l, slot, b) == IF b.left THEN SetChild(p, l, slot - 1, b.L) ELSE p
PutRight(p, l, slot, b) ==
    CASE ~b.right -> p
      [] b.right /\ b.R = <<>> -> btrfs_del_ptr(p, l, slot + 1)
      [] OTHER -> SetKey(SetChild(p, l, slot + 1, b.R), l, slot + 1, b.R[1].k)
PutMiddle(p, l, slot, b) == IF b.M = <<>> THEN btrfs_del_ptr(p, l, slot)
                                          ELSE SetKey(p, l, slot, b.M[1].k)
Relink(p, l, slot, b) ==
    PutMiddle(PutRight(PutLeft(SetChild(p, l, slot, b.M), l, slot, b), l, slot, b), l, slot, b)

\* The path has to end at the child c where it was before.
Settle(p, l, c, stuck) ==
    Bug(p, \/ stuck
           \/ p.slots[l] >= Nr(Node(p, l))
           \/ Node(p, l).it[p.slots[l] + 1].sub # c)
Rebalance(p, l, from, moved, b) ==
    Settle(IF b.left THEN FollowLeft(Relink(p, l + 1, p.slots[l + 1], b), l,
                                     p.slots[l] + Len(from.L), Len(b.L))
                     ELSE Relink(p, l + 1, p.slots[l + 1], b),
           l, from.M[p.slots[l] + 1].sub, Len(moved.M) = 1 /\ b = moved)
Balance(p, l, from, moved) == Rebalance(p, l, from, moved, Rescue(moved))
BalanceNode(p, l, b) == Balance(p, l, b, Refill(Squeeze(b)))

\* Merge a node that is a quarter full with its neighbours, before a deletion.
balance_level(p, l) ==
    IF Nr(Node(p, l)) > setup.ptrs \div 4 THEN p
    ELSE BalanceNode(p, l, Siblings(Node(p, l + 1), p.slots[l + 1], Node(p, l).it))

\* Room for an insertion is made by a push to the left, else by a push to the right.
Pushed(p) == [pushed |-> TRUE, path |-> p]
NotPushed(p) == [pushed |-> FALSE, path |-> p]
LeftRoom(b) == IF ~b.left \/ Len(b.L) >= setup.ptrs - 1 THEN 0 ELSE push_node_left(b.L, b.M, FALSE)
RightRoom(b) == IF ~b.right \/ Len(b.R) >= setup.ptrs - 1 THEN 0 ELSE balance_node_right(b.R, b.M)
PushLeft(p, l, slot, n, b) == FollowLeft(SetPair(p, l + 1, slot - 1, b.L, b.M), l, n, Len(b.L))
PushRight(p, l, slot, b) == FollowRight(SetPair(p, l + 1, slot, b.M, b.R), l, Len(b.M))
PushNodes(p, l, slot, b, left, right) ==
    CASE left > 0 -> Pushed(PushLeft(p, l, slot, p.slots[l] + Len(b.L), ToLeft(b, left)))
      [] left = 0 /\ right > 0 -> Pushed(PushRight(p, l, slot, ToRight(b, right)))
      [] OTHER -> NotPushed(p)
PushSiblings(p, l, slot, b) == PushNodes(p, l, slot, b, LeftRoom(b), RightRoom(b))
push_nodes_for_insert(p, l) ==
    PushSiblings(p, l, p.slots[l + 1], Siblings(Node(p, l + 1), p.slots[l + 1], Node(p, l).it))

\* What block c of the path holds from mid on goes to a new block.
SplitOff(p, l, c, mid) ==
    FollowRight(insert_ptr(SetNode(p, l, Take(c, mid)), l + 1, p.slots[l + 1] + 1,
                           c[mid + 1].k, Block(l, Drop(c, mid))), l, mid)
SplitHalf(p, l, c) == SplitOff(p, l, c, (Len(c) + 1) \div 2)
SplitUnlessRoom(try, l) ==
    IF try.pushed /\ Nr(Node(try.path, l)) < setup.ptrs - 3 THEN try.path
    ELSE SplitHalf(try.path, l, Node(try.path, l).it)
split_node(p, l) ==
    IF l = p.root.level THEN SplitHalf(insert_new_root(p, l + 1), l, p.root.it)
    ELSE SplitUnlessRoom(push_nodes_for_insert(p, l), l)

-----------------------------------------------------------------------------
(* Moving items between leaves. *)

\* How many items leave q, in the order given, when the new item of need bytes
\* belongs at position at of that order.
RECURSIVE Fitting(_, _, _, _, _, _)
Fitting(q, i, at, need, space, room) ==
    LET here == space + (IF i = at THEN need + setup.head ELSE 0) IN
    IF i > Len(q) \/ q[i].size + setup.head + here > room THEN 0
    ELSE 1 + Fitting(q, i + 1, at, need, here + q[i].size + setup.head, room)

Backwards(q) == [i \in 1 .. Len(q) |-> q[Len(q) + 1 - i]]

MoveRight(p, left, right, keep) ==
    Pushed(FollowRight(SetPair(p, 1, p.slots[1], Take(left, keep), Drop(left, keep) \o right),
                       0, keep))
TryRight(p, left, right, n) ==
    IF n = 0 THEN NotPushed(p) ELSE MoveRight(p, left, right, Len(left) - n)
LeafRight(p, left, right, need, empty) ==
    IF btrfs_leaf_free_space(right) < need \/ left = <<>> THEN NotPushed(p)
    ELSE TryRight(p, left, right,
                  Fitting(Backwards(IF empty THEN left ELSE Tail(left)), 1,
                          Len(left) - p.slots[0], need, 0, btrfs_leaf_free_space(right)))
push_leaf_right(p, need, empty) ==
    IF ~HasNode(p, 1) THEN NotPushed(p)
    ELSE IF p.slots[1] >= Nr(Node(p, 1)) - 1 THEN NotPushed(p)
    ELSE LeafRight(p, Node(p, 0).it, read_node_slot(Node(p, 1), p.slots[1] + 1), need, empty)

\* The key of a leaf that is emptied is read from the item that was its first.
MoveLeft(p, left, right, n) ==
    Pushed(Bug(FollowLeft(fixup_low_keys(SetChild(SetChild(p, 1, p.slots[1] - 1,
                                                           left \o Take(right, n)),
                                                  1, p.slots[1], Drop(right, n)),
                                         right[IF n = Len(right) THEN 1 ELSE n + 1].k, 1),
                          0, p.slots[0] + Len(left), Len(left) + n),
               left = <<>>))
TryLeft(p, left, right, n) == IF n = 0 THEN NotPushed(p) ELSE MoveLeft(p, left, right, n)
LeafLeft(p, left, right, need, empty) ==
    IF right = <<>> \/ btrfs_leaf_free_space(left) < need THEN NotPushed(p)
    ELSE TryLeft(p, left, right,
                 Fitting(IF empty THEN right ELSE Take(right, Len(right) - 1), 1,
                         p.slots[0] + 1, need, 0, btrfs_leaf_free_space(left)))
push_leaf_left(p, need, empty) ==
    IF p.slots[1] = 0 \/ ~HasNode(p, 1) THEN NotPushed(p)
    ELSE LeafLeft(p, read_node_slot(Node(p, 1), p.slots[1] - 1), Node(p, 0).it, need, empty)

\* The items from mid on go to a new leaf.  With mid past the last item the key
\* and the data offset of an item that does not exist would be used.
copy_for_split(p, mid) ==
    IF mid >= Nr(Node(p, 0)) THEN Bug(p, TRUE) ELSE SplitOff(p, 0, Node(p, 0).it, mid)

\* An empty leaf for the new item, after or before the leaf of the path.
NewLeaf(p, k, slot) ==
    SetSlot(SetSlot(insert_ptr(p, 1, slot, k, Block(0, <<>>)), 0, 0), 1, slot)
EmptyLeaf(p, k, after) ==
    CASE after -> NewLeaf(p, k, p.slots[1] + 1)
      [] ~after /\ p.slots[1] > 0 -> NewLeaf(p, k, p.slots[1])
      [] OTHER -> fixup_low_keys(NewLeaf(p, k, 0), k, 1)

\* One round of the loop of split_leaf: where to split, and whether once more.
Over(l, start, nr, need) == leaf_space_used(l, start, nr) + need > setup.leaf
Tight(l, slot, half, need) ==
    IF half <= slot THEN Len(l) = 1 \/ Over(l, half, Len(l) - half, need)
                    ELSE Over(l, 0, half, need)
RECURSIVE SplitRound(_, _, _, _, _)
SplitTwice(p, k, need, extend, again) ==
    IF again \/ p.bug THEN Bug(p, TRUE) ELSE SplitRound(p, k, need, extend, TRUE)
SplitAround(p, k, need, extend, again, l, slot) ==
    IF slot # Len(l) /\ Over(l, slot, Len(l) - slot, need)
    THEN SplitTwice(copy_for_split(p, slot), k, need, extend, again)
    ELSE copy_for_split(p, slot)
SplitTight(p, k, need, extend, again, l, slot, atEnd) ==
    CASE atEnd /\ slot >= Len(l) -> EmptyLeaf(p, k, TRUE)
      [] ~atEnd /\ slot = 0 /\ ~extend /\ need > 0 -> EmptyLeaf(p, k, FALSE)
      [] ~atEnd /\ slot = 0 /\ (extend \/ need = 0) -> copy_for_split(p, 1)
      [] OTHER -> SplitAround(p, k, need, extend, again, l, slot)
SplitWhere(p, k, need, extend, again, l, half) ==
    IF Tight(l, p.slots[0], half, need)
    THEN SplitTight(p, k, need, extend, again, l, p.slots[0], half <= p.slots[0])
    ELSE copy_for_split(p, half)
SplitRound(p, k, need, extend, again) ==
    SplitWhere(p, k, need, extend, again, Node(p, 0).it, (Nr(Node(p, 0)) + 1) \div 2)

PushEither(p, right, need) == IF right.pushed THEN right.path ELSE push_leaf_left(p, need, FALSE).path
SplitInRoom(p, k, need, extend) ==
    SplitRound(IF HasNode(p, 1) THEN p ELSE insert_new_root(p, 1), k, need, extend, FALSE)
SplitIfTight(p, k, need, extend) ==
    IF btrfs_leaf_free_space(Node(p, 0).it) >= need THEN p ELSE SplitInRoom(p, k, need, extend)
split_leaf(p, k, need, extend) ==
    IF need > 0 /\ k \notin setup.dir
    THEN SplitIfTight(PushEither(p, push_leaf_right(p, need, FALSE), need), k, need, extend)
    ELSE SplitInRoom(p, k, need, extend)

-----------------------------------------------------------------------------
(* btrfs_search_slot: ins is ins_len, forSplit is path->search_for_split. *)

RECURSIVE Descend(_, _, _, _, _)
AtLeaf(p, b, r, k, ins) ==
    [ret |-> IF r.found THEN 0 ELSE 1,
     path |-> IF ins > 0 /\ ins > btrfs_leaf_free_space(b.it)
              THEN split_leaf(p, k, ins, r.found) ELSE p]
Merged(p, l, k, ins, forSplit) ==
    Descend(Bug(p, Nr(Node(p, l)) = 1), l - 1, k, ins, forSplit)
AtNode(p, l, b, k, ins, forSplit) ==
    CASE (forSplit \/ ins > 0) /\ Nr(b) >= setup.ptrs - 3 ->
           Descend(split_node(p, l), l - 1, k, ins, forSplit)
      [] ins < 0 /\ l = p.root.level /\ Nr(b) = 1 ->
           Descend([p EXCEPT !.root = b.it[1].sub], l - 1, k, ins, forSplit)
      [] ins < 0 /\ l # p.root.level -> Merged(balance_level(p, l), l, k, ins, forSplit)
      [] OTHER -> Descend(p, l - 1, k, ins, forSplit)
Visit(p, l, b, r, k, ins, forSplit) ==
    IF l = 0 THEN AtLeaf(SetSlot(p, 0, r.slot), b, r, k, ins)
    ELSE AtNode(SetSlot(p, l, IF ~r.found /\ r.slot > 0 THEN r.slot - 1 ELSE r.slot),
                l, b, k, ins, forSplit)
Descend(p, l, k, ins, forSplit) ==
    IF p.bug \/ ~check_block(p, l) THEN [path |-> p, ret |-> -1]
    ELSE Visit(p, l, Node(p, l), bin_search(Node(p, l), k), k, ins, forSplit)

btrfs_search_slot(tree, k, ins, forSplit) == Descend(NoPath(tree), tree.level, k, ins, forSplit)

-----------------------------------------------------------------------------
(* The operations on items; p is the path that a search has filled. *)

btrfs_insert_empty_item(p, k, size) ==
    LET l == Node(p, 0).it
        q == SetNode(p, 0, InsertAtSlot(l, p.slots[0], [k |-> k, size |-> size]))
    IN  Bug(IF p.slots[0] = 0 THEN fixup_low_keys(q, k, 1) ELSE q,
            btrfs_leaf_free_space(l) < size + setup.head)

btrfs_del_leaf(p) == btrfs_del_ptr(p, 1, p.slots[1])


\* The leaf is merged with its neighbours: own is its slot, which a push may leave empty.
DropEmpty(p, back) == IF HasNode(p, 1) /\ Node(back, 0).it = <<>> THEN btrfs_del_leaf(back) ELSE p
DropOwn(p, own) == DropEmpty(p, SetSlot(p, 1, own))
MergeRight(p, own) ==
    DropOwn(IF p.slots[1] = own /\ HasNode(p, 1) /\ Node(p, 0).it # <<>>
            THEN push_leaf_right(p, 1, TRUE).path ELSE p, own)
MergeLeaf(p) == MergeRight(push_leaf_left(p, 1, TRUE).path, p.slots[1])
FixFirst(p, slot, l) == IF slot = 0 THEN fixup_low_keys(p, l[1].k, 1) ELSE p
DelItems(p, slot, l) ==
    CASE l = <<>> -> IF p.root.level = 0 THEN p ELSE btrfs_del_leaf(p)
      [] l # <<>> /\ leaf_space_used(l, 0, Len(l)) >= setup.leaf \div 4 -> FixFirst(p, slot, l)
      [] OTHER -> MergeLeaf(FixFirst(p, slot, l))
SetLeaf(p, slot, l) == DelItems(SetNode(p, 0, l), slot, l)
btrfs_del_items(p, slot, nr) == SetLeaf(p, slot, RemoveSlots(Node(p, 0).it, slot, nr))

btrfs_extend_item(p, more) ==
    LET l == Node(p, 0).it IN
    IF p.slots[0] >= Len(l) THEN Bug(p, TRUE)
    ELSE Bug(SetNode(p, 0, [l EXCEPT ![p.slots[0] + 1].size = @ + more]),
             btrfs_leaf_free_space(l) < more)

\* Cut at the front, the key of the item moves by what was cut.
btrfs_truncate_item(p, size, fromEnd) ==
    LET l == Node(p, 0).it
        i == l[p.slots[0] + 1]
        k == IF fromEnd THEN i.k ELSE i.k + (i.size - size)
        q == SetNode(p, 0, [l EXCEPT ![p.slots[0] + 1] = [k |-> k, size |-> size]])
    IN  IF i.size = size THEN p
        ELSE IF ~fromEnd /\ p.slots[0] = 0 THEN fixup_low_keys(q, k, 1) ELSE q

btrfs_set_item_key_safe(p, k) ==
    LET l == Node(p, 0).it
        slot == p.slots[0]
        q == SetNode(p, 0, [l EXCEPT ![slot + 1].k = k])
        ok == /\ slot > 0 => l[slot].k < k
              /\ slot < Len(l) - 1 => l[slot + 2].k > k
    IN  [ret |-> IF ok THEN 0 ELSE -1,
         path |-> IF ~ok THEN p ELSE IF slot = 0 THEN fixup_low_keys(q, k, 1) ELSE q]

\* The second half of btrfs_split_item, after the label split.
SplitItem(p, k, at) ==
    LET l == Node(p, 0).it
        i == l[p.slots[0] + 1]
        q == InsertAtSlot([l EXCEPT ![p.slots[0] + 1].size = at], p.slots[0] + 1,
                          [k |-> k, size |-> i.size - at])
    IN  Bug(SetNode(p, 0, q), btrfs_leaf_free_space(q) < 0)

-----------------------------------------------------------------------------
(* The walks between leaves, and what a tree holds. *)

\* the lowest level above the leaves whose slot can move, or none
Lowest(levels) == {l \in levels : \A m \in levels : l <= m}

btrfs_next_leaf_KeepsSlots(p) ==
    LET turn == Lowest({l \in 1 .. p.root.level : p.slots[l] + 1 < Nr(Node(p, l))}) IN
    {SetSlot(p, l, p.slots[l] + 1) : l \in turn}

btrfs_next_leaf(p) ==
    LET turn == Lowest({l \in 1 .. p.root.level : p.slots[l] + 1 < Nr(Node(p, l))}) IN
    {[p EXCEPT !.slots = [m \in Levels |-> IF m = l THEN p.slots[l] + 1
                                           ELSE IF m < l THEN 0 ELSE p.slots[m]]] : l \in turn}

RECURSIVE LastSlots(_, _)
LastSlots(p, l) ==
    IF l < 0 THEN p
    ELSE LET n == Nr(Node(p, l)) IN LastSlots(SetSlot(p, l, IF n = 0 THEN 0 ELSE n - 1), l - 1)

btrfs_prev_leaf(p) ==
    LET turn == Lowest({l \in 1 .. p.root.level : p.slots[l] # 0}) IN
    {LastSlots(SetSlot(p, l, p.slots[l] - 1), l - 1) : l \in turn}

RECURSIVE ItemsOf(_)
ItemsOf(b) == IF b.level = 0 THEN b.it
              ELSE LET rest[i \in 0 .. Nr(b)] ==
                         IF i = 0 THEN <<>> ELSE rest[i - 1] \o ItemsOf(b.it[i].sub)
                   IN  rest[Nr(b)]

items == ItemsOf(root)
RECURSIVE AsMap(_)
AsMap(q) == IF q = <<>> THEN <<>> ELSE (Head(q).k :> Head(q).size) @@ AsMap(Tail(q))
contents == AsMap(items)
keys == DOMAIN contents
SizeOf(k) == contents[k]

-----------------------------------------------------------------------------
(* The calls. *)

Init ==
    /\ setup \in Setups
    /\ root = Block(0, <<>>)
    /\ bug = FALSE

Done(r, path) == \E p \in {path} :
    /\ root' = p.root
    /\ bug' = (p.bug \/ r.ret < 0)
    /\ UNCHANGED setup

\* Where search and insertion meet a present key, the two items fit one leaf together
\* (hash collisions chain their names in one item): split_leaf relies on it.
btrfs_insert_item(k, size) ==
    /\ size + setup.head <= setup.leaf
    /\ k \in keys => SizeOf(k) + size + 2 * setup.head <= setup.leaf
    /\ \E r \in {btrfs_search_slot(root, k, size + setup.head, FALSE)} :
       Done(r, IF r.ret = 1 THEN btrfs_insert_empty_item(r.path, k, size) ELSE r.path)

DeleteItems(k, nr) == \E r \in {btrfs_search_slot(root, k, -1, FALSE)} :
    /\ r.ret = 0 => r.path.slots[0] + nr <= Nr(Node(r.path, 0))
    /\ Done(r, IF r.ret = 0 THEN btrfs_del_items(r.path, r.path.slots[0], nr) ELSE r.path)

ExtendItem(k, more) ==
    /\ k \in keys /\ SizeOf(k) + more + setup.head <= setup.leaf
    /\ \E r \in {btrfs_search_slot(root, k, more, FALSE)} :
       Done(r, IF r.ret = 0 THEN btrfs_extend_item(r.path, more) ELSE r.path)

\* A change of key keeps the item between its neighbours (the callers' promise).
Between(k, j) == j \in setup.keys \ keys /\ \A i \in keys \ {k} : (i < k) <=> (i < j)

TruncateItem(k, size, fromEnd) ==
    /\ k \in keys /\ size < SizeOf(k)
    /\ fromEnd \/ Between(k, k + (SizeOf(k) - size))
    /\ \E r \in {btrfs_search_slot(root, k, -1, FALSE)} :
       Done(r, IF r.ret = 0 THEN btrfs_truncate_item(r.path, size, fromEnd) ELSE r.path)

SetItemKey(k, j) ==
    /\ k \in keys /\ Between(k, j)
    /\ \E r \in {btrfs_search_slot(root, k, -1, FALSE)} :
       \E s \in {IF r.ret = 0 THEN btrfs_set_item_key_safe(r.path, j) ELSE r} : Done(s, s.path)

\* The item is small enough to live alone in a leaf with room for one more header.
btrfs_split_item(k, j, at) ==
    /\ k \in keys /\ j > k /\ Between(k, j) /\ at \in 1 .. SizeOf(k) - 1
    /\ SizeOf(k) + 2 * setup.head <= setup.leaf
    /\ \E first \in {btrfs_search_slot(root, k, -1, FALSE)} :
       \E again \in {btrfs_search_slot(first.path.root, k, 0, TRUE)} :
       IF first.ret # 0 \/ again.ret # 0 THEN Done([ret |-> -1], first.path)
       ELSE Done(first, SplitItem(IF btrfs_leaf_free_space(Node(first.path, 0).it) >= setup.head
                                  THEN first.path ELSE split_leaf(again.path, k, 0, FALSE),
                                  j, at))

Next ==
    /\ ~bug
    /\ \/ \E k \in setup.keys, n \in setup.sizes : btrfs_insert_item(k, n)
       \/ \E k \in setup.keys, nr \in 1 .. 2 : DeleteItems(k, nr)
       \/ \E k \in setup.keys, n \in setup.sizes :
             "resize" \in setup.calls /\ (ExtendItem(k, n) \/ TruncateItem(k, n, TRUE))
       \/ \E k, j \in setup.keys, n \in setup.sizes :
             /\ "rekey" \in setup.calls
             /\ \/ TruncateItem(k, n, FALSE)
                \/ SetItemKey(k, j)
                \/ btrfs_split_item(k, j, n)

Spec == Init /\ [][Next]_vars

-----------------------------------------------------------------------------
(* Properties. *)

RECURSIVE Sound(_, _)
Sound(b, isRoot) ==
    /\ \A i \in 1 .. Nr(b) - 1 : b.it[i].k < b.it[i + 1].k
    /\ isRoot \/ Nr(b) > 0
    /\ b.level = 0 => btrfs_leaf_free_space(b.it) >= 0
    /\ b.level > 0 =>
          /\ Nr(b) \in 1 .. setup.ptrs
          /\ \A i \in 1 .. Nr(b) :
                LET c == b.it[i].sub IN
                c.level = b.level - 1 /\ Sound(c, FALSE) /\ c.it[1].k = b.it[i].k

\* After every call the tree is in order (what btrfs_check_node and btrfs_check_leaf
\* look for, the last pair of keys included): keys ascend in every block, the key of
\* a pointer is the first key of its child, no leaf holds more than fits, no node is
\* empty or overfull and all leaves are at level 0.
InOrder == Sound(root, TRUE)

\* No call hits a BUG_ON of ctree.c, reads past the items of a block, or refuses a
\* block of the tree: room that was made is enough (btrfs_insert_empty_items,
\* btrfs_extend_item), a merge finds a neighbour and keeps its place (balance_level),
\* a leaf is split at most twice (split_leaf).
NoBug == ~bug

\* What a search for k has found: the slot in leaf l, or the place where k belongs.
Finds(k, ret, l, slot) ==
    /\ ret = (IF k \in keys THEN 0 ELSE 1)
    /\ ret = 0 => l[slot + 1].k = k
    /\ ret = 1 => \A j \in keys :
          /\ slot > 0 /\ j < k => j <= l[slot].k
          /\ slot < Len(l) /\ j > k => j >= l[slot + 1].k

\* btrfs_search_slot finds exactly the keys that are in the tree, and leads an absent
\* key to the place between its neighbours.
SearchFinds ==
    \A k \in setup.keys : \E r \in {btrfs_search_slot(root, k, 0, FALSE)} :
        Finds(k, r.ret, Node(r.path, 0).it, r.path.slots[0])

\* Every call leaves a tree in order that searches find their way in, and meets no
\* BUG_ON on the way there.
TreeSound == NoBug /\ InOrder /\ SearchFinds

RECURSIVE Forward(_)
Forward(p) == Node(p, 0).it \o
    (IF btrfs_next_leaf(p) = {} THEN <<>> ELSE Forward(CHOOSE q \in btrfs_next_leaf(p) : TRUE))

RECURSIVE Backward(_)
Backward(p) ==
    (IF btrfs_prev_leaf(p) = {} THEN <<>> ELSE Backward(CHOOSE q \in btrfs_prev_leaf(p) : TRUE))
    \o Node(p, 0).it

\* A walk with btrfs_next_leaf from the first leaf, and one with btrfs_prev_leaf from
\* the last, meet every item of the tree once, in the order of the keys.
WalksMeet ==
    /\ Forward(NoPath(root)) = items
    /\ Backward(LastSlots(NoPath(root), root.level)) = items

\* The tree implements a map: an insertion adds its item and nothing else, a deletion
\* takes away exactly the items asked for, and the pushes, splits and merges on the
\* way move items without losing or changing one.
Map == INSTANCE ItemMap WITH map <- contents
=============================================================================

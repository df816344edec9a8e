----------------------------- MODULE CowCommit -----------------------------
(***************************************************************************)
(* Copy-on-write trees, the extent allocator and the transaction commit of *)
(* ctree.c, extent-tree.c, disk-io.c and transaction.h, with a process     *)
(* crash between any two device writes.                                    *)
(*                                                                         *)
(* Three trees are modelled: the root tree (one block, whose items point   *)
(* to the other roots), the extent tree (a root node and leaves, whose     *)
(* items are the allocated blocks) and one file tree (a root node and      *)
(* leaves with a value each).  A tree block lives at a "place" of a tree;  *)
(* copy-on-write moves the place to another block.                         *)
(***************************************************************************)
EXTENDS Integers, FiniteSets

CONSTANTS
    Blocks,      \* addresses of tree blocks in the metadata block group
    NoBlock,     \* a null block pointer
    FsLeaves,    \* leaves the file tree can have
    ExtLeaves,   \* leaves the extent tree can have
    LeafOf,      \* the extent-tree leaf that holds the item of a block
    BgLeaf,      \* the extent-tree leaf that holds the block group item
    Values,      \* contents of a file-tree leaf
    NoValue,     \* contents of a block that is not a file-tree leaf
    NumMirrors,  \* super block copies, written in order
    MaxGen,      \* bound on the generations a behaviour goes through
    MaxCalls,    \* bound on the file-tree operations of a transaction
    MaxCrashes,  \* bound on the crashes of a behaviour
    FirstLayout  \* places of the trees mkfs wrote -> their blocks

Roots == {"root_tree", "extent_root", "fs_root"}

\* A block holds one place at most, mkfs writes the three roots and the leaf
\* of the block group item, and every block it writes has an extent item.
ASSUME CowAssumption ==
    /\ Blocks \subseteq Nat /\ IsFiniteSet(Blocks) /\ NoBlock \notin Blocks
    /\ Roots \cap FsLeaves = {} /\ Roots \cap ExtLeaves = {}
    /\ FsLeaves \cap ExtLeaves = {}
    /\ LeafOf \in [Blocks -> ExtLeaves] /\ BgLeaf \in ExtLeaves
    /\ Values # {} /\ NoValue \notin Values
    /\ NumMirrors \in Nat \ {0} /\ MaxGen \in Nat \ {0}
    /\ MaxCalls \in Nat /\ MaxCrashes \in Nat
    /\ Roots \cup {BgLeaf} \subseteq DOMAIN FirstLayout
    /\ DOMAIN FirstLayout \subseteq Roots \cup FsLeaves \cup ExtLeaves
    /\ FirstLayout \in [DOMAIN FirstLayout -> Blocks]
    /\ \A p, q \in DOMAIN FirstLayout : FirstLayout[p] = FirstLayout[q] => p = q
    /\ \A p \in DOMAIN FirstLayout : LeafOf[FirstLayout[p]] \in DOMAIN FirstLayout

Places == Roots \cup FsLeaves \cup ExtLeaves
Mirrors == 0 .. NumMirrors - 1

VARIABLES
    disk,             \* block -> what the device holds
    super,            \* mirror -> super block on the device
    cache,            \* block -> contents of its extent buffer
    dirty,            \* buffers marked dirty in fs_info->extent_cache
    node,             \* root->node of each tree
    commit_root,      \* root->commit_root of the file tree
    dirty_roots,      \* fs_info->dirty_cowonly_roots
    free_space_cache, \* fs_info->free_space_cache
    pinned_extents,   \* fs_info->pinned_extents
    extent_ins,       \* fs_info->extent_ins: items still to be inserted
    pending_del,      \* fs_info->pending_del: extents still to be freed
    generation,       \* fs_info->generation, the id of the last transaction
    used,             \* bytes used in the block group, in blocks
    bg_dirty,         \* BLOCK_GROUP_DIRTY
    item,             \* extent item operation in progress
    cont,             \* what follows once an allocation has returned
    goal,             \* the tree operation in progress
    pc,               \* progress of the transaction
    mirror,           \* next super block copy to write
    calls,            \* file-tree operations of this transaction
    crashes           \* crashes so far

memory == <<cache, dirty, node, commit_root, dirty_roots, free_space_cache,
            pinned_extents, extent_ins, pending_del, generation, used,
            bg_dirty>>
control == <<item, cont, goal, pc, mirror, calls, crashes>>
vars == <<disk, super, memory, control>>

-----------------------------------------------------------------------------
(* Block contents *)

NoPtr == [blk |-> NoBlock, gen |-> 0]
Ptrs == [blk : Blocks, gen : 1 .. MaxGen] \cup {NoPtr}

\* A tree block: header generation and WRITTEN flag, child pointers, extent
\* items and block group item of an extent leaf, value of a file leaf.
Images == [gen : 0 .. MaxGen, written : BOOLEAN, kid : [Places -> Ptrs],
           items : SUBSET Blocks, used : Int, val : Values \cup {NoValue}]

RootOf(p) == IF p \in ExtLeaves THEN "extent_root"
             ELSE IF p \in FsLeaves THEN "fs_root" ELSE p

\* Block that holds place p of the trees with root nodes nd and block contents
\* img, NoBlock if there is none; then the same for the trees in memory.
At(img, nd, p) == IF p \in Roots THEN nd[p] ELSE img[nd[RootOf(p)]].kid[p].blk
Where(p) == At(cache, node, p)

-----------------------------------------------------------------------------
(* What can be read back from the device *)

\* The copy btrfs_read_dev_super keeps: scanning from mirror 0, a copy
\* replaces the one kept when its generation is higher.
BestMirror == CHOOSE m \in Mirrors :
                 /\ \A k \in Mirrors : super[k].generation <= super[m].generation
                 /\ \A k \in 0 .. m - 1 : super[k].generation < super[m].generation
Newest == super[BestMirror]

DiskNode == [r \in Roots |-> IF r = "root_tree" THEN Newest.root
                             ELSE disk[Newest.root].kid[r].blk]
DiskWhere(p) == At(disk, DiskNode, p)
DiskPlaces == {p \in Places : DiskWhere(p) # NoBlock}
Durable == {DiskWhere(p) : p \in DiskPlaces}
DiskItems == UNION {disk[DiskWhere(p)].items : p \in DiskPlaces \cap ExtLeaves}

-----------------------------------------------------------------------------
(* Helpers of the operations *)

\* An operation in progress: kind, place, block and value it is about, and
\* the place that has to be writable first.
NoOp == [op |-> "none", pos |-> "root_tree", via |-> "root_tree",
         blk |-> NoBlock, val |-> NoValue]
ItemOp(k, b) == [NoOp EXCEPT !.op = k, !.blk = b]
BgOp == [NoOp EXCEPT !.op = "bg"]
ContOp(k, p, b) == [NoOp EXCEPT !.op = k, !.pos = p, !.blk = b]
GoalOp(k, p, via, v) == [op |-> k, pos |-> p, via |-> via, blk |-> NoBlock, val |-> v]
RootGoal == [NoOp EXCEPT !.op = "root"]
\* finish_current_insert and del_pending_extents have nothing left to do.
Drained == item = NoOp /\ extent_ins = {} /\ pending_del = {}

\* find_first_extent_bit: the lowest block of a set, if it has one.
First(S) == {b \in S : \A c \in S : b <= c}

\* should_cow_block: a block of this transaction that was not written yet is
\* changed in place.
should_cow_block(b) == ~(cache[b].gen = generation /\ ~cache[b].written)

\* find_free_extent: the first free block that is neither waiting for its
\* extent item nor pinned; btrfs_reserve_extent takes it out of the cache.
find_free_extent == First(free_space_cache \ (extent_ins \cup pinned_extents))

copy_of(b) == [cache[b] EXCEPT !.gen = generation, !.written = FALSE]
ptr_to(b) == [blk |-> b, gen |-> generation]
fresh_leaf(v) == [gen |-> generation, written |-> FALSE,
                  kid |-> [p \in Places |-> NoPtr], items |-> {}, used |-> 0,
                  val |-> v]

\* The trees mkfs writes with generation 1: every block has its extent item.
FirstBlocks == {FirstLayout[p] : p \in DOMAIN FirstLayout}
FirstPlace(b) == CHOOSE p \in DOMAIN FirstLayout : FirstLayout[p] = b
FirstPtr(p) == IF p \in DOMAIN FirstLayout
               THEN [blk |-> FirstLayout[p], gen |-> 1] ELSE NoPtr
FirstImage(p) ==
    [gen |-> 1, written |-> TRUE,
     kid |-> [q \in Places |->
                IF (p = "root_tree" /\ q \in Roots \ {"root_tree"})
                   \/ (p \in Roots /\ q \notin Roots /\ RootOf(q) = p)
                THEN FirstPtr(q) ELSE NoPtr],
     items |-> IF p \in ExtLeaves THEN {b \in FirstBlocks : LeafOf[b] = p} ELSE {},
     used |-> IF p = BgLeaf THEN Cardinality(FirstBlocks) ELSE 0,
     val |-> IF p \in FsLeaves THEN CHOOSE v \in Values : TRUE ELSE NoValue]
BlankImage == [gen |-> 0, written |-> FALSE, kid |-> [p \in Places |-> NoPtr],
               items |-> {}, used |-> 0, val |-> NoValue]

Init ==
    /\ disk = [b \in Blocks |-> IF b \in FirstBlocks
                                THEN FirstImage(FirstPlace(b)) ELSE BlankImage]
    /\ super = [m \in Mirrors |-> [generation |-> 1, root |-> FirstLayout["root_tree"],
                                   bytes_used |-> Cardinality(FirstBlocks)]]
    /\ cache = disk
    /\ dirty = {}
    /\ node = [r \in Roots |-> FirstLayout[r]]
    /\ commit_root = NoBlock
    /\ dirty_roots = {}
    /\ free_space_cache = Blocks \ FirstBlocks
    /\ pinned_extents = {} /\ extent_ins = {} /\ pending_del = {}
    /\ generation = 1
    /\ used = Cardinality(FirstBlocks)
    /\ bg_dirty = FALSE
    /\ item = NoOp /\ cont = NoOp /\ goal = NoOp
    /\ pc = "idle" /\ mirror = 0 /\ calls = 0 /\ crashes = 0

-----------------------------------------------------------------------------
(* Extent tree: the operation on one extent item (variable item) first     *)
(* makes its path writable.  Blocks the extent tree itself gains and loses *)
(* on the way are queued in extent_ins and pending_del.                    *)

extent_node == node["extent_root"]
ItemLeaf == IF item.op = "bg" THEN BgLeaf ELSE LeafOf[item.blk]
\* Leaf where btrfs_search_slot ends up: a neighbour when the leaf that will
\* hold a new item does not exist yet.
ItemVia == IF item.op = "ins" /\ Where(ItemLeaf) = NoBlock THEN BgLeaf ELSE ItemLeaf
ExtentPathReady ==
    /\ ~should_cow_block(extent_node)
    /\ Where(ItemVia) # NoBlock
    /\ ~should_cow_block(Where(ItemVia))

\* __btrfs_cow_block on the root node of the extent tree.
CowExtentNode ==
    /\ item # NoOp
    /\ should_cow_block(extent_node)
    /\ \E n \in find_free_extent :
         /\ cache' = [cache EXCEPT ![n] = copy_of(extent_node)]
         /\ dirty' = (dirty \ {extent_node}) \cup {n}
         /\ node' = [node EXCEPT !["extent_root"] = n]
         /\ free_space_cache' = free_space_cache \ {n}
         /\ extent_ins' = extent_ins \cup {n}
         /\ pending_del' = pending_del \cup {extent_node}
         /\ dirty_roots' = dirty_roots \cup {"extent_root"}
    /\ UNCHANGED <<disk, super, commit_root, pinned_extents, generation, used,
                   bg_dirty, control>>

\* __btrfs_cow_block on the extent leaf; its parent is already writable.
CowExtentLeaf ==
    /\ item # NoOp
    /\ ~should_cow_block(extent_node)
    /\ Where(ItemVia) # NoBlock
    /\ should_cow_block(Where(ItemVia))
    /\ LET old == Where(ItemVia) IN
       \E n \in find_free_extent :
         /\ cache' = [cache EXCEPT ![n] = copy_of(old),
                                   ![extent_node].kid[ItemVia] = ptr_to(n)]
         /\ dirty' = (dirty \ {old}) \cup {n, extent_node}
         /\ free_space_cache' = free_space_cache \ {n}
         /\ extent_ins' = extent_ins \cup {n}
         /\ pending_del' = pending_del \cup {old}
    /\ UNCHANGED <<disk, super, node, commit_root, dirty_roots, pinned_extents,
                   generation, used, bg_dirty, control>>

\* split_leaf for an item that has no leaf to go to: a new leaf is linked.
AddExtentLeaf ==
    /\ item.op = "ins"
    /\ ExtentPathReady
    /\ Where(ItemLeaf) = NoBlock
    /\ \E n \in find_free_extent :
         /\ cache' = [cache EXCEPT ![n] = fresh_leaf(NoValue),
                                   ![extent_node].kid[ItemLeaf] = ptr_to(n)]
         /\ dirty' = dirty \cup {n, extent_node, Where(ItemVia)}
         /\ free_space_cache' = free_space_cache \ {n}
         /\ extent_ins' = extent_ins \cup {n}
    /\ UNCHANGED <<disk, super, node, commit_root, dirty_roots, pinned_extents,
                   pending_del, generation, used, bg_dirty, control>>

\* alloc_reserved_tree_block, and the end of a round of finish_current_insert
\* when the block came from extent_ins.
InsertExtentItem ==
    /\ item.op = "ins"
    /\ ExtentPathReady
    /\ Where(ItemLeaf) # NoBlock
    /\ LET leaf == Where(ItemLeaf) IN
         /\ cache' = [cache EXCEPT ![leaf].items = @ \cup {item.blk}]
         /\ dirty' = dirty \cup {leaf}
    /\ used' = used + 1
    /\ bg_dirty' = TRUE
    /\ extent_ins' = extent_ins \ {item.blk}
    /\ item' = NoOp
    /\ UNCHANGED <<disk, super, node, commit_root, dirty_roots, free_space_cache,
                   pinned_extents, pending_del, generation, cont, goal, pc, mirror, calls, crashes>>

\* Faulty variant: every freed block is reused at once.
CanReuseAlways(b) == TRUE

\* pin_down_bytes: a block of this transaction that was never written can be
\* reused at once, any other stays pinned until the commit is over.
CanReuse(b) == cache[b].gen = generation /\ ~cache[b].written

\* __free_extent for the last reference: pin or reuse the block, delete its
\* item, and drop the leaf that the deletion empties (btrfs_del_leaf).
DeleteExtentItem ==
    /\ item.op = "del"
    /\ ExtentPathReady
    /\ LET leaf == Where(ItemLeaf)
           left == cache[leaf].items \ {item.blk}
           reused == {b \in {item.blk} : CanReuse(b)}
       IN /\ IF left = {} /\ ItemLeaf # BgLeaf
             THEN /\ cache' = [cache EXCEPT ![leaf].items = {},
                                            ![extent_node].kid[ItemLeaf] = NoPtr]
                  /\ dirty' = (dirty \ (reused \cup {leaf})) \cup {extent_node}
                  /\ pending_del' = pending_del \cup {leaf}
             ELSE /\ cache' = [cache EXCEPT ![leaf].items = left]
                  /\ dirty' = (dirty \ reused) \cup {leaf}
                  /\ UNCHANGED pending_del
          /\ free_space_cache' = free_space_cache \cup reused
          /\ pinned_extents' = pinned_extents \cup ({item.blk} \ reused)
    /\ used' = used - 1
    /\ bg_dirty' = TRUE
    /\ item' = NoOp
    /\ UNCHANGED <<disk, super, node, commit_root, dirty_roots, extent_ins,
                   generation, cont, goal, pc, mirror, calls, crashes>>

\* Faulty variant: storing the item marks the block group dirty again.
WriteBlockGroupItemDirties ==
    /\ item.op = "bg"
    /\ ExtentPathReady
    /\ cache' = [cache EXCEPT ![Where(BgLeaf)].used = used]
    /\ dirty' = dirty \cup {Where(BgLeaf)}
    /\ item' = NoOp /\ bg_dirty' = TRUE
    /\ UNCHANGED <<disk, super, node, commit_root, dirty_roots, free_space_cache,
                   pinned_extents, extent_ins, pending_del, generation, used,
                   cont, goal, pc, mirror, calls, crashes>>

\* write_one_cache_group: store the block group item.
WriteBlockGroupItem ==
    /\ item.op = "bg"
    /\ ExtentPathReady
    /\ cache' = [cache EXCEPT ![Where(BgLeaf)].used = used]
    /\ dirty' = dirty \cup {Where(BgLeaf)}
    /\ item' = NoOp
    /\ UNCHANGED <<disk, super, node, commit_root, dirty_roots, free_space_cache,
                   pinned_extents, extent_ins, pending_del, generation, used,
                   bg_dirty, cont, goal, pc, mirror, calls, crashes>>

\* finish_current_insert: take the next queued insertion.
FinishCurrentInsert ==
    /\ item = NoOp
    /\ \E b \in First(extent_ins) : item' = ItemOp("ins", b)
    /\ UNCHANGED <<disk, super, memory, cont, goal, pc, mirror, calls, crashes>>

\* del_pending_extents runs when finish_current_insert has emptied extent_ins;
\* each deletion is again followed by finish_current_insert.
DelPendingExtents ==
    /\ item = NoOp
    /\ extent_ins = {}
    /\ \E b \in First(pending_del) :
         /\ item' = ItemOp("del", b)
         /\ pending_del' = pending_del \ {b}
    /\ UNCHANGED <<disk, super, cache, dirty, node, commit_root, dirty_roots,
                   free_space_cache, pinned_extents, extent_ins, generation,
                   used, bg_dirty, cont, goal, pc, mirror, calls, crashes>>

-----------------------------------------------------------------------------
(* File tree and root tree: btrfs_search_slot makes the path of the goal   *)
(* writable from the root down, then the operation itself is done.         *)

NextCow ==
    IF should_cow_block(node[RootOf(goal.via)]) THEN {RootOf(goal.via)}
    ELSE IF should_cow_block(Where(goal.via)) THEN {goal.via} ELSE {}
Ready(op) == goal.op = op /\ cont = NoOp /\ Drained /\ NextCow = {}

\* alloc_tree_block for a tree other than the extent tree: the extent item is
\* inserted at once, then both queues are drained.
Allocate(next, p) ==
    \E n \in find_free_extent :
       /\ free_space_cache' = free_space_cache \ {n}
       /\ item' = ItemOp("ins", n)
       /\ cont' = ContOp(next, p, n)
       /\ UNCHANGED <<disk, super, cache, dirty, node, commit_root, dirty_roots,
                      pinned_extents, extent_ins, pending_del, generation, used,
                      bg_dirty, goal, pc, mirror, calls, crashes>>

CowBlock ==
    /\ goal # NoOp
    /\ cont = NoOp /\ Drained
    /\ \E p \in NextCow : Allocate("attach", p)

\* The rest of __btrfs_cow_block: copy, repoint the parent, free the old block.
AttachCow ==
    /\ cont.op = "attach"
    /\ Drained
    /\ LET p == cont.pos
           new == cont.blk
           old == Where(p)
           parent == node[RootOf(p)]
       IN IF p \in Roots
          THEN /\ cache' = [cache EXCEPT ![new] = copy_of(old)]
               /\ node' = [node EXCEPT ![p] = new]
               /\ dirty' = (dirty \ {old}) \cup {new}
               /\ item' = ItemOp("del", old)
          ELSE /\ cache' = [cache EXCEPT ![new] = copy_of(old),
                                         ![parent].kid[p] = ptr_to(new)]
               /\ dirty' = (dirty \ {old}) \cup {new, parent}
               /\ item' = ItemOp("del", old)
               /\ UNCHANGED node
    /\ cont' = NoOp
    /\ UNCHANGED <<disk, super, commit_root, dirty_roots, free_space_cache,
                   pinned_extents, extent_ins, pending_del, generation, used,
                   bg_dirty, goal, pc, mirror, calls, crashes>>

PutValue ==
    /\ Ready("put")
    /\ LET leaf == Where(goal.pos) IN
         /\ cache' = [cache EXCEPT ![leaf].val = goal.val]
         /\ dirty' = dirty \cup {leaf}
    /\ goal' = NoOp
    /\ UNCHANGED <<disk, super, node, commit_root, dirty_roots, free_space_cache,
                   pinned_extents, extent_ins, pending_del, generation, used,
                   bg_dirty, item, cont, pc, mirror, calls, crashes>>

\* split_leaf: a new leaf is allocated ...
AllocLeaf == Ready("new") /\ Allocate("link", goal.pos)

\* Faulty variant: the new leaf is not marked dirty.
LinkLeafClean ==
    /\ cont.op = "link"
    /\ Drained
    /\ LET parent == node["fs_root"] IN
         /\ cache' = [cache EXCEPT ![cont.blk] = fresh_leaf(goal.val),
                                   ![parent].kid[cont.pos] = ptr_to(cont.blk)]
         /\ dirty' = dirty \cup {parent, Where(goal.via)}
    /\ cont' = NoOp /\ goal' = NoOp
    /\ UNCHANGED <<disk, super, node, commit_root, dirty_roots, free_space_cache,
                   pinned_extents, extent_ins, pending_del, generation, used,
                   bg_dirty, item, pc, mirror, calls, crashes>>

\* ... and linked into its parent (insert_ptr); copy_for_split dirties both.
LinkLeaf ==
    /\ cont.op = "link"
    /\ Drained
    /\ LET parent == node["fs_root"] IN
         /\ cache' = [cache EXCEPT ![cont.blk] = fresh_leaf(goal.val),
                                   ![parent].kid[cont.pos] = ptr_to(cont.blk)]
         /\ dirty' = dirty \cup {cont.blk, parent, Where(goal.via)}
    /\ cont' = NoOp /\ goal' = NoOp
    /\ UNCHANGED <<disk, super, node, commit_root, dirty_roots, free_space_cache,
                   pinned_extents, extent_ins, pending_del, generation, used,
                   bg_dirty, item, pc, mirror, calls, crashes>>

\* btrfs_del_items that empties a leaf: clean it, unlink it, free it.
DelLeaf ==
    /\ Ready("del")
    /\ LET leaf == Where(goal.pos)
           parent == node["fs_root"]
       IN /\ cache' = [cache EXCEPT ![parent].kid[goal.pos] = NoPtr]
          /\ dirty' = (dirty \ {leaf}) \cup {parent}
          /\ item' = ItemOp("del", leaf)
    /\ goal' = NoOp
    /\ UNCHANGED <<disk, super, node, commit_root, dirty_roots, free_space_cache,
                   pinned_extents, extent_ins, pending_del, generation, used,
                   bg_dirty, cont, pc, mirror, calls, crashes>>

-----------------------------------------------------------------------------
(* Transactions *)

StartTransaction ==
    /\ pc = "idle"
    /\ generation < MaxGen
    /\ generation' = generation + 1
    /\ commit_root' = node["fs_root"]
    /\ pc' = "run" /\ calls' = 0
    /\ UNCHANGED <<disk, super, cache, dirty, node, dirty_roots, free_space_cache,
                   pinned_extents, extent_ins, pending_del, used, bg_dirty, item,
                   cont, goal, mirror, crashes>>

\* Calls a tool makes on the file tree between start and commit.
Quiet == pc = "run" /\ goal = NoOp /\ cont = NoOp /\ Drained
SetGoal(g) == /\ calls < MaxCalls /\ calls' = calls + 1
              /\ goal' = g
              /\ UNCHANGED <<disk, super, memory, item, cont, pc, mirror, crashes>>

Put(l, v) == /\ Quiet /\ Where(l) # NoBlock /\ cache[Where(l)].val # v
             /\ SetGoal(GoalOp("put", l, l, v))
\* The new leaf splits an existing one, or starts an empty tree.
New(l, v) == /\ Quiet /\ Where(l) = NoBlock
             /\ \E via \in FsLeaves \cup {"fs_root"} :
                  /\ IF via = "fs_root" THEN \A k \in FsLeaves : Where(k) = NoBlock
                     ELSE Where(via) # NoBlock
                  /\ SetGoal(GoalOp("new", l, via, v))
Del(l)    == /\ Quiet /\ Where(l) # NoBlock
             /\ SetGoal(GoalOp("del", l, l, NoValue))

\* btrfs_commit_transaction: the root item is rewritten unless the root of
\* the file tree is still commit_root.
CommitTransaction ==
    /\ Quiet
    /\ IF commit_root = node["fs_root"]
       THEN pc' = "commit_roots" /\ UNCHANGED commit_root
       ELSE pc' = "update_root" /\ commit_root' = NoBlock
    /\ goal' = RootGoal
    /\ UNCHANGED <<disk, super, cache, dirty, node, dirty_roots, free_space_cache,
                   pinned_extents, extent_ins, pending_del, generation, used,
                   bg_dirty, item, cont, mirror, calls, crashes>>

\* btrfs_update_root for the file tree.
UpdateRoot ==
    /\ pc = "update_root"
    /\ Ready("root")
    /\ LET top == node["root_tree"] IN
         /\ cache' = [cache EXCEPT ![top].kid["fs_root"] = ptr_to(node["fs_root"])]
         /\ dirty' = dirty \cup {top}
    /\ pc' = "commit_roots"
    /\ UNCHANGED <<disk, super, node, commit_root, dirty_roots, free_space_cache,
                   pinned_extents, extent_ins, pending_del, generation, used,
                   bg_dirty, item, cont, goal, mirror, calls, crashes>>

\* commit_tree_roots: the root tree is copied first, then the list of dirty
\* copy-on-write-only roots is worked off.
CowTreeRoot ==
    /\ pc = "commit_roots"
    /\ Ready("root")
    /\ goal' = NoOp /\ pc' = "dirty_roots"
    /\ UNCHANGED <<disk, super, memory, item, cont, mirror, calls, crashes>>

NextDirtyRoot ==
    /\ pc = "dirty_roots"
    /\ IF dirty_roots = {} THEN pc' = "write_blocks" /\ UNCHANGED dirty_roots
       ELSE pc' = "write_bgs" /\ dirty_roots' = {}
    /\ UNCHANGED <<disk, super, cache, dirty, node, commit_root, free_space_cache,
                   pinned_extents, extent_ins, pending_del, generation, used,
                   bg_dirty, item, cont, goal, mirror, calls, crashes>>

\* Faulty variant: a block group item is stored once in a transaction.
WriteDirtyBlockGroupsOnce ==
    /\ pc = "write_bgs"
    /\ Drained
    /\ bg_dirty' = FALSE
    /\ IF bg_dirty /\ cache[Where(BgLeaf)].gen # generation
       THEN item' = BgOp /\ UNCHANGED pc
       ELSE pc' = "root_item" /\ UNCHANGED item
    /\ UNCHANGED <<disk, super, cache, dirty, node, commit_root, dirty_roots,
                   free_space_cache, pinned_extents, extent_ins, pending_del,
                   generation, used, cont, goal, mirror, calls, crashes>>

\* btrfs_write_dirty_block_groups: writing the item can dirty the group again.
WriteDirtyBlockGroups ==
    /\ pc = "write_bgs"
    /\ Drained
    /\ bg_dirty' = FALSE
    /\ IF bg_dirty THEN item' = BgOp /\ UNCHANGED pc
       ELSE pc' = "root_item" /\ UNCHANGED item
    /\ UNCHANGED <<disk, super, cache, dirty, node, commit_root, dirty_roots,
                   free_space_cache, pinned_extents, extent_ins, pending_del,
                   generation, used, cont, goal, mirror, calls, crashes>>

\* update_cowonly_root: done when the root item names the current node.
UpdateCowonlyRoot ==
    /\ pc = "root_item"
    /\ LET top == node["root_tree"] IN
         IF cache[top].kid["extent_root"].blk = extent_node
         THEN pc' = "dirty_roots" /\ UNCHANGED <<cache, dirty>>
         ELSE /\ cache' = [cache EXCEPT ![top].kid["extent_root"] = ptr_to(extent_node)]
              /\ dirty' = dirty \cup {top}
              /\ pc' = "write_bgs"
    /\ UNCHANGED <<disk, super, node, commit_root, dirty_roots, free_space_cache,
                   pinned_extents, extent_ins, pending_del, generation, used,
                   bg_dirty, item, cont, goal, mirror, calls, crashes>>

\* __commit_transaction: write the dirty buffers in address order.
WriteTreeBlock ==
    /\ pc = "write_blocks"
    /\ \E b \in First(dirty) :
         /\ cache' = [cache EXCEPT ![b].written = TRUE]
         /\ disk' = [disk EXCEPT ![b] = [cache[b] EXCEPT !.written = TRUE]]
         /\ dirty' = dirty \ {b}
    /\ UNCHANGED <<super, node, commit_root, dirty_roots, free_space_cache,
                   pinned_extents, extent_ins, pending_del, generation, used,
                   bg_dirty, control>>

\* The super blocks follow when no buffer is dirty.
AllWritten ==
    /\ pc = "write_blocks"
    /\ dirty = {}
    /\ pc' = "write_super" /\ mirror' = 0
    /\ UNCHANGED <<disk, super, memory, item, cont, goal, calls, crashes>>

\* Faulty variant: the copy of the super block keeps the root it was read with.
WriteSuperOldRoot ==
    /\ pc = "write_super"
    /\ super' = [super EXCEPT ![mirror] = [generation |-> generation,
                                           root |-> super[mirror].root,
                                           bytes_used |-> used]]
    /\ mirror' = mirror + 1
    /\ pc' = IF mirror + 1 = NumMirrors THEN "finish" ELSE "write_super"
    /\ UNCHANGED <<disk, memory, item, cont, goal, calls, crashes>>

\* write_ctree_super, write_dev_supers: one mirror after the other.
WriteSuper ==
    /\ pc = "write_super"
    /\ super' = [super EXCEPT ![mirror] = [generation |-> generation,
                                           root |-> node["root_tree"],
                                           bytes_used |-> used]]
    /\ mirror' = mirror + 1
    /\ pc' = IF mirror + 1 = NumMirrors THEN "finish" ELSE "write_super"
    /\ UNCHANGED <<disk, memory, item, cont, goal, calls, crashes>>

\* Faulty variant: pinned extents are forgotten instead of given back.
FinishExtentCommitLeaks ==
    /\ pc = "finish"
    /\ pinned_extents' = {}
    /\ commit_root' = NoBlock
    /\ pc' = "idle" /\ mirror' = 0 /\ calls' = 0
    /\ UNCHANGED <<disk, super, cache, dirty, node, dirty_roots, free_space_cache,
                   extent_ins, pending_del, generation, used, bg_dirty, item, cont,
                   goal, crashes>>

\* btrfs_finish_extent_commit and the end of btrfs_commit_transaction.
FinishExtentCommit ==
    /\ pc = "finish"
    /\ free_space_cache' = free_space_cache \cup pinned_extents
    /\ pinned_extents' = {}
    /\ commit_root' = NoBlock
    /\ pc' = "idle" /\ mirror' = 0 /\ calls' = 0
    /\ UNCHANGED <<disk, super, cache, dirty, node, dirty_roots, extent_ins,
                   pending_del, generation, used, bg_dirty, item, cont, goal, crashes>>

-----------------------------------------------------------------------------
(* Closing and opening again *)

\* open_ctree on what the device holds: memory is rebuilt from the newest
\* super block; cache_block_group finds the holes between the extent items.
Reopen ==
    /\ cache' = disk
    /\ dirty' = {}
    /\ node' = DiskNode
    /\ commit_root' = NoBlock
    /\ dirty_roots' = {}
    /\ free_space_cache' = Blocks \ DiskItems
    /\ pinned_extents' = {} /\ extent_ins' = {} /\ pending_del' = {}
    /\ generation' = Newest.generation
    /\ used' = disk[DiskWhere(BgLeaf)].used
    /\ bg_dirty' = FALSE
    /\ item' = NoOp /\ cont' = NoOp /\ goal' = NoOp
    /\ pc' = "idle" /\ mirror' = 0 /\ calls' = 0
    /\ UNCHANGED <<disk, super>>

\* The process ends: close_ctree without a transaction, an abort, or a kill.
Crash == Reopen /\ crashes < MaxCrashes /\ crashes' = crashes + 1

\* BUG_ON(ret) after find_free_extent finds nothing.
NoSpace ==
    /\ find_free_extent = {}
    /\ \/ item # NoOp /\ ~ExtentPathReady
       \/ item.op = "ins" /\ Where(ItemLeaf) = NoBlock
       \/ goal # NoOp /\ cont = NoOp /\ Drained
          /\ (NextCow # {} \/ goal.op = "new")
    /\ Reopen /\ UNCHANGED crashes

Step ==
    \/ CowExtentNode \/ CowExtentLeaf \/ AddExtentLeaf
    \/ InsertExtentItem \/ DeleteExtentItem \/ WriteBlockGroupItem
    \/ FinishCurrentInsert \/ DelPendingExtents
    \/ CowBlock \/ AttachCow \/ PutValue \/ AllocLeaf \/ LinkLeaf \/ DelLeaf
    \/ UpdateRoot \/ CowTreeRoot \/ NextDirtyRoot \/ WriteDirtyBlockGroups
    \/ UpdateCowonlyRoot \/ WriteTreeBlock \/ AllWritten \/ WriteSuper
    \/ FinishExtentCommit \/ NoSpace

Call ==
    \/ StartTransaction \/ CommitTransaction
    \/ \E l \in FsLeaves : \E v \in Values : Put(l, v) \/ New(l, v)
    \/ \E l \in FsLeaves : Del(l)

Next == Step \/ Call \/ Crash

Spec == Init /\ [][Next]_vars
\* The program is one thread that runs on until it aborts.
FairSpec == Spec /\ WF_vars(Step)

-----------------------------------------------------------------------------
(* Properties *)

Ops == [op : {"none", "ins", "del", "bg", "attach", "link", "put", "new", "root"},
        pos : Places, via : Places, blk : Blocks \cup {NoBlock}, val : Values \cup {NoValue}]

\* The variables hold what the C types of fs_info and its trees hold.
TypeOK ==
    /\ disk \in [Blocks -> Images] /\ cache \in [Blocks -> Images]
    /\ super \in [Mirrors -> [generation : 1 .. MaxGen, root : Blocks,
                              bytes_used : Int]]
    /\ dirty \subseteq Blocks
    /\ node \in [Roots -> Blocks]
    /\ commit_root \in Blocks \cup {NoBlock}
    /\ dirty_roots \subseteq {"extent_root"}
    /\ free_space_cache \subseteq Blocks /\ pinned_extents \subseteq Blocks
    /\ extent_ins \subseteq Blocks /\ pending_del \subseteq Blocks
    /\ generation \in 1 .. MaxGen
    /\ used \in Int
    /\ bg_dirty \in BOOLEAN
    /\ item \in Ops /\ cont \in Ops /\ goal \in Ops
    /\ pc \in {"idle", "run", "update_root", "commit_roots", "dirty_roots",
               "write_bgs", "root_item", "write_blocks", "write_super", "finish"}
    /\ mirror \in 0 .. NumMirrors
    /\ calls \in 0 .. MaxCalls
    /\ crashes \in 0 .. MaxCrashes

\* Blocks and extent items of the trees in memory.
MemPlaces == {p \in Places : Where(p) # NoBlock}
Live == {Where(p) : p \in MemPlaces}
MemItems == UNION {cache[Where(p)].items : p \in MemPlaces \cap ExtLeaves}

\* At every moment, also between two device writes of a commit, the newest
\* super block leads to trees that btrfs check would accept: each pointer
\* finds a block of the generation it names (verify_parent_transid), no block
\* is used twice, the extent items are exactly the blocks of the trees, and
\* the block group item and the super block count them.
FsckClean ==
    /\ disk[Newest.root].gen = Newest.generation
    /\ \A p \in DiskPlaces : \A q \in Places :
          LET k == disk[DiskWhere(p)].kid[q] IN
          k # NoPtr => disk[k.blk].gen = k.gen
    /\ \A p, q \in DiskPlaces : DiskWhere(p) = DiskWhere(q) => p = q
    /\ DiskItems = Durable
    /\ disk[DiskWhere(BgLeaf)].used = Cardinality(DiskItems)
    /\ Newest.bytes_used = Cardinality(DiskItems)

\* No device write of a commit touches a block the newest super block on the
\* device leads to: copy-on-write, pinning and the order "blocks, then super
\* blocks, then unpin" together keep the last committed trees intact.
CommittedNotOverwritten ==
    [][\A b \in Durable : disk'[b] = disk[b]]_vars

\* The allocator never offers a block that the committed trees or the trees
\* in memory use, nor one that waits in extent_ins, in pending_del or in
\* pinned_extents (find_free_extent, pin_down_bytes).
NeverHandedOutTwice ==
    find_free_extent \cap (Durable \cup Live \cup pending_del) = {}

\* The BUG_ONs of the extent tree are unreachable: an inserted item is not
\* there yet (btrfs_insert_empty_item) and a freed extent has its item
\* (__free_extent, "umm, got %d back from search").
ExtentItemOpsSucceed ==
    /\ item.op = "ins" => item.blk \notin MemItems
    /\ item.op = "del" => item.blk \in MemItems

\* Once the commit has returned and no transaction runs, what is free is
\* what the extent tree does not hold: nothing leaks and nothing is counted
\* twice (btrfs_finish_extent_commit, update_block_group), and on the way no
\* extent item is inserted twice or missed.
SpaceAccounted ==
    /\ ExtentItemOpsSucceed
    /\ pc = "idle" => /\ free_space_cache = Blocks \ Live
                      /\ MemItems = Live
                      /\ used = Cardinality(Live)

\* A commit that has begun ends: the loops of finish_current_insert,
\* del_pending_extents, btrfs_write_dirty_block_groups and
\* update_cowonly_root all reach their fixed point. An operation on the file
\* tree ends as well.
CommitTerminates ==
    /\ (pc = "commit_roots") ~> (pc = "idle")
    /\ (goal # NoOp) ~> (goal = NoOp)

\* The committed contents change all at once: the code implements AtomicStore.
ContentsAt(img, at(_)) ==
    [l \in FsLeaves |-> IF at(l) = NoBlock THEN NoValue ELSE img[at(l)].val]
Atomic == INSTANCE AtomicStore WITH
            Keys <- FsLeaves, Contents <- Values \cup {NoValue},
            durable <- ContentsAt(disk, DiskWhere),
            staged <- ContentsAt(cache, Where),
            open <- pc # "idle"
ImplementsAtomicStore == Atomic!Spec
=============================================================================

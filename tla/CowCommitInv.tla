--------------------------- MODULE CowCommitInv ---------------------------
(***************************************************************************)
(* The inductive invariant behind the safety of CowCommit: what is true of *)
(* allocator, trees in memory and trees on the device between any two      *)
(* steps, for any number of blocks, leaves, mirrors and crashes.           *)
(***************************************************************************)
EXTENDS CowCommit

\* Block b with contents img is of transaction g and not written yet: it may
\* be changed in place.
FreshIn(img, g, b) == img[b].gen = g /\ ~img[b].written
Fresh(b) == FreshIn(cache, generation, b)
\* The trees with roots nd hold an extent item for b.
Listed(img, nd, b) == /\ At(img, nd, LeafOf[b]) # NoBlock
                      /\ b \in img[At(img, nd, LeafOf[b])].items
\* The extent item of b is in the trees in memory or about to be inserted.
Covered(b) == \/ Listed(cache, node, b) \/ b \in extent_ins
              \/ item.op = "ins" /\ item.blk = b

\* Phases in which tree blocks change, and phases in which memory and device
\* hold the same trees.
Changing == pc \in {"run", "update_root", "commit_roots", "dirty_roots",
                    "write_bgs", "root_item", "write_blocks"}
Synced == pc \in {"idle", "finish"} \/ (pc = "write_super" /\ mirror > 0)
NothingPending == /\ item = NoOp /\ cont = NoOp /\ goal = NoOp
                  /\ extent_ins = {} /\ pending_del = {}

\* What the control variables say of each other.
ControlInv ==
    /\ item.op \in {"none", "ins", "del", "bg"}
    /\ item.op = "none" => item = NoOp
    /\ item.op \in {"ins", "del"} => item.blk \in Blocks
    /\ cont.op \in {"none", "attach", "link"}
    /\ cont.op = "none" => cont = NoOp
    /\ cont.op # "none" => cont.blk \in Blocks
    /\ goal.op \in {"none", "put", "new", "del", "root"}
    /\ goal.op = "none" => goal = NoOp
    /\ goal.op = "root" => goal = RootGoal
    /\ goal.op \in {"put", "del"} => goal.pos \in FsLeaves /\ goal.via = goal.pos
    /\ goal.op = "new" => goal.pos \in FsLeaves /\ goal.via \in FsLeaves \cup {"fs_root"}
    /\ cont.op = "link" => goal.op = "new" /\ cont.pos = goal.pos
    /\ cont.op = "attach" => /\ goal # NoOp
                             /\ cont.pos \in {goal.via, RootOf(goal.via)}
    /\ pc \in {"idle", "dirty_roots", "root_item", "write_blocks", "write_super",
               "finish"} => NothingPending
    /\ pc = "write_bgs" => cont = NoOp /\ goal = NoOp
    /\ pc \in {"update_root", "commit_roots"} => goal = RootGoal
    /\ pc = "run" => goal.op # "root"
    /\ pc \in {"idle", "write_super", "finish"} => dirty = {}
    /\ pc \in {"idle", "write_blocks", "write_super", "finish"} => dirty_roots = {}
    /\ pc = "write_super" => mirror < NumMirrors

\* Mirror 0 is written first, so it always holds the newest super block.
SuperInv ==
    /\ \A m \in Mirrors : super[m].generation <= super[0].generation
    /\ super[0].generation <= generation

\* Shape of the trees on the device.
DiskInv ==
    /\ DiskNode \in [Roots -> Blocks]
    /\ DiskWhere(BgLeaf) # NoBlock
    /\ \A p, q \in Places : DiskWhere(p) = DiskWhere(q) => p = q \/ DiskWhere(p) = NoBlock
    /\ \A b \in Durable : Listed(disk, DiskNode, b)

\* Shape of the trees in memory; a clean block is what the device holds.
MemInv ==
    /\ Where(BgLeaf) # NoBlock
    /\ \A p, q \in Places : Where(p) = Where(q) => p = q \/ Where(p) = NoBlock
    /\ \A p \in Places : Where(p) # NoBlock => Covered(Where(p))
    /\ cont.op # "none" => Covered(cont.blk)
    /\ \A p \in Places : Where(p) \notin dirty \cup {NoBlock}
                            => cache[Where(p)] = disk[Where(p)]
    /\ goal.op # "none" => Where(goal.via) # NoBlock
    /\ goal.op = "new" => Where(goal.pos) = NoBlock

\* A block is free only if nothing uses it; a block given up is not used.
SpaceInv ==
    /\ \A b \in free_space_cache :
          /\ b \notin Durable \cup pending_del
          /\ b # cont.blk
          /\ item.op = "del" => b # item.blk
    /\ \A p \in Places :
          /\ Where(p) \notin free_space_cache \cup pinned_extents \cup pending_del
          /\ Where(p) # NoBlock => Where(p) # cont.blk
          /\ item.op = "del" => Where(p) # item.blk
    /\ cont.op # "none" => cont.blk \notin pinned_extents \cup pending_del \cup Durable
    /\ item.op = "del" => item.blk \notin pending_del \cup {cont.blk}

\* Blocks that may be changed in place are not part of the committed trees.
FreshInv ==
    /\ \A b \in Blocks : cache[b].written \/ cache[b].gen <= generation
    /\ \A b \in Blocks : disk[b].written \/ disk[b].gen = 0
    /\ Changing => \A b \in Blocks : Fresh(b) => b \notin Durable
    /\ Changing => generation > 1
    /\ cont.op = "attach" /\ cont.pos \notin Roots => Fresh(node[RootOf(cont.pos)])
    /\ cont.op = "link" => Fresh(node["fs_root"]) /\ Fresh(Where(goal.via))
    /\ pc \in {"dirty_roots", "write_bgs", "root_item"} => Fresh(node["root_tree"])

\* Dirty buffers are what the next commit writes.
DirtyInv == dirty \cap Durable = {}

\* The root items in the root tree against the roots in memory.
RootInv ==
    /\ \/ cache[node["root_tree"]].kid["fs_root"].blk = node["fs_root"]
       \/ pc = "update_root"
       \/ pc = "run" /\ commit_root # node["fs_root"]
    /\ \/ cache[node["root_tree"]].kid["extent_root"].blk = node["extent_root"]
       \/ "extent_root" \in dirty_roots
       \/ pc \in {"write_bgs", "root_item"}
    /\ pc = "run" => commit_root = DiskNode["fs_root"]
    /\ Synced => node = DiskNode /\ super[0].generation = generation

IInv == /\ TypeOK /\ ControlInv /\ SuperInv /\ DiskInv /\ MemInv /\ SpaceInv
        /\ FreshInv /\ DirtyInv /\ RootInv
-----------------------------------------------------------------------------
(* What btrfs check compares, on top of IInv: pointers against headers,    *)
(* extent items against the blocks in use, and the counters.               *)

\* The pointers a node at place p has are those to the places below it.
ChildOf(p, q) == \/ p = "root_tree" /\ q \in Roots \ {"root_tree"}
                 \/ p \in Roots /\ q \notin Roots /\ RootOf(q) = p

\* A tree is well formed: a pointer leads to a place below the node, names the
\* generation in the header of the block there (a root item may still name an
\* older root), and an extent item is in the leaf its key belongs to.
TreeOK(img, nd) ==
    /\ \A p, q \in Places : At(img, nd, p) # NoBlock /\ ~ChildOf(p, q)
                               => img[At(img, nd, p)].kid[q] = NoPtr
    /\ \A q \in Places \ Roots : At(img, nd, q) # NoBlock
          => img[nd[RootOf(q)]].kid[q].gen = img[At(img, nd, q)].gen
    /\ \A r \in Roots \ {"root_tree"} : img[nd["root_tree"]].kid[r].blk = nd[r]
          => img[nd["root_tree"]].kid[r].gen = img[nd[r]].gen
    /\ \A q \in ExtLeaves : At(img, nd, q) # NoBlock
          => \A b \in img[At(img, nd, q)].items : LeafOf[b] = q

\* A root item names the root in memory or the committed one, and a root that
\* is not the committed one is of the running transaction.
RootItemInv ==
    /\ \A r \in Roots \ {"root_tree"} :
          /\ cache[node["root_tree"]].kid[r].blk \in {node[r], DiskNode[r]}
          /\ node[r] = DiskNode[r] \/ cache[node[r]].gen = generation
          /\ \/ node[r] = DiskNode[r] \/ Fresh(node[r])
             \/ pc \in {"write_blocks", "write_super"}
    /\ pc = "run" => cache[node["root_tree"]].kid["fs_root"].blk = DiskNode["fs_root"]
    /\ pc = "update_root" => cache[node["fs_root"]].gen = generation
    /\ pc \in {"write_blocks", "write_super"} => cache[node["root_tree"]].gen = generation

\* The trees or an operation in progress still use block b.
Owned(b) == \/ \E p \in Places : Where(p) = b
            \/ b \in pending_del
            \/ item.op = "del" /\ item.blk = b
            \/ cont.op # "none" /\ cont.blk = b
ListedBlocks(img, nd) == {b \in Blocks : Listed(img, nd, b)}

\* Extent items and uses match but for what is queued, and every block is
\* free, pinned or has its item.
ItemInv ==
    /\ \A b \in Blocks : Covered(b) => Owned(b)
    /\ \A b \in pending_del : Covered(b)
    /\ item.op = "del" => Listed(cache, node, item.blk)
    /\ item.op = "ins" => ~Listed(cache, node, item.blk)
    /\ \A b \in extent_ins : ~Listed(cache, node, b)
    /\ \A b \in Blocks : b \in free_space_cache \/ b \in pinned_extents \/ Covered(b)
    /\ pc = "idle" => pinned_extents = {}

\* The block group counts the items; its own item is behind only while it is
\* marked dirty or being written, and a dirty block group is noticed because
\* the root of the extent tree is on the list of dirty roots by then.
CountInv ==
    /\ used = Cardinality(ListedBlocks(cache, node))
    /\ \/ cache[Where(BgLeaf)].used = used
       \/ bg_dirty
       \/ item.op = "bg"
    /\ pc \in {"idle", "root_item", "write_blocks", "write_super", "finish"} => ~bg_dirty
    /\ pc \in {"run", "update_root", "commit_roots", "dirty_roots"} /\ bg_dirty
          => "extent_root" \in dirty_roots
    /\ pc \in {"run", "update_root", "commit_roots"} /\ Fresh(node["extent_root"])
          => "extent_root" \in dirty_roots

\* Trees with roots nd, super block generation g and byte count u as btrfs
\* check wants them.
CleanAt(img, nd, g, u) ==
    /\ TreeOK(img, nd)
    /\ \A b \in Blocks : Listed(img, nd, b) <=> \E p \in Places : At(img, nd, p) = b
    /\ img[At(img, nd, BgLeaf)].used = u
    /\ u = Cardinality(ListedBlocks(img, nd))
    /\ img[nd["root_tree"]].gen = g

DiskOK == CleanAt(disk, DiskNode, Newest.generation, Newest.bytes_used)

FsckInv == /\ IInv /\ TreeOK(cache, node) /\ RootItemInv /\ ItemInv /\ CountInv
           /\ DiskOK
=============================================================================

-------------------------- MODULE CowCommitControl --------------------------
(***************************************************************************)
(* The actions that move no block of a tree: calls, the queues of the extent *)
(* tree, the allocation of a block, root items and the steps of the commit. *)
(* Each keeps IInv and FsckInv, and only a new transaction is seen.        *)
(***************************************************************************)
EXTENDS CowCommitFacts

-----------------------------------------------------------------------------
(* What the actions do *)

\* The pointer to the root of tree t in the root tree is set to its node.
RootItem(t) ==
    /\ t \in {"fs_root", "extent_root"}
    /\ cache' = [cache EXCEPT ![node["root_tree"]].kid[t] = ptr_to(node[t])]
    /\ dirty' = dirty \cup {node["root_tree"]}
    /\ FreshIn(cache, generation, node["root_tree"])
    /\ UNCHANGED <<disk, super, node, generation>>

\* btrfs_update_root changes one root item and moves no block.
LEMMA RootItemStep ==
    ASSUME TypeOK, ControlInv, MemInv, SpaceInv, NEW t, RootItem(t)
    PROVE  /\ TreeStep("root_tree", node["root_tree"]) /\ cache' \in [Blocks -> Images]
           /\ \A p \in Places : At(cache', node', p) = At(cache, node, p)
           /\ \A b \in Blocks : Listed(cache', node', b) <=> Listed(cache, node, b)
           /\ cache'[node["root_tree"]].kid[t].blk = node[t]
           /\ \A p \in Places \ {t} : cache'[node["root_tree"]].kid[p] = cache[node["root_tree"]].kid[p]
<1> DEFINE top == node["root_tree"]
           k == ptr_to(node[t])
           e == [cache[top] EXCEPT !.kid[t] = k]
<1>1. top \in Blocks /\ t \in Places /\ t \in Roots /\ node[t] \in Blocks
  BY Basics, PlaceFacts, Zenon DEF RootItem
<1>2. k \in Ptrs /\ k.blk = node[t]
  BY <1>1, CopyOf, Zenon
<1> HIDE DEF k
<1>3. cache[top] \in Images /\ cache \in [Blocks -> Images]
  BY <1>1, Zenon DEF TypeOK
<1>4. cache' = [cache EXCEPT ![top] = e]
  BY Zenon DEF RootItem, k
<1> HIDE DEF top
<1>5. /\ e \in Images /\ e.gen = cache[top].gen /\ e.written = cache[top].written
      /\ e.items = cache[top].items /\ e.kid = [cache[top].kid EXCEPT ![t] = k]
  BY <1>1, <1>2, <1>3, LinkImage
<1> HIDE DEF e
<1>6. /\ cache' \in [Blocks -> Images] /\ cache'[top] = e
      /\ \A b \in Blocks : b # top => cache'[b] = cache[b]
  BY <1>1, <1>3, <1>4, <1>5, Zenon
<1>7. /\ e.kid[t].blk = node[t]
      /\ \A p \in Places \ {t} : e.kid[p] = cache[top].kid[p]
  BY <1>1, <1>2, <1>3, <1>5, Zenon DEF Images
<1>8. InPlace(top)
  BY <1>1, <1>5, <1>6, <1>7, Zenon DEF InPlace, RootItem, top
<1> QED
  BY <1>5, <1>6, <1>7, <1>8, InPlaceIsTreeStep, InPlaceLists, Zenon DEF top

-----------------------------------------------------------------------------
(* They keep IInv *)

\* The update of the file tree's root item at a commit keeps the invariant.
LEMMA UpdateRootInv ==
    ASSUME TypeOK, ControlInv, SuperInv, DiskInv, MemInv, SpaceInv, FreshInv,
           DirtyInv, RootInv, UpdateRoot
    PROVE  IInv'
<1>1. /\ goal = RootGoal /\ cont = NoOp /\ item = NoOp /\ Changing /\ pc = "update_root"
  BY Zenon DEF UpdateRoot, Ready, Drained, ControlInv, Changing
<1>2. FreshIn(cache, generation, node["root_tree"])
  <2>1. goal.via = "root_tree"
    BY <1>1, Zenon DEF RootGoal, NoOp
  <2> QED
    BY <2>1, PlaceFacts, Zenon DEF UpdateRoot, Ready, NextCow, should_cow_block, FreshIn
<1>3. /\ dirty' = dirty \cup {node["root_tree"]} /\ pc' = "commit_roots"
      /\ UNCHANGED <<disk, super, node, commit_root, dirty_roots, free_space_cache,
                   pinned_extents, extent_ins, pending_del, generation, used,
                   bg_dirty, item, cont, goal, mirror, calls, crashes>>
  BY Zenon DEF UpdateRoot
<1>4. RootItem("fs_root")
  BY <1>2, <1>3, Zenon DEF UpdateRoot, RootItem
<1>5. /\ TreeStep("root_tree", node["root_tree"]) /\ cache' \in [Blocks -> Images]
      /\ \A p \in Places : At(cache', node', p) = At(cache, node, p)
      /\ \A b \in Blocks : Listed(cache', node', b) <=> Listed(cache, node, b)
      /\ cache'[node["root_tree"]].kid["fs_root"].blk = node["fs_root"]
      /\ cache'[node["root_tree"]].kid["extent_root"] = cache[node["root_tree"]].kid["extent_root"]
  BY <1>4, RootItemStep, PlaceFacts, Zenon
<1>6. TypeOK'
  BY <1>3, <1>5, Basics, PlaceFacts DEF TypeOK
<1>7. ControlInv'
  BY <1>1, <1>3 DEF ControlInv
<1>8. RootInv'
  BY <1>1, <1>3, <1>5, DiskFrame, Zenon DEF RootInv, Synced
<1>9. /\ goal'.op # "none" => At(cache, node, goal'.via) # NoBlock
      /\ goal'.op = "new" => At(cache, node, goal'.pos) = NoBlock
  BY <1>3, Zenon DEF MemInv, Where
<1> QED
  BY <1>1, <1>3, <1>5, <1>6, <1>7, <1>8, <1>9, QuietStep, Zenon

\* update_cowonly_root keeps the invariant.
LEMMA UpdateCowonlyRootInv ==
    ASSUME TypeOK, ControlInv, SuperInv, DiskInv, MemInv, SpaceInv, FreshInv,
           DirtyInv, RootInv, UpdateCowonlyRoot
    PROVE  IInv'
<1>1. /\ Changing /\ pc = "root_item" /\ NothingPending
      /\ FreshIn(cache, generation, node["root_tree"]) /\ extent_node = node["extent_root"]
  BY Zenon DEF UpdateCowonlyRoot, ControlInv, Changing, FreshInv, Fresh, extent_node
<1>2. UNCHANGED <<disk, super, node, commit_root, dirty_roots, free_space_cache,
                   pinned_extents, extent_ins, pending_del, generation, used,
                   bg_dirty, item, cont, goal, mirror, calls, crashes>>
  BY Zenon DEF UpdateCowonlyRoot
<1>3. /\ goal'.op # "none" => At(cache, node, goal'.via) # NoBlock
      /\ goal'.op = "new" => At(cache, node, goal'.pos) = NoBlock
  BY <1>2, Zenon DEF MemInv, Where
<1>4. CASE cache[node["root_tree"]].kid["extent_root"].blk = extent_node
  <2>1. pc' = "dirty_roots" /\ UNCHANGED <<cache, dirty>>
    BY <1>4, Zenon DEF UpdateCowonlyRoot
  <2>2. /\ TreeStep("root_tree", node["root_tree"])
        /\ \A p \in Places : At(cache', node', p) = At(cache, node, p)
        /\ \A b \in Blocks : Listed(cache', node', b) <=> Listed(cache, node, b)
    BY <1>2, <2>1, NoTreeStep, Zenon
  <2>3. TypeOK'
    BY <1>2, <2>1, Zenon DEF TypeOK
  <2>4. ControlInv'
    BY <1>1, <1>2, <2>1, Zenon DEF ControlInv, NothingPending
  <2>5. RootInv'
    BY <1>1, <1>2, <1>4, <2>1, DiskFrame, Zenon DEF RootInv, Synced
  <2> QED
    BY <1>1, <1>2, <1>3, <2>1, <2>2, <2>3, <2>4, <2>5, QuietStep, Zenon DEF NothingPending
<1>5. CASE cache[node["root_tree"]].kid["extent_root"].blk # extent_node
  <2>1. pc' = "write_bgs" /\ RootItem("extent_root")
    BY <1>1, <1>2, <1>5, Zenon DEF UpdateCowonlyRoot, RootItem
  <2>2. /\ TreeStep("root_tree", node["root_tree"]) /\ cache' \in [Blocks -> Images]
        /\ \A p \in Places : At(cache', node', p) = At(cache, node, p)
        /\ \A b \in Blocks : Listed(cache', node', b) <=> Listed(cache, node, b)
        /\ cache'[node["root_tree"]].kid["fs_root"] = cache[node["root_tree"]].kid["fs_root"]
    BY <2>1, RootItemStep, PlaceFacts, Zenon
  <2>3. TypeOK'
    BY <1>2, <2>1, <2>2, Basics, PlaceFacts DEF TypeOK, RootItem
  <2>4. ControlInv'
    BY <1>1, <1>2, <2>1, Zenon DEF ControlInv, NothingPending
  <2>5. RootInv'
    BY <1>1, <1>2, <2>1, <2>2, DiskFrame, Zenon DEF RootInv, Synced
  <2> QED
    BY <1>1, <1>2, <1>3, <2>1, <2>2, <2>3, <2>4, <2>5, QuietStep, Zenon DEF NothingPending
<1> QED
  BY <1>4, <1>5, Zenon

\* Steps that change nothing but control and the list of dirty roots.
LEMMA ControlStep ==
    ASSUME TypeOK, ControlInv, SuperInv, DiskInv, MemInv, SpaceInv, FreshInv,
           DirtyInv, RootInv, Changing,
           UNCHANGED <<disk, super, cache, dirty, node, free_space_cache, pinned_extents,
                       extent_ins, pending_del, generation, used, cont>>,
           item' = item \/ (item.op \notin {"ins", "del"} /\ item'.op \notin {"ins", "del"}),
           cont = NoOp \/ goal' = goal,
           goal'.op # "none" => At(cache, node, goal'.via) # NoBlock,
           goal'.op = "new" => At(cache, node, goal'.pos) = NoBlock,
           pc' \in {"dirty_roots", "write_bgs", "root_item"}
             => pc \in {"dirty_roots", "write_bgs", "root_item"} \/ Fresh(node["root_tree"]),
           TypeOK', ControlInv', RootInv'
    PROVE  IInv'
BY NoTreeStep, QuietStep, Zenon

\* The end of the cow of the root tree in commit_tree_roots keeps the invariant.
LEMMA CowTreeRootInv ==
    ASSUME TypeOK, ControlInv, SuperInv, DiskInv, MemInv, SpaceInv, FreshInv,
           DirtyInv, RootInv, CowTreeRoot
    PROVE  IInv'
<1>1. /\ goal = RootGoal /\ cont = NoOp /\ Drained /\ Changing /\ pc = "commit_roots"
  BY Zenon DEF CowTreeRoot, Ready, ControlInv, Changing
<1>2. Fresh(node["root_tree"])
  <2>1. goal.via = "root_tree"
    BY <1>1, Zenon DEF RootGoal, NoOp
  <2> QED
    BY <2>1, PlaceFacts, Zenon DEF CowTreeRoot, Ready, NextCow, should_cow_block, FreshIn, Fresh
<1>3. /\ goal' = NoOp /\ pc' = "dirty_roots"
      /\ UNCHANGED <<disk, super, cache, dirty, node, commit_root, dirty_roots,
                     free_space_cache, pinned_extents, extent_ins, pending_del,
                     generation, used, bg_dirty, item, cont, mirror, calls, crashes>>
  BY Zenon DEF CowTreeRoot, memory
<1>4. TypeOK'
  BY <1>3 DEF TypeOK, NoOp, Ops, Places, Roots
<1>5. ControlInv'
  BY <1>1, <1>3, Zenon DEF ControlInv, NothingPending, Drained, NoOp
<1>6. RootInv'
  BY <1>1, <1>3, DiskFrame, Zenon DEF RootInv, Synced
<1> QED
  BY <1>1, <1>2, <1>3, <1>4, <1>5, <1>6, ControlStep, Zenon DEF NoOp

\* The step to the next dirty root keeps the invariant.
LEMMA NextDirtyRootInv ==
    ASSUME TypeOK, ControlInv, SuperInv, DiskInv, MemInv, SpaceInv, FreshInv,
           DirtyInv, RootInv, NextDirtyRoot
    PROVE  IInv'
<1>1. Changing /\ pc = "dirty_roots" /\ NothingPending
  BY Zenon DEF NextDirtyRoot, ControlInv, Changing
<1>2. /\ \/ dirty_roots = {} /\ pc' = "write_blocks" /\ dirty_roots' = {}
         \/ pc' = "write_bgs" /\ dirty_roots' = {}
      /\ UNCHANGED <<disk, super, cache, dirty, node, commit_root, free_space_cache,
                   pinned_extents, extent_ins, pending_del, generation, used,
                   bg_dirty, item, cont, goal, mirror, calls, crashes>>
  BY Zenon DEF NextDirtyRoot
<1>3. TypeOK'
  BY <1>2, Zenon DEF TypeOK
<1>4. ControlInv'
  BY <1>1, <1>2, Zenon DEF ControlInv, NothingPending
<1>5. RootInv'
  BY <1>1, <1>2, DiskFrame, Zenon DEF RootInv, Synced
<1>6. /\ goal'.op # "none" => At(cache, node, goal'.via) # NoBlock
      /\ goal'.op = "new" => At(cache, node, goal'.pos) = NoBlock
  BY <1>2, Zenon DEF MemInv, Where
<1> QED
  BY <1>1, <1>2, <1>3, <1>4, <1>5, <1>6, ControlStep, Zenon

\* btrfs_write_dirty_block_groups keeps the invariant.
LEMMA WriteDirtyBlockGroupsInv ==
    ASSUME TypeOK, ControlInv, SuperInv, DiskInv, MemInv, SpaceInv, FreshInv,
           DirtyInv, RootInv, WriteDirtyBlockGroups
    PROVE  IInv'
<1>1. /\ Changing /\ pc = "write_bgs" /\ goal = NoOp /\ cont = NoOp /\ Drained
      /\ item.op \notin {"ins", "del"}
  BY Zenon DEF WriteDirtyBlockGroups, ControlInv, Changing, Drained, NoOp
<1>2. /\ bg_dirty' = FALSE
      /\ \/ item' = BgOp /\ pc' = pc
         \/ pc' = "root_item" /\ item' = item
      /\ UNCHANGED <<disk, super, cache, dirty, node, commit_root, dirty_roots,
                   free_space_cache, pinned_extents, extent_ins, pending_del,
                   generation, used, cont, goal, mirror, calls, crashes>>
  BY Zenon DEF WriteDirtyBlockGroups
<1>3. TypeOK'
  <2>1. item' \in Ops
    BY <1>2, OpFacts DEF TypeOK
  <2> QED
    BY <1>2, <2>1, Zenon DEF TypeOK
<1>4. ControlInv'
  BY <1>1, <1>2, OpFacts, Zenon DEF ControlInv, NothingPending, Drained
<1>5. RootInv'
  BY <1>1, <1>2, DiskFrame, Zenon DEF RootInv, Synced
<1>6. /\ goal'.op # "none" => At(cache, node, goal'.via) # NoBlock
      /\ goal'.op = "new" => At(cache, node, goal'.pos) = NoBlock
  BY <1>2, Zenon DEF MemInv, Where
<1>7. item'.op \notin {"ins", "del"}
  BY <1>1, <1>2, OpFacts, Zenon
<1> QED
  BY <1>1, <1>2, <1>3, <1>4, <1>5, <1>6, <1>7, ControlStep, Zenon

\* finish_current_insert, which takes the next pending insertion, keeps the invariant.
LEMMA FinishCurrentInsertInv ==
    ASSUME TypeOK, ControlInv, SuperInv, DiskInv, MemInv, SpaceInv, FreshInv,
           DirtyInv, RootInv, FinishCurrentInsert
    PROVE  IInv'
<1>1. PICK b \in First(extent_ins) : item' = ItemOp("ins", b)
  BY Zenon DEF FinishCurrentInsert
<1>2. /\ item = NoOp
      /\ UNCHANGED <<disk, super, cache, dirty, node, commit_root, dirty_roots,
                     free_space_cache, pinned_extents, extent_ins, pending_del,
                     generation, used, bg_dirty, cont, goal, pc, mirror, calls, crashes>>
  BY Zenon DEF FinishCurrentInsert, memory
<1>3. b \in extent_ins /\ b \in Blocks /\ item'.op = "ins" /\ item'.blk = b /\ item' \in Ops
  BY <1>1, OpFacts DEF First, TypeOK
<1>4. Changing
  BY <1>3, Zenon DEF ControlInv, NothingPending, Changing, TypeOK
<1>5. TypeOK'
  BY <1>2, <1>3, Zenon DEF TypeOK
<1>6. ControlInv'
  BY <1>2, <1>3, <1>4, Zenon DEF ControlInv, NothingPending, Changing
<1>7. RootInv'
  BY <1>2, DiskFrame, Zenon DEF RootInv, Synced
<1>8. /\ TreeStep("root_tree", node["root_tree"])
      /\ \A p \in Places : At(cache', node', p) = At(cache, node, p)
      /\ \A c \in Blocks : Listed(cache', node', c) <=> Listed(cache, node, c)
  BY <1>2, NoTreeStep, Zenon
<1>9. (\A p \in Places : Where(p) # NoBlock => Covered(Where(p)))'
  BY <1>2, <1>3, OpFacts, Zenon DEF Covered, MemInv, Where
<1>10. (cont.op # "none" => Covered(cont.blk))'
  BY <1>2, <1>3, OpFacts, Zenon DEF Covered, MemInv
<1>11. SpaceInv'
  BY <1>2, <1>3, DiskFrame, Zenon DEF SpaceInv, Where
<1>12. goal' = goal /\ node["root_tree"] # NoBlock /\ At(cache, node, "root_tree") # NoBlock
  BY <1>2, Basics, PlaceFacts, SMTT(30)
<1> QED
  BY <1>2, <1>4, <1>5, <1>6, <1>7, <1>8, <1>9, <1>10, <1>11, <1>12, TreeStepInv, Zenon

\* del_pending_extents, which takes the next pending deletion, keeps the invariant.
LEMMA DelPendingExtentsInv ==
    ASSUME TypeOK, ControlInv, SuperInv, DiskInv, MemInv, SpaceInv, FreshInv,
           DirtyInv, RootInv, DelPendingExtents
    PROVE  IInv'
<1>1. PICK b \in First(pending_del) : /\ item' = ItemOp("del", b)
                                       /\ pending_del' = pending_del \ {b}
  BY Zenon DEF DelPendingExtents
<1>2. /\ item = NoOp
      /\ UNCHANGED <<disk, super, cache, dirty, node, commit_root, dirty_roots,
                     free_space_cache, pinned_extents, extent_ins,
                     generation, used, bg_dirty, cont, goal, pc, mirror, calls, crashes>>
  BY Zenon DEF DelPendingExtents
<1>3. b \in pending_del /\ b \in Blocks /\ item'.op = "del" /\ item'.blk = b /\ item' \in Ops
  BY <1>1, OpFacts DEF First, TypeOK
<1>4. Changing
  BY <1>3, Zenon DEF ControlInv, NothingPending, Changing, TypeOK
<1>5. TypeOK'
  BY <1>1, <1>2, <1>3, Zenon DEF TypeOK
<1>6. ControlInv'
  BY <1>2, <1>3, <1>4, Zenon DEF ControlInv, NothingPending, Changing
<1>7. RootInv'
  BY <1>2, DiskFrame, Zenon DEF RootInv, Synced
<1>8. /\ TreeStep("root_tree", node["root_tree"])
      /\ \A p \in Places : At(cache', node', p) = At(cache, node, p)
      /\ \A c \in Blocks : Listed(cache', node', c) <=> Listed(cache, node, c)
  BY <1>2, NoTreeStep, Zenon
<1>9. (\A p \in Places : Where(p) # NoBlock => Covered(Where(p)))'
  BY <1>2, <1>3, OpFacts, Zenon DEF Covered, MemInv, Where
<1>10. (cont.op # "none" => Covered(cont.blk))'
  BY <1>2, <1>3, OpFacts, Zenon DEF Covered, MemInv
<1>11. SpaceInv'
  <2>1. b # cont.blk
    BY <1>3, OpFacts, PlaceFacts, SMTT(30) DEF SpaceInv, ControlInv
  <2> QED
    BY <1>1, <1>2, <1>3, <2>1, DiskFrame, SMTT(30) DEF SpaceInv, Where
<1>12. goal' = goal /\ node["root_tree"] # NoBlock /\ At(cache, node, "root_tree") # NoBlock
  BY <1>2, Basics, PlaceFacts
<1> QED
  BY <1>2, <1>4, <1>5, <1>6, <1>7, <1>8, <1>9, <1>10, <1>11, <1>12, TreeStepInv, Zenon

\* alloc_tree_block: the new block is neither free nor used by a tree any more
\* and not yet; its item is the one being inserted.
LEMMA AllocateInv ==
    ASSUME TypeOK, ControlInv, SuperInv, DiskInv, MemInv, SpaceInv, FreshInv,
           DirtyInv, RootInv, Changing, NEW k \in {"attach", "link"}, NEW x \in Places,
           Allocate(k, x), item = NoOp, cont = NoOp, goal # NoOp,
           k = "attach" => x \in {goal.via, RootOf(goal.via)},
           k = "attach" /\ x \notin Roots => Fresh(node[RootOf(x)]),
           k = "link" => /\ goal.op = "new" /\ x = goal.pos
                         /\ Fresh(node["fs_root"]) /\ Fresh(At(cache, node, goal.via)),
           pc \in {"run", "update_root", "commit_roots"}
    PROVE  IInv'
<1>1. PICK n \in find_free_extent : /\ free_space_cache' = free_space_cache \ {n}
                                    /\ item' = ItemOp("ins", n)
                                    /\ cont' = ContOp(k, x, n)
  BY Zenon DEF Allocate
<1>2. UNCHANGED <<disk, super, cache, dirty, node, commit_root, dirty_roots,
                  pinned_extents, extent_ins, pending_del, generation, used,
                  bg_dirty, goal, pc, mirror, calls, crashes>>
  BY Zenon DEF Allocate
<1>3. /\ n \in Blocks /\ n \in free_space_cache /\ n # NoBlock
      /\ n \notin extent_ins /\ n \notin pinned_extents
      /\ \A p \in Places : At(cache, node, p) # n
  BY Basics, PlaceFacts
<1>4. /\ item' \in Ops /\ item'.op = "ins" /\ item'.blk = n
      /\ cont' \in Ops /\ cont'.op = k /\ cont'.pos = x /\ cont'.blk = n
  BY <1>1, <1>3, OpFacts
<1>5. TypeOK'
  BY <1>1, <1>2, <1>4, SMTT(30) DEF TypeOK
<1>6. ControlInv'
  BY <1>2, <1>3, <1>4, Zenon DEF ControlInv, NothingPending
<1>7. SuperInv' /\ DiskInv' /\ Durable' = Durable /\ DiskNode' = DiskNode
  BY <1>2, DiskFrame, Zenon
<1>8. MemInv'
  <2>1. (\A p \in Places : Where(p) # NoBlock => Covered(Where(p)))'
    BY <1>2, <1>4, OpFacts, Zenon DEF MemInv, Where, Covered
  <2>2. (cont.op # "none" => Covered(cont.blk))'
    BY <1>4, Zenon DEF Covered
  <2> QED
    BY <1>2, <2>1, <2>2, Zenon DEF MemInv, Where
<1>9. SpaceInv'
  BY <1>1, <1>2, <1>3, <1>4, <1>7, OpFacts DEF SpaceInv, Where
<1>10. FreshInv'
  BY <1>2, <1>4, <1>7, Zenon DEF FreshInv, Fresh, Changing, Where
<1>11. DirtyInv' /\ RootInv'
  BY <1>2, <1>7, Zenon DEF DirtyInv, RootInv, Synced
<1> QED
  BY <1>5, <1>6, <1>7, <1>8, <1>9, <1>10, <1>11, Zenon DEF IInv

\* The allocation of the block that __btrfs_cow_block copies to keeps the invariant.
LEMMA CowBlockInv ==
    ASSUME TypeOK, ControlInv, SuperInv, DiskInv, MemInv, SpaceInv, FreshInv,
           DirtyInv, RootInv, CowBlock
    PROVE  IInv'
<1>1. goal # NoOp /\ cont = NoOp /\ item = NoOp /\ Changing
  BY Basics, Zenon DEF CowBlock, Drained
<1>2. PICK x \in NextCow : Allocate("attach", x)
  BY Zenon DEF CowBlock
<1>3. /\ x \in {goal.via, RootOf(goal.via)} /\ goal.via \in Places
      /\ x \notin Roots => Fresh(node[RootOf(x)])
  BY <1>2, PlaceFacts DEF NextCow, should_cow_block, Fresh, FreshIn, TypeOK, Ops
<1>4. pc \in {"run", "update_root", "commit_roots"}
  BY <1>1, Zenon DEF ControlInv, Changing, NothingPending
<1>5. x \in Places
  BY <1>3, PlaceFacts
<1> QED
  BY <1>1, <1>2, <1>3, <1>4, <1>5, AllocateInv, Zenon

\* The allocation of a new leaf of the file tree keeps the invariant.
LEMMA AllocLeafInv ==
    ASSUME TypeOK, ControlInv, SuperInv, DiskInv, MemInv, SpaceInv, FreshInv,
           DirtyInv, RootInv, AllocLeaf
    PROVE  IInv'
<1>1. /\ goal.op = "new" /\ cont = NoOp /\ item = NoOp /\ Changing /\ NextCow = {}
      /\ goal # NoOp /\ Allocate("link", goal.pos)
  BY Basics, OpFacts, Zenon DEF AllocLeaf, Ready, Drained
<1>2. /\ goal.pos \in Places /\ RootOf(goal.via) = "fs_root"
  BY <1>1, PlaceFacts, Zenon DEF ControlInv
<1>3. Fresh(node["fs_root"]) /\ Fresh(At(cache, node, goal.via))
  BY <1>1, <1>2, Zenon DEF NextCow, should_cow_block, Fresh, FreshIn, Where
<1>4. pc \in {"run", "update_root", "commit_roots"}
  BY <1>1, Zenon DEF ControlInv, Changing, NothingPending
<1> QED
  BY <1>1, <1>2, <1>3, <1>4, AllocateInv, Zenon

\* A new transaction starts from trees none of which may be changed in place.
LEMMA StartTransactionInv ==
    ASSUME TypeOK, ControlInv, SuperInv, DiskInv, MemInv, SpaceInv, FreshInv,
           DirtyInv, RootInv, StartTransaction
    PROVE  IInv'
<1>1. /\ pc = "idle" /\ Synced /\ NothingPending /\ dirty = {} /\ dirty_roots = {}
      /\ generation' = generation + 1 /\ generation < MaxGen
      /\ generation \in 1 .. MaxGen /\ generation' \in 1 .. MaxGen
      /\ pc' = "run" /\ commit_root' = node["fs_root"] /\ calls' = 0
      /\ UNCHANGED <<disk, super, cache, dirty, node, dirty_roots, free_space_cache,
                   pinned_extents, extent_ins, pending_del, used, bg_dirty, item,
                   cont, goal, mirror, crashes>>
  BY CowAssumption DEF StartTransaction, Synced, ControlInv, TypeOK
<1>2. DiskNode' = DiskNode /\ Durable' = Durable /\ DiskInv' /\ SuperInv'
  BY <1>1, DiskFrame, Zenon
<1>3. node["fs_root"] \in Blocks
  BY Basics, PlaceFacts, Zenon
<1>4. TypeOK'
  BY <1>1, <1>3, CowAssumption DEF TypeOK
<1>5. cont.op = "none" /\ item.op = "none" /\ goal.op = "none"
  BY <1>1, OpFacts, Zenon DEF NothingPending
<1>6. ControlInv'
  BY <1>1, <1>5, Zenon DEF ControlInv
<1>7. MemInv' /\ SpaceInv'
  BY <1>1, <1>2, MemFrame, SpaceFrame, SMTT(30)
<1>8. FreshInv'
  <2>1. \A b \in Blocks : cache[b].gen \in Int
    BY SMTT(30) DEF TypeOK, Images
  <2>2. \A b \in Blocks : ~FreshIn(cache', generation', b)
    BY <1>1, <2>1 DEF FreshInv, FreshIn
  <2>3. \A b \in Blocks : cache'[b].written \/ cache'[b].gen <= generation'
    BY <1>1, <2>1, SMTT(30) DEF FreshInv
  <2> QED
    BY <1>1, <1>5, <2>2, <2>3, SMTT(30) DEF FreshInv, Fresh
<1>9. RootInv'
  BY <1>1, <1>2, PlaceFacts, SMTT(30) DEF RootInv, Synced
<1> QED
  BY <1>1, <1>2, <1>4, <1>6, <1>7, <1>8, <1>9, SMTT(30) DEF IInv, DirtyInv

\* A call on the file tree sets the goal and changes nothing else.
LEMMA SetGoalInv ==
    ASSUME TypeOK, ControlInv, SuperInv, DiskInv, MemInv, SpaceInv, FreshInv,
           DirtyInv, RootInv, Quiet, NEW k \in {"put", "new", "del"},
           NEW l \in FsLeaves, NEW via \in FsLeaves \cup {"fs_root"},
           NEW v \in Values \cup {NoValue}, SetGoal(GoalOp(k, l, via, v)),
           k = "new" \/ via = l,
           At(cache, node, via) # NoBlock, k = "new" => At(cache, node, l) = NoBlock
    PROVE  IInv'
<1>1. /\ pc = "run" /\ cont = NoOp /\ goal = NoOp /\ item = NoOp /\ Changing
      /\ cont.op = "none"
  BY OpFacts, Zenon DEF Quiet, Drained, Changing
<1>2. /\ goal'.op = k /\ goal'.pos = l /\ goal'.via = via /\ goal' \in Ops
      /\ goal' # NoOp
  BY OpFacts, PlaceFacts DEF SetGoal
<1>3. /\ calls < MaxCalls /\ calls' = calls + 1
      /\ UNCHANGED <<disk, super, memory, item, cont, pc, mirror, crashes>>
  BY Zenon DEF SetGoal
<1>4. TypeOK'
  BY <1>2, <1>3, CowAssumption, SMTT(30) DEF TypeOK, memory
<1>5. ControlInv'
  BY <1>1, <1>2, <1>3, OpFacts, SMTT(30) DEF ControlInv, memory
<1>6. RootInv'
  BY <1>1, <1>3, DiskFrame, Zenon DEF RootInv, Synced, memory
<1> QED
  BY <1>1, <1>2, <1>3, <1>4, <1>5, <1>6, ControlStep, Zenon DEF memory

\* The start of a call that changes, adds or deletes an item keeps the invariant.
LEMMA CallInv ==
    ASSUME TypeOK, ControlInv, SuperInv, DiskInv, MemInv, SpaceInv, FreshInv,
           DirtyInv, RootInv, NEW l \in FsLeaves, NEW v \in Values,
           Put(l, v) \/ New(l, v) \/ Del(l)
    PROVE  IInv'
<1>1. CASE Put(l, v)
  BY <1>1, SetGoalInv, Zenon DEF Put, Where
<1>2. CASE New(l, v)
  <2>1. PICK via \in FsLeaves \cup {"fs_root"} :
             /\ via # "fs_root" => At(cache, node, via) # NoBlock
             /\ SetGoal(GoalOp("new", l, via, v))
    BY <1>2, Zenon DEF New, Where
  <2>2. At(cache, node, via) # NoBlock
    BY <2>1, Basics, PlaceFacts
  <2> QED
    BY <1>2, <2>1, <2>2, SetGoalInv, Zenon DEF New, Where
<1>3. CASE Del(l)
  BY <1>3, SetGoalInv, Zenon DEF Del, Where
<1> QED
  BY <1>1, <1>2, <1>3, Zenon

\* btrfs_commit_transaction goes on to the root item, or past it when the
\* root node is still the committed one.
LEMMA CommitTransactionInv ==
    ASSUME TypeOK, ControlInv, SuperInv, DiskInv, MemInv, SpaceInv, FreshInv,
           DirtyInv, RootInv, CommitTransaction
    PROVE  IInv'
<1>1. /\ pc = "run" /\ cont = NoOp /\ goal = NoOp /\ item = NoOp /\ Changing
      /\ cont.op = "none"
  BY OpFacts, Zenon DEF CommitTransaction, Quiet, Drained, Changing
<1>2. /\ \/ pc' = "commit_roots" /\ commit_root' = commit_root /\ commit_root = node["fs_root"]
         \/ pc' = "update_root" /\ commit_root' = NoBlock
      /\ goal' = RootGoal /\ goal'.op = "root" /\ goal'.via = "root_tree"
      /\ UNCHANGED <<disk, super, cache, dirty, node, dirty_roots, free_space_cache,
                   pinned_extents, extent_ins, pending_del, generation, used,
                   bg_dirty, item, cont, mirror, calls, crashes>>
  <2>1. /\ IF commit_root = node["fs_root"]
           THEN pc' = "commit_roots" /\ UNCHANGED commit_root
           ELSE pc' = "update_root" /\ commit_root' = NoBlock
        /\ goal' = RootGoal
        /\ UNCHANGED <<disk, super, cache, dirty, node, dirty_roots, free_space_cache,
                       pinned_extents, extent_ins, pending_del, generation, used,
                       bg_dirty, item, cont, mirror, calls, crashes>>
    BY Zenon DEF CommitTransaction
  <2>2. RootGoal.op = "root" /\ RootGoal.via = "root_tree"
    BY OpFacts, Zenon
  <2> QED
    BY <2>1, <2>2, Zenon
<1>3. TypeOK'
  BY <1>2, OpFacts, SMTT(30) DEF TypeOK
<1>4. ControlInv'
  BY <1>1, <1>2, OpFacts, SMTT(30) DEF ControlInv
<1>5. RootInv'
  BY <1>1, <1>2, DiskFrame, Zenon DEF RootInv, Synced
<1>6. At(cache, node, "root_tree") # NoBlock
  BY Basics, PlaceFacts
<1> QED
  BY <1>1, <1>2, <1>3, <1>4, <1>5, <1>6, ControlStep, Zenon

\* All dirty buffers are written: the super blocks are next.
LEMMA AllWrittenInv ==
    ASSUME TypeOK, ControlInv, SuperInv, DiskInv, MemInv, SpaceInv, FreshInv,
           DirtyInv, RootInv, AllWritten
    PROVE  IInv'
<1>1. /\ pc = "write_blocks" /\ dirty = {} /\ pc' = "write_super" /\ mirror' = 0
      /\ NothingPending /\ dirty_roots = {}
      /\ UNCHANGED <<disk, super, memory, item, cont, goal, calls, crashes>>
  BY Zenon DEF AllWritten, ControlInv
<1>2. DiskNode' = DiskNode /\ Durable' = Durable /\ DiskInv' /\ SuperInv'
  BY <1>1, DiskFrame, Zenon DEF memory
<1>3. TypeOK'
  BY <1>1, CowAssumption DEF TypeOK, memory
<1>4. cont.op = "none" /\ item.op = "none" /\ goal.op = "none"
  BY <1>1, OpFacts, SMTT(30) DEF NothingPending
<1>5. ControlInv'
  BY <1>1, <1>4, CowAssumption, SMTT(30) DEF ControlInv, NothingPending, memory
<1>6. MemInv' /\ SpaceInv'
  BY <1>1, <1>2, MemFrame, SpaceFrame, SMTT(30) DEF memory
<1>7. FreshInv'
  BY <1>1, <1>4, SMTT(30) DEF FreshInv, memory, Changing
<1>8. RootInv'
  BY <1>1, <1>2 DEF RootInv, Synced, memory
<1> QED
  BY <1>1, <1>2, <1>3, <1>5, <1>6, <1>7, <1>8, SMTT(30) DEF IInv, DirtyInv, memory

-----------------------------------------------------------------------------
(* They keep FsckInv *)

\* Setting the root item of tree x keeps the trees well formed when the root is
\* of the generation that the item then names.
LEMMA RootItemTree ==
    ASSUME NEW c, NEW d, NEW nd, NEW x, NEW k,
           PointerStep(c, d, nd, nd["root_tree"], x, k), Apart(c, nd),
           TreeOK(c, nd), x \in Roots \ {"root_tree"}, k.gen = c[nd[x]].gen
    PROVE  TreeOK(d, nd) /\ \A p \in Places : At(d, nd, p) = At(c, nd, p)
<1>1. \A b \in Blocks : \A q \in Places :
              d[b].kid[q] = IF b = nd["root_tree"] /\ q = x THEN k ELSE c[b].kid[q]
  BY PointerStepKids
<1>2. \A p \in Places : At(c, nd, p) \in Blocks \cup {NoBlock}
  BY AtType, Zenon DEF PointerStep
<1>3. NoBlock \notin Blocks
      /\ \A r \in Roots : nd[r] \in Blocks /\ r \in Places /\ At(c, nd, r) = nd[r]
  BY PlaceFacts, Zenon DEF PointerStep, At
<1>4. \A p \in Places : At(d, nd, p) = At(c, nd, p)
  <2> TAKE p \in Places
  <2>1. CASE p \in Roots
    BY <2>1, Zenon DEF At
  <2>2. CASE p \notin Roots
    <3>1. nd[RootOf(p)] \in Blocks
      BY <1>3, PlaceFacts, Zenon
    <3> QED
      BY <2>2, <3>1, <1>1, <1>3 DEF At
  <2> QED
    BY <2>1, <2>2, Zenon
<1>5. \A b \in Blocks : d[b].gen = c[b].gen
  BY Zenon DEF PointerStep
<1>6. ASSUME NEW p \in Places, NEW q \in Places, At(d, nd, p) # NoBlock, ~ChildOf(p, q)
      PROVE  d[At(d, nd, p)].kid[q] = NoPtr
  <2>1. At(c, nd, p) \in Blocks /\ c[At(c, nd, p)].kid[q] = NoPtr
    BY <1>2, <1>4, <1>6, Zenon DEF TreeOK
  <2>2. ~(At(c, nd, p) = nd["root_tree"] /\ q = x)
    <3>1. ASSUME At(c, nd, p) = nd["root_tree"] PROVE p = "root_tree"
      BY <3>1, <1>3, PlaceFacts DEF Apart
    <3> QED
      BY <3>1, <1>6, Zenon DEF ChildOf
  <2> QED
    BY <1>1, <1>4, <2>1, <2>2
<1>7. ASSUME NEW q \in Places \ Roots, At(d, nd, q) # NoBlock
      PROVE  d[nd[RootOf(q)]].kid[q].gen = d[At(d, nd, q)].gen
  <2>1. nd[RootOf(q)] \in Blocks
    BY <1>3, PlaceFacts, Zenon
  <2>2. d[nd[RootOf(q)]].kid[q] = c[nd[RootOf(q)]].kid[q]
    BY <1>1, <2>1, Zenon
  <2>3. At(d, nd, q) = At(c, nd, q) /\ At(c, nd, q) \in Blocks
    BY <1>2, <1>4, <1>7, Zenon
  <2> QED
    BY <1>5, <1>7, <2>2, <2>3, Zenon DEF TreeOK
<1>8. ASSUME NEW r \in Roots \ {"root_tree"}, d[nd["root_tree"]].kid[r].blk = nd[r]
      PROVE  d[nd["root_tree"]].kid[r].gen = d[nd[r]].gen
  <2>1. d[nd["root_tree"]].kid[r] = IF r = x THEN k ELSE c[nd["root_tree"]].kid[r]
    BY <1>1, <1>3, PlaceFacts
  <2> QED
    BY <1>3, <1>5, <1>8, <2>1, Zenon DEF TreeOK
<1>9. TreeOK(d, nd)
  BY <1>6, <1>7, <1>8, Zenon DEF TreeOK, PointerStep
<1> QED
  BY <1>4, <1>9, Zenon

\* A root item set to the root in memory, which is of the running transaction.
LEMMA RootItemFsck ==
    ASSUME IInv, TreeOK(cache, node), RootItemInv, NEW t, RootItem(t),
           cache[node[t]].gen = generation,
           pc' \notin {"run", "update_root", "write_blocks", "write_super"},
           pc \notin {"write_blocks", "write_super"}
    PROVE  /\ TreeOK(cache', node') /\ RootItemInv'
           /\ TreeStep("root_tree", node["root_tree"])
           /\ \A p \in Places : At(cache', node', p) = At(cache, node, p)
           /\ \A b \in Blocks : Listed(cache', node', b) <=> Listed(cache, node, b)
           /\ cache'[At(cache', node', BgLeaf)].used = cache[At(cache, node, BgLeaf)].used
<1>1. TypeOK /\ ControlInv /\ MemInv /\ SpaceInv /\ Apart(cache, node)
  BY Parts, Zenon
<1> DEFINE top == node["root_tree"]
           k == ptr_to(node[t])
           e == [cache[top] EXCEPT !.kid[t] = k]
<1>2. /\ top \in Blocks /\ t \in Places /\ t \in Roots \ {"root_tree"} /\ node[t] \in Blocks
      /\ node' = node /\ cache \in [Blocks -> Images] /\ cache[top] \in Images
      /\ UNCHANGED <<disk, super, generation>> /\ node \in [Roots -> Blocks]
  BY <1>1, Basics, PlaceFacts DEF RootItem
<1>3. k \in Ptrs /\ k.blk = node[t] /\ k.gen = cache[node[t]].gen
  BY <1>1, <1>2, CopyOf, Zenon DEF ptr_to
<1>4. cache' = [cache EXCEPT ![top] = e]
  BY Zenon DEF RootItem
<1>5. top = node["root_tree"]
  BY Zenon
<1> HIDE DEF top, k
<1>6. /\ e \in Images /\ e.gen = cache[top].gen /\ e.written = cache[top].written
      /\ e.items = cache[top].items /\ e.kid = [cache[top].kid EXCEPT ![t] = k]
      /\ e.used = cache[top].used
  BY <1>2, <1>3, LinkImage
<1> HIDE DEF e
<1>7. /\ cache' \in [Blocks -> Images] /\ cache'[top] = e
      /\ \A b \in Blocks : b # top => cache'[b] = cache[b]
  BY <1>2, <1>4, <1>6, Zenon
<1>8. /\ TreeStep("root_tree", node["root_tree"])
      /\ \A p \in Places : At(cache', node', p) = At(cache, node, p)
      /\ \A b \in Blocks : Listed(cache', node', b) <=> Listed(cache, node, b)
      /\ cache'[node["root_tree"]].kid[t].blk = node[t]
      /\ \A p \in Places \ {t} : cache'[node["root_tree"]].kid[p] = cache[node["root_tree"]].kid[p]
  BY <1>1, RootItemStep, Zenon
<1>9. \A b \in Blocks : /\ cache'[b].gen = cache[b].gen /\ cache'[b].written = cache[b].written
                        /\ cache'[b].items = cache[b].items /\ cache'[b].used = cache[b].used
  BY <1>6, <1>7, Zenon
<1>10. TreeOK(cache', node')
  <2>1. \A b \in Blocks : cache'[b].kid = IF b = top THEN [cache[b].kid EXCEPT ![t] = k]
                                          ELSE cache[b].kid
    BY <1>6, <1>7, Zenon
  <2>2. \A q \in ExtLeaves : At(cache', node, q) # NoBlock
          => \A b \in cache'[At(cache', node, q)].items : LeafOf[b] = q
    <3>1. \A q \in ExtLeaves : At(cache', node, q) = At(cache, node, q)
                               /\ At(cache, node, q) \in Blocks \cup {NoBlock}
      BY <1>1, <1>2, <1>8, Basics, PlaceFacts, Zenon
    <3> SUFFICES ASSUME NEW q \in ExtLeaves, At(cache', node, q) # NoBlock
                 PROVE  \A b \in cache'[At(cache', node, q)].items : LeafOf[b] = q
      BY Zenon
    <3>2. /\ At(cache', node, q) = At(cache, node, q) /\ At(cache, node, q) # NoBlock
          /\ cache'[At(cache, node, q)].items = cache[At(cache, node, q)].items
      <4>1. /\ At(cache', node, q) = At(cache, node, q)
            /\ At(cache, node, q) \in Blocks \cup {NoBlock}
        BY <3>1, Zenon
      <4>2. At(cache, node, q) # NoBlock /\ At(cache, node, q) \in Blocks
        BY <4>1, Zenon
      <4> QED
        BY <4>1, <4>2, <1>9, Zenon
    <3> QED
      BY <3>2, Zenon DEF TreeOK
  <2>3. PointerStep(cache, cache', node, top, t, k)
    <3>1. \A b \in Blocks : cache'[b].gen = cache[b].gen
      BY <1>9, Zenon
    <3>2. top \in Blocks /\ t \in Places
      BY <1>2, PlaceFacts, Zenon
    <3> QED
      BY <1>2, <1>3, <1>7, <2>1, <2>2, <3>1, <3>2, Zenon DEF PointerStep
  <2> QED
    BY <1>1, <1>2, <1>3, <1>5, <2>3, RootItemTree, Zenon
<1>11. RootItemInv'
  <2>1. DiskNode' = DiskNode
    BY <1>2, DiskFrame, Zenon
  <2>2. \A r \in Roots \ {"root_tree"} :
          /\ cache'[node["root_tree"]].kid[r].blk \in {node[r], DiskNode[r]}
          /\ node[r] = DiskNode[r] \/ cache'[node[r]].gen = generation
          /\ node[r] = DiskNode[r] \/ FreshIn(cache', generation, node[r])
    <3> TAKE r \in Roots \ {"root_tree"}
    <3>1. r \in Places /\ node[r] \in Blocks
      BY <1>1, Basics, PlaceFacts, Zenon
    <3>2. cache'[node["root_tree"]].kid[r].blk \in {node[r], DiskNode[r]}
      <4>1. CASE r = t
        BY <4>1, <1>8, Zenon
      <4>2. CASE r # t
        BY <4>2, <1>8, <3>1, Zenon DEF RootItemInv
      <4> QED
        BY <4>1, <4>2, Zenon
    <3> QED
      BY <1>9, <3>1, <3>2, Zenon DEF RootItemInv, Fresh, FreshIn
  <2> QED
    BY <1>2, <2>1, <2>2, Zenon DEF RootItemInv, Fresh
<1>12. cache'[At(cache', node', BgLeaf)].used = cache[At(cache, node, BgLeaf)].used
  <2>1. BgLeaf \in Places /\ At(cache, node, BgLeaf) \in Blocks
    BY <1>1, Basics, PlaceFacts, Zenon DEF MemInv, Where
  <2> QED
    BY <1>8, <1>9, <2>1, Zenon
<1> QED
  BY <1>8, <1>10, <1>11, <1>12, Zenon

\* The update of the file tree's root item at a commit keeps the books.
LEMMA UpdateRootFsck ==
    ASSUME FsckInv, IInv', UpdateRoot
    PROVE  FsckInv'
<1>1. /\ IInv /\ TreeOK(cache, node) /\ RootItemInv /\ ItemInv /\ CountInv /\ DiskOK
      /\ TypeOK /\ ControlInv /\ MemInv /\ SpaceInv
  BY Parts, Zenon DEF FsckInv
<1>2. IInv'
  BY Zenon
<1>3. /\ pc = "update_root" /\ pc' = "commit_roots"
      /\ UNCHANGED <<disk, super, node, free_space_cache, pinned_extents, used, bg_dirty,
                     extent_ins, pending_del, cont, item, dirty_roots, generation>>
  BY Zenon DEF UpdateRoot
<1>4. RootItem("fs_root")
  <2>1. goal.via = "root_tree"
    BY <1>1, <1>3, Zenon DEF ControlInv, RootGoal, NoOp
  <2>2. FreshIn(cache, generation, node["root_tree"])
    BY <2>1, PlaceFacts, Zenon DEF UpdateRoot, Ready, NextCow, should_cow_block, FreshIn
  <2> QED
    BY <1>3, <2>2, Zenon DEF UpdateRoot, RootItem
<1>5. cache[node["fs_root"]].gen = generation
  BY <1>1, <1>3, Zenon DEF RootItemInv
<1>6. /\ TreeOK(cache', node') /\ RootItemInv'
      /\ TreeStep("root_tree", node["root_tree"])
      /\ \A p \in Places : At(cache', node', p) = At(cache, node, p)
      /\ \A b \in Blocks : Listed(cache', node', b) <=> Listed(cache, node, b)
      /\ cache'[At(cache', node', BgLeaf)].used = cache[At(cache, node, BgLeaf)].used
  BY <1>1, <1>3, <1>4, <1>5, RootItemFsck, Zenon
<1>7. ItemInv'
  BY <1>1, <1>3, <1>6, ItemsKept, Zenon
<1>8. /\ Fresh(node["extent_root"])' <=> Fresh(node["extent_root"])
      /\ ListedBlocks(cache', node') = ListedBlocks(cache, node)
  BY <1>1, <1>6, ExtentRootKept, Zenon DEF ListedBlocks
<1>9. CountInv'
  BY <1>1, <1>3, <1>6, <1>8, Zenon DEF CountInv, Where
<1>10. DiskOK'
  BY <1>1, <1>3, DiskKept, Zenon
<1> QED
  BY <1>2, <1>6, <1>7, <1>9, <1>10, Zenon DEF FsckInv

\* update_cowonly_root keeps the books.
LEMMA UpdateCowonlyRootFsck ==
    ASSUME FsckInv, IInv', UpdateCowonlyRoot
    PROVE  FsckInv'
<1>1. /\ IInv /\ TreeOK(cache, node) /\ RootItemInv /\ ItemInv /\ CountInv /\ DiskOK
      /\ TypeOK /\ ControlInv /\ MemInv /\ SpaceInv /\ FreshInv
  BY Parts, Zenon DEF FsckInv
<1>2. IInv'
  BY Zenon
<1>3. /\ pc = "root_item" /\ pc' \in {"dirty_roots", "write_bgs"}
      /\ UNCHANGED <<disk, super, node, free_space_cache, pinned_extents, used, bg_dirty,
                     extent_ins, pending_del, cont, item, dirty_roots, generation>>
  BY Zenon DEF UpdateCowonlyRoot
<1>4. CASE cache[node["root_tree"]].kid["extent_root"].blk = node["extent_root"]
  <2>1. cache' = cache
    BY <1>4, Zenon DEF UpdateCowonlyRoot, extent_node
  <2>2. RootItemInv'
    BY <1>1, <1>3, <2>1, RootItemsControl, Zenon
  <2>3. CountInv'
    BY <1>1, <1>3, <2>1, Zenon DEF CountInv, Where
  <2> QED
    BY <1>2, <1>3, <2>1, <2>2, <2>3, ControlFsck, Zenon
<1>5. CASE cache[node["root_tree"]].kid["extent_root"].blk # node["extent_root"]
  <2>1. RootItem("extent_root")
    BY <1>1, <1>3, <1>5, Zenon DEF UpdateCowonlyRoot, RootItem, FreshInv, Fresh, extent_node
  <2>2. cache[node["extent_root"]].gen = generation
    <3>1. "extent_root" \in Roots \ {"root_tree"}
      BY PlaceFacts, Zenon
    <3> QED
      BY <1>1, <1>5, <3>1, Zenon DEF RootItemInv
  <2>3. /\ TreeOK(cache', node') /\ RootItemInv'
        /\ TreeStep("root_tree", node["root_tree"])
        /\ \A p \in Places : At(cache', node', p) = At(cache, node, p)
        /\ \A b \in Blocks : Listed(cache', node', b) <=> Listed(cache, node, b)
        /\ cache'[At(cache', node', BgLeaf)].used = cache[At(cache, node, BgLeaf)].used
    BY <1>1, <1>3, <2>1, <2>2, RootItemFsck, Zenon
  <2>4. ItemInv'
    BY <1>1, <1>3, <2>3, ItemsKept, Zenon
  <2>5. ListedBlocks(cache', node') = ListedBlocks(cache, node)
    BY <2>3, Zenon DEF ListedBlocks
  <2>6. CountInv'
    BY <1>1, <1>3, <2>3, <2>5, Zenon DEF CountInv, Where
  <2>7. DiskOK'
    BY <1>1, <1>3, DiskKept, Zenon
  <2> QED
    BY <1>2, <2>3, <2>4, <2>6, <2>7, Zenon DEF FsckInv
<1> QED
  BY <1>4, <1>5, Zenon

\* The counters after a step that changes no block.
LEMMA CountControl ==
    ASSUME CountInv, UNCHANGED <<cache, node, used>>,
           \/ bg_dirty' \/ item'.op = "bg"
           \/ cache[Where(BgLeaf)].used = used,
           pc' \in {"idle", "root_item", "write_blocks", "write_super", "finish"} => ~bg_dirty',
           pc' \in {"run", "update_root", "commit_roots", "dirty_roots"} /\ bg_dirty'
              => "extent_root" \in dirty_roots',
           pc' \in {"run", "update_root", "commit_roots"} /\ Fresh(node["extent_root"])'
              => "extent_root" \in dirty_roots'
    PROVE  CountInv'
BY Zenon DEF CountInv, Where

\* A call on the file tree keeps the books.
LEMMA SetGoalFsck ==
    ASSUME FsckInv, IInv', NEW g, SetGoal(g)
    PROVE  FsckInv'
<1>1. /\ UNCHANGED <<disk, super, cache, node, free_space_cache, pinned_extents, used, bg_dirty,
                     extent_ins, pending_del, cont, item, pc, generation, dirty_roots>>
      /\ IInv /\ RootItemInv /\ CountInv
  BY Zenon DEF SetGoal, memory, FsckInv
<1>2. RootItemInv'
  BY <1>1, RootItemsControl, Zenon
<1>3. CountInv'
  BY <1>1, CountKept, Zenon DEF Fresh
<1> QED
  BY <1>1, <1>2, <1>3, ControlFsck, Zenon

\* btrfs_start_transaction keeps the books: no block is of the new generation yet.
LEMMA StartTransactionFsck ==
    ASSUME FsckInv, IInv', StartTransaction
    PROVE  FsckInv'
<1>1. /\ IInv /\ RootItemInv /\ CountInv /\ TypeOK /\ FreshInv /\ RootInv /\ ControlInv
      /\ MemInv /\ SpaceInv
  BY Parts, Zenon DEF FsckInv
<1>2. IInv'
  BY Zenon
<1>3. /\ pc = "idle" /\ pc' = "run" /\ generation' = generation + 1
      /\ UNCHANGED <<disk, super, cache, node, free_space_cache, pinned_extents, used, bg_dirty,
                     extent_ins, pending_del, cont, item, dirty_roots>>
  BY Zenon DEF StartTransaction
<1>4. DiskNode' = DiskNode /\ node = DiskNode
  BY <1>1, <1>3, DiskFrame, Zenon DEF RootInv, Synced
<1>5. ~Fresh(node["extent_root"])'
  <2>1. node["extent_root"] \in Blocks /\ cache[node["extent_root"]].gen \in 0 .. MaxGen
        /\ generation \in 1 .. MaxGen
    BY <1>1, Basics, PlaceFacts, Zenon DEF TypeOK, Images
  <2>2. cache[node["extent_root"]].written \/ cache[node["extent_root"]].gen <= generation
    BY <1>1, <2>1, Zenon DEF FreshInv
  <2>3. cache[node["extent_root"]].gen <= generation
           => cache[node["extent_root"]].gen # generation + 1
    BY <2>1
  <2> QED
    BY <1>3, <2>2, <2>3, Zenon DEF Fresh, FreshIn
<1>6. RootItemInv'
  <2>1. /\ \A r \in Roots \ {"root_tree"} : cache[node["root_tree"]].kid[r].blk = DiskNode[r]
        /\ "fs_root" \in Roots \ {"root_tree"}
    BY <1>1, <1>4, PlaceFacts, Zenon DEF RootItemInv
  <2> QED
    BY <1>3, <1>4, <2>1, Zenon DEF RootItemInv
<1>7. ~bg_dirty /\ (cache[Where(BgLeaf)].used = used \/ item.op = "bg")
  BY <1>1, <1>3, Zenon DEF CountInv
<1>8. CountInv'
  BY <1>1, <1>3, <1>5, <1>7, CountControl, Zenon
<1> QED
  BY <1>2, <1>3, <1>6, <1>8, ControlFsck, Zenon

\* The start of btrfs_commit_transaction keeps the books.
LEMMA CommitTransactionFsck ==
    ASSUME FsckInv, IInv', CommitTransaction
    PROVE  FsckInv'
<1>1. /\ IInv /\ RootItemInv /\ CountInv /\ RootInv
  BY Parts, Zenon DEF FsckInv
<1>2. IInv'
  BY Zenon
<1>3. /\ pc = "run"
      /\ \/ pc' = "commit_roots"
         \/ pc' = "update_root" /\ commit_root # node["fs_root"]
      /\ UNCHANGED <<disk, super, cache, node, free_space_cache, pinned_extents, used, bg_dirty,
                     extent_ins, pending_del, cont, item, dirty_roots, generation>>
  BY Zenon DEF CommitTransaction, Quiet
<1>4. pc' = "update_root" => cache[node["fs_root"]].gen = generation
  <2>1. commit_root = DiskNode["fs_root"] /\ "fs_root" \in Roots \ {"root_tree"}
    BY <1>1, <1>3, PlaceFacts, Zenon DEF RootInv
  <2> QED
    BY <1>1, <1>3, <2>1, Zenon DEF RootItemInv
<1>5. RootItemInv'
  BY <1>1, <1>3, <1>4, RootItemsControl, Zenon
<1>6. Fresh(node["extent_root"])' <=> Fresh(node["extent_root"])
  BY <1>3, Zenon DEF Fresh
<1>7. CountInv'
  BY <1>1, <1>3, <1>6, Zenon DEF CountInv, Where
<1> QED
  BY <1>2, <1>3, <1>5, <1>7, ControlFsck, Zenon

\* The end of the cow of the root tree in commit_tree_roots keeps the books.
LEMMA CowTreeRootFsck ==
    ASSUME FsckInv, IInv', CowTreeRoot
    PROVE  FsckInv'
<1>1. /\ IInv /\ RootItemInv /\ CountInv
  BY Zenon DEF FsckInv
<1>2. IInv'
  BY Zenon
<1>3. /\ pc = "commit_roots" /\ pc' = "dirty_roots"
      /\ UNCHANGED <<disk, super, cache, node, free_space_cache, pinned_extents, used, bg_dirty,
                     extent_ins, pending_del, cont, item, dirty_roots, generation>>
  BY Zenon DEF CowTreeRoot, memory
<1>4. RootItemInv'
  BY <1>1, <1>3, RootItemsControl, Zenon
<1>5. CountInv'
  BY <1>1, <1>3, Zenon DEF CountInv, Where
<1> QED
  BY <1>2, <1>3, <1>4, <1>5, ControlFsck, Zenon

\* Once no root is dirty, no block group is: the tree blocks can be written.
LEMMA NextDirtyRootFsck ==
    ASSUME FsckInv, IInv', NextDirtyRoot
    PROVE  FsckInv'
<1>1. /\ IInv /\ RootItemInv /\ CountInv /\ FreshInv
  BY Parts, Zenon DEF FsckInv
<1>2. IInv'
  BY Zenon
<1>3. /\ pc = "dirty_roots"
      /\ (pc' = "write_blocks" /\ dirty_roots = {}) \/ pc' = "write_bgs"
      /\ UNCHANGED <<disk, super, cache, node, free_space_cache, pinned_extents, used, bg_dirty,
                     extent_ins, pending_del, cont, item, generation>>
  BY Zenon DEF NextDirtyRoot
<1>4. cache[node["root_tree"]].gen = generation
  BY <1>1, <1>3, Zenon DEF FreshInv, Fresh, FreshIn
<1>5. RootItemInv'
  BY <1>1, <1>3, <1>4, RootItemsControl, Zenon
<1>6. CountInv'
  BY <1>1, <1>3, Zenon DEF CountInv, Where
<1> QED
  BY <1>2, <1>3, <1>5, <1>6, ControlFsck, Zenon

\* btrfs_write_dirty_block_groups goes on only when the block group item is right.
LEMMA WriteDirtyBlockGroupsFsck ==
    ASSUME FsckInv, IInv', WriteDirtyBlockGroups
    PROVE  FsckInv'
<1>1. /\ IInv /\ RootItemInv /\ CountInv
  BY Zenon DEF FsckInv
<1>2. IInv'
  BY Zenon
<1>3. /\ pc = "write_bgs" /\ bg_dirty' = FALSE /\ item.op = "none"
      /\ \/ item'.op = "bg" /\ pc' = pc
         \/ pc' = "root_item" /\ item' = item /\ ~bg_dirty
      /\ UNCHANGED <<disk, super, cache, node, free_space_cache, pinned_extents, used,
                     extent_ins, pending_del, cont, dirty_roots, generation>>
  BY OpFacts, Zenon DEF WriteDirtyBlockGroups, Drained
<1>4. RootItemInv'
  BY <1>1, <1>3, RootItemsControl, Zenon
<1>5. CountInv'
  BY <1>1, <1>3, Zenon DEF CountInv, Where
<1> QED
  BY <1>2, <1>3, <1>4, <1>5, ControlFsck, Zenon

\* The end of the loop of __commit_transaction keeps the books.
LEMMA AllWrittenFsck ==
    ASSUME FsckInv, IInv', AllWritten
    PROVE  FsckInv'
<1>1. /\ IInv /\ RootItemInv /\ CountInv
  BY Zenon DEF FsckInv
<1>2. IInv'
  BY Zenon
<1>3. /\ pc = "write_blocks" /\ pc' = "write_super"
      /\ UNCHANGED <<disk, super, cache, node, free_space_cache, pinned_extents, used, bg_dirty,
                     extent_ins, pending_del, cont, item, dirty_roots, generation>>
  BY Zenon DEF AllWritten, memory
<1>4. RootItemInv'
  BY <1>1, <1>3, RootItemsControl, Zenon
<1>5. CountInv'
  BY <1>1, <1>3, Zenon DEF CountInv, Where
<1> QED
  BY <1>2, <1>3, <1>4, <1>5, ControlFsck, Zenon

\* A step that leaves trees, device and counts alone has only the items to answer for.
LEMMA QueueFsck ==
    ASSUME FsckInv, IInv', ItemInv',
           UNCHANGED <<disk, super, cache, node, generation, used, bg_dirty, dirty_roots, pc>>,
           item.op # "bg", item'.op # "bg"
    PROVE  FsckInv'
<1>1. IInv /\ TreeOK(cache, node) /\ RootItemInv /\ CountInv /\ DiskOK
  BY Zenon DEF FsckInv
<1>2. TreeOK(cache', node')
  BY <1>1, Zenon
<1>3. RootItemInv'
  BY <1>1, RootItemsControl, Zenon
<1>4. CountInv'
  <2>1. Fresh(node["extent_root"])' <=> Fresh(node["extent_root"])
    BY Zenon DEF Fresh
  <2> QED
    BY <1>1, <2>1, Zenon DEF CountInv, Where
<1>5. DiskOK'
  BY <1>1, DiskKept, Zenon
<1> QED
  BY <1>2, <1>3, <1>4, <1>5, Zenon DEF FsckInv

\* finish_current_insert takes up a block that has no item yet.
LEMMA FinishCurrentInsertFsck ==
    ASSUME FsckInv, IInv', FinishCurrentInsert
    PROVE  FsckInv'
<1>1. IInv /\ ItemInv /\ TypeOK /\ ControlInv /\ SpaceInv
  BY Parts, Zenon DEF FsckInv
<1>2. IInv'
  BY Zenon
<1>3. PICK b \in First(extent_ins) : item' = ItemOp("ins", b)
  BY Zenon DEF FinishCurrentInsert
<1>4. /\ item = NoOp
      /\ UNCHANGED <<disk, super, cache, node, free_space_cache, pinned_extents,
                     extent_ins, pending_del, generation, used, bg_dirty,
                     dirty_roots, cont, pc>>
  BY Zenon DEF FinishCurrentInsert, memory
<1>5. b \in extent_ins /\ b \in Blocks /\ item'.op = "ins" /\ item'.blk = b /\ item.op = "none"
  BY <1>1, <1>3, <1>4, OpFacts DEF First, TypeOK
<1>6. \A c \in Blocks : (Covered(c)' <=> Covered(c)) /\ (Owned(c)' <=> Owned(c))
  BY <1>4, <1>5, Zenon DEF Covered, Owned, Where
<1>7. extent_ins \subseteq Blocks /\ pending_del \subseteq Blocks
  BY <1>1, Zenon DEF TypeOK
<1>8. ItemInv'
  <2>1. (\A c \in Blocks : Covered(c) => Owned(c))'
    BY <1>1, <1>6, Zenon DEF ItemInv
  <2>2. (\A c \in pending_del : Covered(c))'
    BY <1>1, <1>4, <1>6, <1>7, Zenon DEF ItemInv
  <2>3. (\A c \in Blocks : c \in free_space_cache \/ c \in pinned_extents \/ Covered(c))'
    BY <1>1, <1>4, <1>6, Zenon DEF ItemInv
  <2>4. /\ (item.op = "ins" => ~Listed(cache, node, item.blk))'
        /\ (\A c \in extent_ins : ~Listed(cache, node, c))'
        /\ (pc = "idle" => pinned_extents = {})'
    BY <1>1, <1>4, <1>5, Zenon DEF ItemInv
  <2> QED
    BY <1>5, <2>1, <2>2, <2>3, <2>4, Zenon DEF ItemInv
<1> QED
  BY <1>2, <1>4, <1>5, <1>8, QueueFsck, Zenon

\* del_pending_extents takes up a block whose item is in the tree.
LEMMA DelPendingExtentsFsck ==
    ASSUME FsckInv, IInv', DelPendingExtents
    PROVE  FsckInv'
<1>1. IInv /\ ItemInv /\ TypeOK /\ ControlInv /\ SpaceInv
  BY Parts, Zenon DEF FsckInv
<1>2. IInv'
  BY Zenon
<1>3. PICK b \in First(pending_del) : /\ item' = ItemOp("del", b)
                                       /\ pending_del' = pending_del \ {b}
  BY Zenon DEF DelPendingExtents
<1>4. /\ item = NoOp /\ extent_ins = {}
      /\ UNCHANGED <<disk, super, cache, node, free_space_cache, pinned_extents,
                     extent_ins, generation, used, bg_dirty, dirty_roots, cont, pc>>
  BY Zenon DEF DelPendingExtents
<1>5. b \in pending_del /\ b \in Blocks /\ item'.op = "del" /\ item'.blk = b /\ item.op = "none"
  BY <1>1, <1>3, <1>4, OpFacts DEF First, TypeOK
<1>6. \A c \in Blocks : (Covered(c)' <=> Covered(c)) /\ (Owned(c)' <=> Owned(c))
  BY <1>3, <1>4, <1>5, Zenon DEF Covered, Owned, Where
<1>7. pending_del \subseteq Blocks /\ pending_del' \subseteq pending_del
  BY <1>1, <1>3, Zenon DEF TypeOK
<1>8. Listed(cache, node, b)
  BY <1>1, <1>4, <1>5, Zenon DEF ItemInv, Covered
<1>9. ItemInv'
  <2>1. (\A c \in Blocks : Covered(c) => Owned(c))'
    BY <1>1, <1>6, Zenon DEF ItemInv
  <2>2. (\A c \in pending_del : Covered(c))'
    BY <1>1, <1>6, <1>7, Zenon DEF ItemInv
  <2>3. (\A c \in Blocks : c \in free_space_cache \/ c \in pinned_extents \/ Covered(c))'
    BY <1>1, <1>4, <1>6, Zenon DEF ItemInv
  <2>4. /\ (item.op = "del" => Listed(cache, node, item.blk))'
        /\ (\A c \in extent_ins : ~Listed(cache, node, c))'
        /\ (pc = "idle" => pinned_extents = {})'
    BY <1>1, <1>4, <1>5, <1>8, Zenon DEF ItemInv
  <2> QED
    BY <1>5, <2>1, <2>2, <2>3, <2>4, Zenon DEF ItemInv
<1> QED
  BY <1>2, <1>4, <1>5, <1>9, QueueFsck, Zenon

\* A block handed out is covered by its coming item and owned by the allocation.
LEMMA AllocateFsck ==
    ASSUME FsckInv, IInv', NEW k, NEW x \in Places, k \in {"attach", "link"}, Allocate(k, x),
           cont = NoOp, Drained
    PROVE  FsckInv'
<1>1. IInv /\ ItemInv /\ TypeOK /\ ControlInv /\ SpaceInv /\ MemInv /\ DiskInv
  BY Parts, Zenon DEF FsckInv
<1>2. PICK n \in find_free_extent : /\ free_space_cache' = free_space_cache \ {n}
                                    /\ item' = ItemOp("ins", n)
                                    /\ cont' = ContOp(k, x, n)
  BY Zenon DEF Allocate
<1>3. /\ item = NoOp /\ extent_ins = {} /\ pending_del = {}
      /\ UNCHANGED <<disk, super, cache, node, pinned_extents, pending_del,
                     extent_ins, generation, used, bg_dirty, dirty_roots, pc>>
  BY Zenon DEF Allocate, Drained
<1>4. n \in Blocks /\ n \in free_space_cache
  BY <1>1, Basics, Zenon
<1>5. /\ item'.op = "ins" /\ item'.blk = n /\ item.op = "none" /\ cont.op = "none"
      /\ cont'.op = k /\ cont'.blk = n
  BY <1>2, <1>3, <1>4, OpFacts
<1>6. ~Covered(n)
  BY <1>1, <1>4, FreeUncovered, Zenon
<1>7. \A c \in Blocks : Covered(c)' <=> Covered(c) \/ c = n
  BY <1>3, <1>5, Zenon DEF Covered
<1>8. \A c \in Blocks : Owned(c) \/ c = n => Owned(c)'
  BY <1>3, <1>5, Zenon DEF Owned, Where
<1>9. ItemInv'
  <2>1. (\A c \in Blocks : Covered(c) => Owned(c))'
    BY <1>1, <1>7, <1>8, Zenon DEF ItemInv
  <2>2. (\A c \in Blocks : c \in free_space_cache \/ c \in pinned_extents \/ Covered(c))'
    BY <1>1, <1>2, <1>3, <1>7, Zenon DEF ItemInv
  <2>3. /\ (item.op = "ins" => ~Listed(cache, node, item.blk))'
        /\ (\A c \in extent_ins : ~Listed(cache, node, c))'
        /\ (\A c \in pending_del : Covered(c))'
        /\ (pc = "idle" => pinned_extents = {})'
    BY <1>1, <1>3, <1>5, <1>6, Zenon DEF ItemInv, Covered
  <2> QED
    BY <1>5, <2>1, <2>2, <2>3, Zenon DEF ItemInv
<1> QED
  BY <1>3, <1>5, <1>9, QueueFsck, Zenon

\* The allocation of btrfs_cow_block keeps the books.
LEMMA CowBlockFsck ==
    ASSUME FsckInv, IInv', CowBlock
    PROVE  FsckInv'
<1>1. IInv /\ TypeOK
  BY Parts, Zenon DEF FsckInv
<1>2. IInv'
  BY Zenon
<1>3. PICK x \in NextCow : Allocate("attach", x)
  BY Zenon DEF CowBlock
<1>4. goal.via \in Places
  BY <1>1, OpType, Zenon
<1>5. x \in Places
  BY <1>3, <1>4, PlaceFacts, Zenon DEF NextCow
<1> QED
  BY <1>2, <1>3, <1>5, AllocateFsck, Zenon DEF CowBlock

\* The allocation of a new leaf keeps the books.
LEMMA AllocLeafFsck ==
    ASSUME FsckInv, IInv', AllocLeaf
    PROVE  FsckInv'
<1>1. IInv /\ TypeOK
  BY Parts, Zenon DEF FsckInv
<1>2. IInv'
  BY Zenon
<1>3. goal.pos \in Places
  BY <1>1, OpType, Zenon
<1> QED
  BY <1>2, <1>3, AllocateFsck, Zenon DEF AllocLeaf, Ready

-----------------------------------------------------------------------------
(* They are silent *)

\* Root items live in the root tree: rewriting one leaves the file tree alone.
LEMMA RootItemKeeps ==
    ASSUME TypeOK, ControlInv, MemInv, SpaceInv, UpdateRoot \/ UpdateCowonlyRoot
    PROVE  Staged' = Staged
<1>1. /\ node' = node
      /\ \A b \in Blocks : b \notin {node["root_tree"]} => cache'[b] = cache[b]
  <2>1. cache \in [Blocks -> Images] /\ node["root_tree"] \in Blocks
    BY PlaceFacts, Zenon DEF TypeOK
  <2>2. CASE UpdateRoot
    BY <2>1, <2>2, Zenon DEF UpdateRoot
  <2>3. CASE UpdateCowonlyRoot
    BY <2>1, <2>3, Zenon DEF UpdateCowonlyRoot
  <2> QED
    BY <2>2, <2>3, Zenon
<1>2. \A p \in FsLeaves \cup {"fs_root"} : At(cache, node, p) \notin {node["root_tree"]}
  <2>1. /\ "root_tree" \in Places /\ At(cache, node, "root_tree") = node["root_tree"]
        /\ node["root_tree"] # NoBlock /\ "root_tree" \notin FsLeaves
        /\ "fs_root" \in Places
    BY PlaceFacts, Zenon DEF At, Roots, TypeOK
  <2> QED
    BY <2>1, FsPlaces, Zenon
<1> QED
  BY <1>1, <1>2, StagedKept, Zenon

\* Every control step keeps the invariant.
LEMMA ControlInvKept == ASSUME IInv, CommitStep \/ Call PROVE IInv'
<1>1. /\ TypeOK /\ ControlInv /\ SuperInv /\ DiskInv /\ MemInv /\ SpaceInv
      /\ FreshInv /\ DirtyInv /\ RootInv
  BY Parts, Zenon
<1>2. CASE CommitStep
  BY <1>1, <1>2, FinishCurrentInsertInv, DelPendingExtentsInv, CowBlockInv, AllocLeafInv,
     UpdateRootInv, CowTreeRootInv, NextDirtyRootInv, WriteDirtyBlockGroupsInv,
     UpdateCowonlyRootInv, AllWrittenInv, Zenon DEF CommitStep
<1>3. ASSUME NEW l \in FsLeaves, NEW v \in Values, Put(l, v) \/ New(l, v) PROVE IInv'
  BY <1>1, <1>3, CallInv, Zenon
<1>4. ASSUME NEW l \in FsLeaves, Del(l) PROVE IInv'
  <2>1. PICK v \in Values : TRUE
    BY CowAssumption, Zenon
  <2> QED
    BY <1>1, <1>4, <2>1, CallInv, Zenon
<1>5. CASE StartTransaction
  BY <1>1, <1>5, StartTransactionInv, Zenon
<1>6. CASE CommitTransaction
  BY <1>1, <1>6, CommitTransactionInv, Zenon
<1> QED
  BY <1>2, <1>3, <1>4, <1>5, <1>6, Zenon DEF Call

\* Every control step keeps the books.
LEMMA ControlFsckKept == ASSUME FsckInv, IInv', CommitStep \/ Call PROVE FsckInv'
<1>1. CASE CommitStep
  BY <1>1, FinishCurrentInsertFsck, DelPendingExtentsFsck, CowBlockFsck, AllocLeafFsck,
     UpdateRootFsck, CowTreeRootFsck, NextDirtyRootFsck, WriteDirtyBlockGroupsFsck,
     UpdateCowonlyRootFsck, AllWrittenFsck, Zenon DEF CommitStep
<1>2. ASSUME NEW l \in FsLeaves, NEW v \in Values, Put(l, v) \/ New(l, v) PROVE FsckInv'
  BY <1>2, SetGoalFsck, Zenon DEF Put, New
<1>3. ASSUME NEW l \in FsLeaves, Del(l) PROVE FsckInv'
  BY <1>3, SetGoalFsck, Zenon DEF Del
<1>4. CASE StartTransaction \/ CommitTransaction
  BY <1>4, StartTransactionFsck, CommitTransactionFsck, Zenon
<1> QED
  BY <1>1, <1>2, <1>3, <1>4, Zenon DEF Call

\* The store sees that a transaction begins, and nothing else of them.
LEMMA ControlRefines ==
    ASSUME IInv, CommitStep \/ Call
    PROVE  \/ Silent
           \/ ~Open /\ Open' /\ Committed' = Committed /\ Staged' = Staged
<1>1. TypeOK /\ ControlInv /\ MemInv /\ SpaceInv
  BY Parts, Zenon
<1>2. CASE UpdateRoot \/ UpdateCowonlyRoot
  <2>1. UNCHANGED <<disk, super>> /\ pc # "idle" /\ pc' # "idle"
    BY <1>2, Zenon DEF UpdateRoot, UpdateCowonlyRoot
  <2>2. Staged' = Staged
    BY <1>1, <1>2, RootItemKeeps, Zenon
  <2> QED
    BY <2>1, <2>2, CommittedKept, Zenon DEF Silent, Open
<1>3. CASE \/ FinishCurrentInsert \/ DelPendingExtents \/ CowBlock \/ AllocLeaf
           \/ \E l \in FsLeaves : \E v \in Values : Put(l, v) \/ New(l, v)
           \/ \E l \in FsLeaves : Del(l)
  <2>1. UNCHANGED <<disk, super, cache, node, pc>>
    BY <1>3, Zenon DEF FinishCurrentInsert, DelPendingExtents, CowBlock, AllocLeaf, Allocate,
       Put, New, Del, SetGoal, memory
  <2> QED
    BY <2>1, CommittedKept, Zenon DEF Silent, Open, Staged, FsVal, At
<1>4. CASE \/ CowTreeRoot \/ NextDirtyRoot \/ WriteDirtyBlockGroups
           \/ AllWritten \/ CommitTransaction
  <2>1. UNCHANGED <<disk, super, cache, node>>
    BY <1>4, Zenon DEF CowTreeRoot, NextDirtyRoot, WriteDirtyBlockGroups, AllWritten,
       CommitTransaction, memory
  <2>2. pc # "idle" /\ pc' # "idle"
    BY <1>4, Zenon DEF CowTreeRoot, NextDirtyRoot, WriteDirtyBlockGroups, AllWritten,
       CommitTransaction, Quiet
  <2> QED
    BY <2>1, <2>2, CommittedKept, Zenon DEF Silent, Open, Staged, FsVal, At
<1>5. CASE StartTransaction
  <2>1. UNCHANGED <<disk, super, cache, node>> /\ pc = "idle" /\ pc' = "run"
    BY <1>5, Zenon DEF StartTransaction
  <2>2. ~Open /\ Open'
    BY <2>1, Zenon DEF Open
  <2> QED
    BY <2>1, <2>2, CommittedKept, Zenon DEF Staged, FsVal, At
<1> QED
  BY <1>2, <1>3, <1>4, <1>5, Zenon DEF CommitStep, Call
=============================================================================

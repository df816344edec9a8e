------------------------ MODULE CowCommitExtentTree -------------------------
(***************************************************************************)
(* The actions on the extent tree: blocks of the tree are copied and added, *)
(* extent items and the block group item are written.  Each keeps IInv and *)
(* FsckInv and changes nothing that the store sees.                        *)
(***************************************************************************)
EXTENDS CowCommitFacts

-----------------------------------------------------------------------------
(* What the actions do *)

\* Inserting or deleting extent items changes only the items of a leaf.
LEMMA SetItems ==
    ASSUME NEW i \in Images, NEW s \in SUBSET Blocks
    PROVE  LET j == [i EXCEPT !.items = s]
           IN /\ j \in Images /\ j.gen = i.gen /\ j.written = i.written
              /\ j.kid = i.kid /\ j.items = s
BY Zenon DEF Images

\* Place x of the extent tree moves to block n, which was free: n waits for its
\* item in extent_ins, the block it replaces waits in pending_del.
ExtentMove(x, n) ==
    /\ x \in ExtLeaves \cup {"extent_root"} /\ n \in find_free_extent
    /\ item # NoOp /\ Changing
    /\ free_space_cache' = free_space_cache \ {n}
    /\ extent_ins' = extent_ins \cup {n}
    /\ pending_del' = pending_del \cup ({At(cache, node, x)} \ {NoBlock})
    /\ UNCHANGED <<disk, super, commit_root, pinned_extents, generation, used, bg_dirty,
                   item, cont, goal, pc, mirror, calls, crashes>>

\* btrfs_search_slot's cow of a leaf of the extent tree.
LEMMA CowExtentLeafStep ==
    ASSUME TypeOK, ControlInv, MemInv, SpaceInv, CowExtentLeaf
    PROVE  /\ \E n : /\ ExtentMove(ItemVia, n)
                     /\ LinkStep(ItemVia, n, copy_of(At(cache, node, ItemVia)), {})
           /\ ItemVia \in ExtLeaves /\ At(cache, node, ItemVia) \in Blocks
           /\ UNCHANGED <<node, dirty_roots>>
<1> DEFINE x == ItemVia
           old == At(cache, node, x)
<1>1. PICK n \in find_free_extent :
         /\ cache' = [cache EXCEPT ![n] = copy_of(old), ![extent_node].kid[x] = ptr_to(n)]
         /\ dirty' = (dirty \ {old}) \cup {n, extent_node}
         /\ free_space_cache' = free_space_cache \ {n}
         /\ extent_ins' = extent_ins \cup {n}
         /\ pending_del' = pending_del \cup {old}
  BY Zenon DEF CowExtentLeaf, Where
<1>2. /\ x \in ExtLeaves /\ x \in Places \ Roots /\ RootOf(x) = "extent_root"
      /\ old \in Blocks /\ old # NoBlock /\ Changing
      /\ FreshIn(cache, generation, node[RootOf(x)]) /\ extent_node = node[RootOf(x)]
      /\ n \in Blocks /\ n \notin Durable /\ \A p \in Places : At(cache, node, p) # n
      /\ item # NoOp
  BY Basics, PlaceFacts, Zenon DEF CowExtentLeaf, Where, should_cow_block, FreshIn, SpaceInv
<1>3. UNCHANGED <<disk, super, node, commit_root, dirty_roots, pinned_extents,
                  generation, used, bg_dirty, item, cont, goal, pc, mirror, calls, crashes>>
  BY Zenon DEF CowExtentLeaf, control
<1> HIDE DEF x
<1>4. LinkStep(x, n, copy_of(old), {})
  <2> HIDE DEF old
  <2>1. /\ copy_of(old) \in Images /\ copy_of(old).gen = generation
        /\ copy_of(old).written = FALSE /\ copy_of(old).items = cache[old].items
    BY <1>2, CopyOf, Zenon
  <2>2. /\ cache' = CopyLink(cache, n, copy_of(old), node[RootOf(x)], x, ptr_to(n))
        /\ dirty' = (dirty \ {old}) \cup {n, node[RootOf(x)]}
    BY <1>1, <1>2, Zenon DEF CopyLink
  <2> QED
    BY <1>2, <1>3, <2>1, <2>2, Zenon DEF LinkStep, old
<1>5. ExtentMove(x, n)
  BY <1>1, <1>2, <1>3, Zenon DEF ExtentMove
<1> QED
  BY <1>2, <1>3, <1>4, <1>5, Zenon DEF x

\* btrfs_search_slot's cow of the root of the extent tree.
LEMMA CowExtentNodeStep ==
    ASSUME TypeOK, ControlInv, MemInv, SpaceInv, CowExtentNode
    PROVE  /\ \E n : ExtentMove("extent_root", n) /\ RootStep("extent_root", n)
           /\ dirty_roots' = dirty_roots \cup {"extent_root"}
           /\ pc # "write_blocks" /\ should_cow_block(node["extent_root"])
<1>1. PICK n \in find_free_extent :
         /\ cache' = [cache EXCEPT ![n] = copy_of(extent_node)]
         /\ dirty' = (dirty \ {extent_node}) \cup {n}
         /\ node' = [node EXCEPT !["extent_root"] = n]
         /\ free_space_cache' = free_space_cache \ {n}
         /\ extent_ins' = extent_ins \cup {n}
         /\ pending_del' = pending_del \cup {extent_node}
         /\ dirty_roots' = dirty_roots \cup {"extent_root"}
  BY Zenon DEF CowExtentNode
<1>2. /\ Changing /\ item # NoOp /\ extent_node = node["extent_root"]
      /\ n \in Blocks /\ n \notin Durable /\ \A p \in Places : At(cache, node, p) # n
      /\ node["extent_root"] = At(cache, node, "extent_root")
      /\ node["extent_root"] \in Blocks /\ node["extent_root"] # NoBlock
      /\ pc # "write_blocks" /\ should_cow_block(extent_node)
  BY Basics, PlaceFacts DEF CowExtentNode, SpaceInv, ControlInv, NothingPending
<1>3. UNCHANGED <<disk, super, commit_root, pinned_extents,
                  generation, used, bg_dirty, item, cont, goal, pc, mirror, calls, crashes>>
  BY Zenon DEF CowExtentNode, control
<1>4. RootStep("extent_root", n)
  BY <1>1, <1>2, <1>3, PlaceFacts, Zenon DEF RootStep
<1>5. ExtentMove("extent_root", n)
  BY <1>1, <1>2, <1>3, Zenon DEF ExtentMove
<1> QED
  BY <1>1, <1>2, <1>4, <1>5, Zenon

\* split_leaf's new leaf of the extent tree.
LEMMA AddExtentLeafStep ==
    ASSUME TypeOK, ControlInv, MemInv, SpaceInv, AddExtentLeaf
    PROVE  /\ \E n : \E S : /\ ExtentMove(ItemLeaf, n)
                            /\ LinkStep(ItemLeaf, n, fresh_leaf(NoValue), S)
           /\ ItemLeaf \in ExtLeaves /\ At(cache, node, ItemLeaf) = NoBlock
           /\ UNCHANGED <<node, dirty_roots>>
<1> DEFINE x == ItemLeaf
           via == At(cache, node, ItemVia)
<1>1. PICK n \in find_free_extent :
         /\ cache' = [cache EXCEPT ![n] = fresh_leaf(NoValue), ![extent_node].kid[x] = ptr_to(n)]
         /\ dirty' = dirty \cup {n, extent_node, via}
         /\ free_space_cache' = free_space_cache \ {n}
         /\ extent_ins' = extent_ins \cup {n}
  BY Zenon DEF AddExtentLeaf, Where
<1>2. /\ x \in ExtLeaves /\ x \in Places \ Roots /\ RootOf(x) = "extent_root"
      /\ At(cache, node, x) = NoBlock /\ Changing
      /\ FreshIn(cache, generation, node[RootOf(x)]) /\ extent_node = node[RootOf(x)]
      /\ via \in Blocks /\ FreshIn(cache, generation, via)
      /\ n \in Blocks /\ n \notin Durable /\ \A p \in Places : At(cache, node, p) # n
      /\ item # NoOp
  BY Basics, PlaceFacts
     DEF AddExtentLeaf, ExtentPathReady, Where, should_cow_block, FreshIn, SpaceInv, NoOp
<1>3. UNCHANGED <<disk, super, node, commit_root, dirty_roots, pinned_extents, pending_del,
                  generation, used, bg_dirty, item, cont, goal, pc, mirror, calls, crashes>>
  BY Zenon DEF AddExtentLeaf, control
<1> HIDE DEF x, via
<1>4. LinkStep(x, n, fresh_leaf(NoValue), {via})
  <2>1. /\ fresh_leaf(NoValue) \in Images /\ fresh_leaf(NoValue).gen = generation
        /\ fresh_leaf(NoValue).written = FALSE /\ fresh_leaf(NoValue).items = {}
    BY FreshLeafImage, Zenon
  <2>2. /\ cache' = CopyLink(cache, n, fresh_leaf(NoValue), node[RootOf(x)], x, ptr_to(n))
        /\ dirty' = dirty \cup {n, node[RootOf(x)]} \cup {via}
    BY <1>1, <1>2, Zenon DEF CopyLink
  <2>3. dirty \ {At(cache, node, x)} = dirty
    BY <1>2, PlaceFacts DEF TypeOK
  <2> QED
    BY <1>2, <1>3, <2>1, <2>2, <2>3, Zenon DEF LinkStep
<1>5. ExtentMove(x, n)
  BY <1>1, <1>2, <1>3, Zenon DEF ExtentMove
<1> QED
  BY <1>2, <1>3, <1>4, <1>5, Zenon DEF x

PutItems(c, l, s) == [c EXCEPT ![l].items = s]

\* What the buffers hold after the items of a leaf are replaced.
LEMMA PutItemsCache ==
    ASSUME NEW c \in [Blocks -> Images], NEW l \in Blocks, NEW s \in SUBSET Blocks
    PROVE  LET d == PutItems(c, l, s) IN
           /\ d \in [Blocks -> Images]
           /\ d[l].gen = c[l].gen /\ d[l].written = c[l].written
           /\ d[l].kid = c[l].kid /\ d[l].items = s
           /\ \A b \in Blocks \ {l} : d[b] = c[b]
<1> DEFINE e == [c[l] EXCEPT !.items = s]
<1>1. /\ e \in Images /\ e.gen = c[l].gen /\ e.written = c[l].written
      /\ e.kid = c[l].kid /\ e.items = s
  BY SetItems, Zenon
<1>2. PutItems(c, l, s) = [c EXCEPT ![l] = e]
  BY Zenon DEF PutItems
<1> HIDE DEF e
<1> QED
  BY <1>1, <1>2, Zenon

\* The extent item of block b goes into its leaf at place x.
InsertStep(x, leaf, b) ==
    /\ x \in ExtLeaves /\ b = item.blk /\ b \in Blocks /\ x = LeafOf[b] /\ Changing
    /\ item # NoOp /\ item.op = "ins" /\ item' = NoOp /\ used' = used + 1 /\ bg_dirty' = TRUE
    /\ leaf = At(cache, node, x) /\ leaf \in Blocks
    /\ FreshIn(cache, generation, node["extent_root"])
    /\ extent_ins' = extent_ins \ {b}
    /\ UNCHANGED <<disk, super, node, commit_root, dirty_roots, free_space_cache,
                   pinned_extents, pending_del, generation, cont, goal, pc, mirror,
                   calls, crashes>>
    /\ TreeStep("root_tree", node["root_tree"]) /\ cache' \in [Blocks -> Images]
    /\ dirty' \subseteq Blocks
    /\ \A p \in Places : At(cache', node', p) = At(cache, node, p)
    /\ \A c \in Blocks : Listed(cache', node', c) <=> Listed(cache, node, c) \/ c = b
    /\ \A c \in Blocks :
          /\ cache'[c].gen = cache[c].gen /\ cache'[c].kid = cache[c].kid
          /\ cache'[c].items = IF c = leaf THEN cache[c].items \cup {b} ELSE cache[c].items
    /\ cache'[node["root_tree"]].kid = cache[node["root_tree"]].kid

\* finish_current_insert inserts an extent item.
LEMMA InsertExtentItemStep ==
    ASSUME TypeOK, ControlInv, MemInv, SpaceInv, InsertExtentItem
    PROVE  InsertStep(ItemLeaf, At(cache, node, ItemLeaf), item.blk)
<1> DEFINE x == ItemLeaf
           leaf == At(cache, node, x)
<1>1. /\ x \in ExtLeaves /\ x \in Places /\ x = LeafOf[item.blk] /\ item.blk \in Blocks
      /\ leaf \in Blocks /\ leaf # NoBlock /\ FreshIn(cache, generation, leaf) /\ Changing
      /\ item # NoOp /\ FreshIn(cache, generation, node["extent_root"])
      /\ \A p \in Places : p # x => At(cache, node, p) # leaf
  BY Basics, PlaceFacts
     DEF InsertExtentItem, ExtentPathReady, Where, should_cow_block, FreshIn, ItemLeaf,
         ItemVia, ControlInv, MemInv, NoOp
<1>2. /\ dirty' = dirty \cup {leaf} /\ extent_ins' = extent_ins \ {item.blk} /\ item' = NoOp
      /\ item.op = "ins" /\ used' = used + 1 /\ bg_dirty' = TRUE
      /\ UNCHANGED <<disk, super, node, commit_root, dirty_roots, free_space_cache,
                     pinned_extents, pending_del, generation, cont, goal, pc, mirror,
                     calls, crashes>>
  BY Zenon DEF InsertExtentItem, Where
<1>3. /\ cache' \in [Blocks -> Images]
      /\ cache'[leaf].gen = cache[leaf].gen /\ cache'[leaf].written = cache[leaf].written
      /\ cache'[leaf].kid = cache[leaf].kid
      /\ cache'[leaf].items = cache[leaf].items \cup {item.blk}
      /\ \A b \in Blocks \ {leaf} : cache'[b] = cache[b]
  <2>1. cache' = PutItems(cache, leaf, cache[leaf].items \cup {item.blk})
    BY Zenon DEF InsertExtentItem, Where, PutItems
  <2>2. cache \in [Blocks -> Images] /\ cache[leaf].items \cup {item.blk} \in SUBSET Blocks
    BY <1>1, Zenon DEF TypeOK, Images
  <2> HIDE DEF leaf
  <2> QED
    BY <1>1, <2>1, <2>2, PutItemsCache
<1> HIDE DEF x
<1>4. InPlace(leaf)
  <2> HIDE DEF leaf
  <2> QED
    BY <1>1, <1>2, <1>3, Zenon DEF InPlace
<1>5. /\ TreeStep("root_tree", node["root_tree"])
      /\ \A p \in Places : At(cache', node', p) = At(cache, node, p)
  <2> HIDE DEF leaf
  <2> QED
    BY <1>4, InPlaceIsTreeStep, Zenon
<1>6. \A b \in Blocks : Listed(cache', node', b) <=> Listed(cache, node, b) \/ b = item.blk
  <2> TAKE b \in Blocks
  <2>1. LeafOf[b] \in Places
    BY PlaceFacts, Zenon
  <2>2. CASE LeafOf[b] = x
    BY <2>1, <2>2, <1>1, <1>3, <1>5, SMTT(30) DEF Listed
  <2>3. CASE LeafOf[b] # x
    BY <2>1, <2>3, <1>1, <1>3, <1>5, Basics DEF Listed
  <2> QED
    BY <2>2, <2>3, Zenon
<1>7. cache'[node["root_tree"]].kid = cache[node["root_tree"]].kid
  BY <1>1, <1>3, Basics, PlaceFacts, Zenon
<1>8. \A c \in Blocks :
          /\ cache'[c].gen = cache[c].gen /\ cache'[c].kid = cache[c].kid
          /\ cache'[c].items = IF c = leaf THEN cache[c].items \cup {item.blk} ELSE cache[c].items
  <2> HIDE DEF leaf
  <2> QED
    BY <1>3, Zenon
<1>9. leaf = At(cache, node, x) /\ dirty' \subseteq Blocks
  BY <1>1, <1>2, Zenon DEF TypeOK
<1> HIDE DEF leaf
<1>10. InsertStep(x, leaf, item.blk)
  BY <1>1, <1>2, <1>3, <1>5, <1>6, <1>7, <1>8, <1>9, Zenon DEF InsertStep
<1> QED
  BY <1>10, Zenon DEF x, leaf

DropLeaf(c, l, m, x) == [c EXCEPT ![l].items = {}, ![m].kid[x] = NoPtr]

Dropped(c, d, l, m, x) ==
    /\ d \in [Blocks -> Images]
    /\ d[l].gen = c[l].gen /\ d[l].written = c[l].written
    /\ d[l].kid = c[l].kid /\ d[l].items = {}
    /\ d[m].gen = c[m].gen /\ d[m].written = c[m].written
    /\ d[m].kid = [c[m].kid EXCEPT ![x] = NoPtr] /\ d[m].items = c[m].items
    /\ \A b \in Blocks \ {l, m} : d[b] = c[b]

\* What the buffers hold after btrfs_del_leaf has unlinked an empty leaf.
LEMMA DropLeafCache ==
    ASSUME NEW c \in [Blocks -> Images], NEW l \in Blocks, NEW m \in Blocks, l # m,
           NEW x \in Places
    PROVE  Dropped(c, DropLeaf(c, l, m, x), l, m, x)
<1> DEFINE d == DropLeaf(c, l, m, x)
           e == [c[l] EXCEPT !.items = {}]
           f == [c[m] EXCEPT !.kid[x] = NoPtr]
<1>1. /\ e \in Images /\ e.gen = c[l].gen /\ e.written = c[l].written
      /\ e.kid = c[l].kid /\ e.items = {}
  BY SetItems, Zenon
<1>2. /\ f \in Images /\ f.gen = c[m].gen /\ f.written = c[m].written
      /\ f.items = c[m].items /\ f.kid = [c[m].kid EXCEPT ![x] = NoPtr]
  BY LinkImage DEF Ptrs
<1>3. d = [[c EXCEPT ![l] = e] EXCEPT ![m] = f]
  BY Zenon DEF DropLeaf
<1> HIDE DEF d, e, f
<1> QED
  BY <1>1, <1>2, <1>3, Zenon DEF d, Dropped

\* The extent item of block b leaves its leaf at place x, which is held by
\* block "to" afterwards: as before, or none if the leaf is dropped.
DeleteStep(x, leaf, b, to) ==
    /\ x \in ExtLeaves /\ b = item.blk /\ b \in Blocks /\ x = LeafOf[b] /\ Changing
    /\ item # NoOp /\ item.op = "del" /\ item' = NoOp /\ used' = used - 1 /\ bg_dirty' = TRUE
    /\ leaf = At(cache, node, x) /\ leaf \in Blocks /\ leaf # NoBlock
    /\ FreshIn(cache, generation, leaf) /\ FreshIn(cache, generation, node["extent_root"])
    /\ \A p \in Places : p # x => At(cache, node, p) # leaf
    /\ \A p \in Places : At(cache, node, p) # b
    /\ free_space_cache' \subseteq free_space_cache \cup {b}
    /\ pinned_extents' \subseteq pinned_extents \cup {b}
    /\ free_space_cache \cup pinned_extents \cup {b} \subseteq free_space_cache' \cup pinned_extents'
    /\ b \in free_space_cache' => b \in free_space_cache \/ FreshIn(cache, generation, b)
    /\ UNCHANGED <<disk, super, node, commit_root, dirty_roots, extent_ins,
                   generation, cont, goal, pc, mirror, calls, crashes>>
    /\ TreeStep(x, to) /\ cache' \in [Blocks -> Images] /\ dirty' \subseteq Blocks
    /\ \A p \in Places : At(cache', node', p) = IF p = x THEN to ELSE At(cache, node, p)
    /\ \A c \in Blocks : Listed(cache', node', c) <=> Listed(cache, node, c) /\ c # b
    /\ \A c \in Blocks :
          /\ cache'[c].gen = cache[c].gen /\ cache'[c].items \subseteq cache[c].items
          /\ cache'[c].kid = IF c = node["extent_root"] /\ to = NoBlock
                             THEN [cache[c].kid EXCEPT ![x] = NoPtr] ELSE cache[c].kid
    /\ cache'[node["root_tree"]].kid = cache[node["root_tree"]].kid
    /\ \/ to = NoBlock /\ pending_del' = pending_del \cup {leaf}
       \/ to = leaf /\ pending_del' = pending_del

\* __free_extent deletes an extent item and may drop the emptied leaf.
LEMMA DeleteExtentItemStep ==
    ASSUME TypeOK, ControlInv, MemInv, SpaceInv, DeleteExtentItem
    PROVE  \E to : DeleteStep(ItemLeaf, At(cache, node, ItemLeaf), item.blk, to)
<1> DEFINE x == ItemLeaf
           m == extent_node
           b == item.blk
           leaf == At(cache, node, x)
           left == cache[leaf].items \ {b}
           reused == {c \in {b} : CanReuse(c)}
           drop == left = {} /\ x # BgLeaf
<1>0. /\ x \in ExtLeaves /\ x = LeafOf[b] /\ b \in Blocks /\ x = ItemVia /\ Changing
      /\ item # NoOp
  BY Basics, PlaceFacts, SMTT(30) DEF DeleteExtentItem, ItemLeaf, ItemVia, ControlInv, NoOp
<1>1. /\ x \in Places \ Roots
      /\ RootOf(x) = "extent_root" /\ m = node[RootOf(x)] /\ m \in Blocks
      /\ leaf \in Blocks /\ leaf # NoBlock /\ FreshIn(cache, generation, leaf)
      /\ FreshIn(cache, generation, m) /\ m # leaf
      /\ \A p \in Places : p # x => At(cache, node, p) # leaf
      /\ \A p \in Places : At(cache, node, p) # b
  <2>1. /\ ~should_cow_block(m) /\ At(cache, node, x) # NoBlock /\ ~should_cow_block(leaf)
    BY <1>0, Zenon DEF DeleteExtentItem, ExtentPathReady, Where
  <2>2. FreshIn(cache, generation, m) /\ FreshIn(cache, generation, leaf)
    BY <2>1, Zenon DEF should_cow_block, FreshIn
  <2> HIDE DEF m
  <2>3. x \in Places \ Roots /\ RootOf(x) = "extent_root" /\ m = node["extent_root"]
    BY <1>0, PlaceFacts, Basics, Zenon DEF m
  <2> HIDE DEF x
  <2> QED
    BY <2>1, <2>2, <2>3, Basics, PlaceFacts DEF MemInv, SpaceInv, DeleteExtentItem, Where
<1>2. /\ item.op = "del" /\ item' = NoOp /\ used' = used - 1 /\ bg_dirty' = TRUE
      /\ free_space_cache' = free_space_cache \cup reused
      /\ pinned_extents' = pinned_extents \cup ({b} \ reused)
      /\ UNCHANGED <<disk, super, node, commit_root, dirty_roots, extent_ins,
                     generation, cont, goal, pc, mirror, calls, crashes>>
  BY Zenon DEF DeleteExtentItem, Where
<1>3. /\ free_space_cache' \subseteq free_space_cache \cup {b}
      /\ pinned_extents' \subseteq pinned_extents \cup {b}
      /\ free_space_cache \cup pinned_extents \cup {b} \subseteq free_space_cache' \cup pinned_extents'
      /\ b \in free_space_cache' => b \in free_space_cache \/ FreshIn(cache, generation, b)
      /\ reused \subseteq {b}
  BY <1>2, Zenon DEF CanReuse, FreshIn
<1>4. cache \in [Blocks -> Images] /\ left \in SUBSET Blocks
  BY <1>1, Zenon DEF TypeOK, Images
<1> DEFINE to == IF drop THEN NoBlock ELSE leaf
           Step1 == /\ TreeStep(x, to) /\ cache' \in [Blocks -> Images]
                    /\ \A p \in Places : At(cache', node', p) = IF p = x THEN to ELSE At(cache, node, p)
                    /\ \A c \in Blocks : Listed(cache', node', c) <=> Listed(cache, node, c) /\ c # b
                    /\ cache'[node["root_tree"]].kid = cache[node["root_tree"]].kid
                    /\ dirty' \subseteq Blocks
                    /\ \A c \in Blocks :
                         /\ cache'[c].gen = cache[c].gen /\ cache'[c].items \subseteq cache[c].items
                         /\ cache'[c].kid = IF c = m /\ to = NoBlock
                               THEN [cache[c].kid EXCEPT ![x] = NoPtr] ELSE cache[c].kid
                    /\ \/ to = NoBlock /\ pending_del' = pending_del \cup {leaf}
                       \/ to = leaf /\ pending_del' = pending_del
<1>5. ASSUME drop PROVE Step1
  <2>1. /\ cache' = DropLeaf(cache, leaf, m, x)
        /\ dirty' = (dirty \ (reused \cup {leaf})) \cup {m}
        /\ pending_del' = pending_del \cup {leaf}
    BY <1>5, Zenon DEF DeleteExtentItem, Where, DropLeaf
  <2> HIDE DEF x, m, leaf, left
  <2>2. /\ cache' \in [Blocks -> Images]
        /\ cache'[leaf].gen = cache[leaf].gen /\ cache'[leaf].written = cache[leaf].written
        /\ cache'[leaf].kid = cache[leaf].kid /\ cache'[leaf].items = {}
        /\ cache'[m].gen = cache[m].gen /\ cache'[m].written = cache[m].written
        /\ cache'[m].kid = [cache[m].kid EXCEPT ![x] = NoPtr]
        /\ cache'[m].items = cache[m].items
        /\ \A c \in Blocks \ {leaf, m} : cache'[c] = cache[c]
    <3>1. leaf \in Blocks /\ m \in Blocks /\ leaf # m /\ x \in Places /\ cache \in [Blocks -> Images]
      BY <1>1, <1>4, Zenon
    <3>2. cache' = DropLeaf(cache, leaf, m, x)
      BY <2>1, Zenon
    <3>3. Dropped(cache, cache', leaf, m, x)
      BY <3>1, <3>2, DropLeafCache, Zenon
    <3> QED
      BY <3>3, Zenon DEF Dropped
  <2>3. \A p \in Places : At(cache', node', p) = IF p = x THEN NoBlock ELSE At(cache, node, p)
    <3>1. \A r \in Roots : r # RootOf(x) => cache'[node[r]].kid = cache[node[r]].kid
      BY <1>1, <2>2, Basics, PlaceFacts
    <3>2. IsLink(cache, cache', node, x, NoPtr)
      BY <1>1, <1>4, <2>2, <3>1, Basics, Zenon DEF IsLink, Ptrs
    <3> QED
      BY <1>2, <3>2, Linked DEF NoPtr
  <2>4. \A c \in Blocks : Listed(cache', node', c) <=> Listed(cache, node, c) /\ c # b
    <3> TAKE c \in Blocks
    <3>1. LeafOf[c] \in Places
      BY PlaceFacts, Zenon
    <3>2. CASE LeafOf[c] = x
      BY <3>1, <3>2, <1>1, <1>5, <2>3, Zenon DEF Listed, left, leaf
    <3>3. CASE LeafOf[c] # x
      <4>1. /\ At(cache', node', LeafOf[c]) = At(cache, node, LeafOf[c]) /\ c # b
            /\ At(cache, node, LeafOf[c]) \in Blocks \cup {NoBlock}
            /\ At(cache, node, LeafOf[c]) # leaf
        BY <3>1, <3>3, <1>0, <1>1, <2>3, Basics, Zenon
      <4>2. \A d \in Blocks \ {leaf} : cache'[d].items = cache[d].items
        BY <2>2, Zenon
      <4> QED
        BY <4>1, <4>2, Zenon DEF Listed
    <3> QED
      BY <3>2, <3>3, Zenon
  <2>5. cache'[node["root_tree"]].kid = cache[node["root_tree"]].kid
    BY <1>1, <2>2, Basics, PlaceFacts
  <2>6. TreeStep(x, NoBlock)
    <3>1. dirty' \subseteq Blocks /\ node' \in [Roots -> Blocks] /\ x \notin Roots \cup {BgLeaf}
      BY <1>1, <1>2, <1>5, <2>1, Zenon DEF TypeOK
    <3>2. \A c \in Blocks : cache'[c].gen = cache[c].gen /\ cache'[c].written = cache[c].written
      BY <2>2, Zenon
    <3>3. FreshIn(cache', generation, m)
      BY <1>1, <3>2, Zenon DEF FreshIn
    <3>4. ASSUME NEW p \in Places, p # x, At(cache, node, p) \notin dirty' \cup {NoBlock}
          PROVE  /\ At(cache, node, p) \notin dirty
                 /\ cache'[At(cache, node, p)] = cache[At(cache, node, p)]
      <4>1. At(cache, node, p) \in Blocks /\ At(cache, node, p) \notin {leaf, b, m}
        BY <3>4, <1>1, <2>1, Basics, Zenon
      <4> HIDE DEF reused, b
      <4> QED
        BY <3>4, <4>1, <1>3, <2>1, <2>2, Zenon
    <3>5. \A c \in dirty' : c \in dirty \/ FreshIn(cache', generation, c)
      BY <2>1, <3>3, Zenon
    <3> QED
      BY <1>0, <1>1, <1>2, <2>2, <2>3, <3>1, <3>2, <3>4, <3>5, Zenon DEF TreeStep
  <2>7. to = NoBlock /\ drop /\ dirty' \subseteq Blocks
    BY <1>5, <2>6, Zenon DEF TreeStep
  <2> HIDE DEF to, drop
  <2>8. \A c \in Blocks :
          /\ cache'[c].gen = cache[c].gen /\ cache'[c].items \subseteq cache[c].items
          /\ cache'[c].kid = IF c = m /\ to = NoBlock
                             THEN [cache[c].kid EXCEPT ![x] = NoPtr] ELSE cache[c].kid
    BY <1>1, <2>2, <2>7, Zenon
  <2> QED
    BY <2>1, <2>2, <2>3, <2>4, <2>5, <2>6, <2>7, <2>8, Zenon
<1>6. ASSUME ~drop PROVE Step1
  <2>1. /\ cache' = PutItems(cache, leaf, left)
        /\ dirty' = (dirty \ reused) \cup {leaf}
        /\ UNCHANGED pending_del
    BY <1>6, Zenon DEF DeleteExtentItem, Where, PutItems
  <2> HIDE DEF x, m, leaf, left
  <2>2. /\ cache' \in [Blocks -> Images]
        /\ cache'[leaf].gen = cache[leaf].gen /\ cache'[leaf].written = cache[leaf].written
        /\ cache'[leaf].kid = cache[leaf].kid /\ cache'[leaf].items = left
        /\ \A c \in Blocks \ {leaf} : cache'[c] = cache[c]
    BY <1>1, <1>4, <2>1, PutItemsCache
  <2>3. \A q \in Blocks : cache'[q].kid = cache[q].kid
    BY <2>2, Zenon
  <2>4. \A p \in Places : At(cache', node', p) = At(cache, node, p)
    BY <1>2, <2>3, Basics, PlaceFacts, Zenon DEF At
  <2>5. \A p \in Places : At(cache', node', p) = IF p = x THEN leaf ELSE At(cache, node, p)
    BY <2>4, Zenon DEF leaf
  <2>6. \A c \in Blocks : Listed(cache', node', c) <=> Listed(cache, node, c) /\ c # b
    <3> TAKE c \in Blocks
    <3>1. /\ LeafOf[c] \in Places /\ At(cache', node', LeafOf[c]) = At(cache, node, LeafOf[c])
          /\ At(cache, node, LeafOf[c]) \in Blocks \cup {NoBlock}
      BY PlaceFacts, <2>4, Basics, Zenon
    <3>2. CASE LeafOf[c] = x
      BY <3>1, <3>2, <1>1, <2>2, Zenon DEF Listed, left, leaf
    <3>3. CASE LeafOf[c] # x
      <4>1. c # b /\ At(cache, node, LeafOf[c]) # leaf
        BY <3>1, <3>3, <1>0, <1>1, Zenon
      <4> QED
        BY <3>1, <4>1, <2>2, Zenon DEF Listed
    <3> QED
      BY <3>2, <3>3, Zenon
  <2>7. cache'[node["root_tree"]].kid = cache[node["root_tree"]].kid
    BY <2>3, Basics, PlaceFacts, Zenon
  <2>8. TreeStep(x, leaf)
    <3>1. dirty' \subseteq Blocks /\ node' \in [Roots -> Blocks] /\ leaf \in dirty'
      BY <1>1, <1>2, <2>1, Zenon DEF TypeOK
    <3>2. \A c \in Blocks : cache'[c].gen = cache[c].gen /\ cache'[c].written = cache[c].written
      BY <2>2, Zenon
    <3>3. FreshIn(cache', generation, leaf)
      BY <1>1, <3>2, Zenon DEF FreshIn
    <3>4. ASSUME NEW p \in Places, p # x, At(cache, node, p) \notin dirty' \cup {NoBlock}
          PROVE  /\ At(cache, node, p) \notin dirty
                 /\ cache'[At(cache, node, p)] = cache[At(cache, node, p)]
      <4>1. At(cache, node, p) \in Blocks /\ At(cache, node, p) \notin {leaf, b}
        BY <3>4, <1>1, <2>1, Basics, Zenon
      <4> HIDE DEF reused, b
      <4> QED
        BY <3>4, <4>1, <1>3, <2>1, <2>2, Zenon
    <3>5. \A c \in dirty' : c \in dirty \/ FreshIn(cache', generation, c)
      BY <2>1, <3>3, Zenon
    <3> QED
      BY <1>0, <1>1, <1>2, <2>2, <2>5, <3>1, <3>2, <3>3, <3>4, <3>5, Zenon DEF TreeStep
  <2>9. to = leaf /\ ~drop /\ dirty' \subseteq Blocks
    BY <1>6, <2>8, Zenon DEF TreeStep
  <2> HIDE DEF to, drop
  <2>10. \A c \in Blocks :
          /\ cache'[c].gen = cache[c].gen /\ cache'[c].items \subseteq cache[c].items
          /\ cache'[c].kid = IF c = m /\ to = NoBlock
                             THEN [cache[c].kid EXCEPT ![x] = NoPtr] ELSE cache[c].kid
    <3>1. left \subseteq cache[leaf].items
      BY Zenon DEF left
    <3> QED
      BY <1>1, <2>2, <2>9, <3>1, Zenon
  <2> QED
    BY <2>1, <2>2, <2>5, <2>6, <2>7, <2>8, <2>9, <2>10, Zenon
<1>7. Step1
  BY <1>5, <1>6, Zenon
<1>8. m = node["extent_root"]
  BY <1>1, Zenon
<1> HIDE DEF x, m, b, leaf, left, reused, drop, to
<1>9. DeleteStep(x, leaf, b, to)
  BY <1>0, <1>1, <1>2, <1>3, <1>7, <1>8, Zenon DEF DeleteStep, b, leaf
<1> QED
  BY <1>9, Zenon DEF x, leaf, b

\* write_one_cache_group changes the block group item.
LEMMA WriteBlockGroupItemStep ==
    ASSUME TypeOK, ControlInv, MemInv, SpaceInv, WriteBlockGroupItem
    PROVE  /\ LeafStep(At(cache, node, BgLeaf), used)
           /\ item.op = "bg" /\ item' = NoOp /\ goal' = goal
<1> DEFINE leaf == At(cache, node, BgLeaf)
<1>1. /\ BgLeaf \in Places /\ leaf \in Blocks /\ FreshIn(cache, generation, leaf)
      /\ leaf # node["root_tree"] /\ Changing /\ item.op = "bg"
  BY Basics, PlaceFacts
     DEF WriteBlockGroupItem, ExtentPathReady, ItemVia, ItemLeaf, Where, should_cow_block,
         FreshIn, MemInv, NoOp
<1>2. /\ dirty' = dirty \cup {leaf} /\ item' = NoOp
      /\ UNCHANGED <<disk, super, node, commit_root, dirty_roots, free_space_cache,
                   pinned_extents, extent_ins, pending_del, generation, used,
                   bg_dirty, cont, goal, pc, mirror, calls, crashes>>
  BY Zenon DEF WriteBlockGroupItem, Where
<1>3. /\ cache' \in [Blocks -> Images]
      /\ cache'[leaf].gen = cache[leaf].gen /\ cache'[leaf].written = cache[leaf].written
      /\ cache'[leaf].kid = cache[leaf].kid /\ cache'[leaf].items = cache[leaf].items
      /\ cache'[leaf].used = used
      /\ \A b \in Blocks \ {leaf} : cache'[b] = cache[b]
  <2> DEFINE e == [cache[leaf] EXCEPT !.used = used]
  <2>1. cache' = [cache EXCEPT ![leaf] = e]
    BY Zenon DEF WriteBlockGroupItem, Where
  <2> HIDE DEF leaf
  <2>2. /\ e \in Images /\ e.gen = cache[leaf].gen /\ e.written = cache[leaf].written
        /\ e.kid = cache[leaf].kid /\ e.items = cache[leaf].items /\ e.used = used
    <3>1. cache[leaf] \in Images /\ used \in Int /\ NoValue \in Values \cup {NoValue}
      BY <1>1, Zenon DEF TypeOK
    <3> QED
      BY <3>1, SetUsedOrVal, Zenon
  <2> HIDE DEF e
  <2> QED
    BY <1>1, <2>1, <2>2, Zenon DEF TypeOK
<1> HIDE DEF leaf
<1>4. InPlace(leaf)
  BY <1>1, <1>2, <1>3, Zenon DEF InPlace
<1>5. LeafStep(leaf, used) /\ item.op = "bg" /\ item' = NoOp /\ goal' = goal
  BY <1>1, <1>2, <1>3, <1>4, Zenon DEF LeafStep
<1> QED
  BY <1>5, Zenon DEF leaf

-----------------------------------------------------------------------------
(* They keep IInv *)

\* Nothing is free and in use, or used twice, after such a move.
LEMMA ExtentTreeMoves ==
    ASSUME TypeOK, ControlInv, SuperInv, DiskInv, MemInv, SpaceInv, FreshInv,
           DirtyInv, RootInv, NEW x, NEW n, TreeStep(x, n), ExtentMove(x, n),
           \A b \in Blocks : Listed(cache', node', b) <=> Listed(cache, node, b),
           dirty_roots' \subseteq {"extent_root"},
           pc = "write_blocks" => dirty_roots' = {},
           RootInv'
    PROVE  IInv'
<1>0. /\ Changing /\ x \in ExtLeaves \cup {"extent_root"} /\ n \in find_free_extent
      /\ free_space_cache' = free_space_cache \ {n} /\ extent_ins' = extent_ins \cup {n}
      /\ pending_del' = pending_del \cup ({At(cache, node, x)} \ {NoBlock})
      /\ UNCHANGED <<commit_root, pinned_extents, used, bg_dirty, item, cont, goal,
                     pc, mirror, calls, crashes>> /\ item # NoOp
  BY Zenon DEF ExtentMove
<1> DEFINE old == At(cache, node, x)
<1>1. /\ n \in Blocks /\ n \in free_space_cache /\ n \notin extent_ins /\ n # NoBlock
      /\ n \notin pinned_extents /\ \A p \in Places : At(cache, node, p) # n
      /\ x \in Places /\ x \notin FsLeaves /\ x # "fs_root" /\ x # "root_tree"
      /\ old \in Blocks \cup {NoBlock} /\ n # old
      /\ \A p \in Places : p # x => At(cache, node, p) # old \/ old = NoBlock
  BY <1>0, Basics, PlaceFacts, CowAssumption DEF MemInv, Where
<1>2. \A p \in Places : At(cache', node', p) = IF p = x THEN n ELSE At(cache, node, p)
  BY Zenon DEF TreeStep
<1>3. TypeOK'
  BY <1>0, <1>1, Zenon DEF TypeOK, TreeStep
<1>4. ControlInv'
  BY <1>0 DEF ControlInv, NothingPending, Changing
<1>5. (\A p \in Places : Where(p) # NoBlock => Covered(Where(p)))'
  BY <1>0, <1>1, <1>2, Basics, Zenon DEF Covered, MemInv, Where
<1>6. (cont.op # "none" => Covered(cont.blk))'
  BY <1>0, Zenon DEF Covered, ControlInv, MemInv
<1>7. SpaceInv'
  <2> USE DEF SpaceInv, Where
  <2>1. Durable' = Durable
    BY DiskFrame, Zenon DEF TreeStep
  <2>2. (\A b \in free_space_cache : /\ b \notin Durable \cup pending_del
                                     /\ b # cont.blk
                                     /\ item.op = "del" => b # item.blk)'
    BY <1>0, <1>1, <2>1, Zenon
  <2>3. (\A p \in Places :
          /\ Where(p) \notin free_space_cache \cup pinned_extents \cup pending_del
          /\ Where(p) # NoBlock => Where(p) # cont.blk
          /\ item.op = "del" => Where(p) # item.blk)'
    BY <1>0, <1>1, <1>2, PlaceFacts
  <2>4. (cont.op # "none" => cont.blk \notin pinned_extents \cup pending_del \cup Durable)'
    BY <1>0, <1>1, <2>1, PlaceFacts, Zenon DEF ControlInv
  <2>5. (item.op = "del" => item.blk \notin pending_del \cup {cont.blk})'
    BY <1>0, <1>1, Zenon
  <2> QED
    BY <2>2, <2>3, <2>4, <2>5, Zenon
<1>8. goal' = goal /\ x # goal.pos /\ (n = NoBlock => x # goal.via)
  <2>1. goal.pos \in FsLeaves \cup {"root_tree"}
    BY DEF ControlInv, RootGoal, NoOp
  <2> QED
    BY <1>0, <1>1, <2>1, Zenon
<1> QED
  BY <1>0, <1>3, <1>4, <1>5, <1>6, <1>7, <1>8, TreeStepInv, Zenon

\* It keeps the invariant.
LEMMA CowExtentLeafInv ==
    ASSUME TypeOK, ControlInv, SuperInv, DiskInv, MemInv, SpaceInv, FreshInv,
           DirtyInv, RootInv, CowExtentLeaf
    PROVE  IInv'
<1> DEFINE x == ItemVia
<1>1. PICK n : ExtentMove(x, n) /\ LinkStep(x, n, copy_of(At(cache, node, x)), {})
  BY CowExtentLeafStep, Zenon
<1>2. UNCHANGED <<node, dirty_roots>>
  BY CowExtentLeafStep, Zenon
<1> HIDE DEF x
<1>3. /\ TreeStep(x, n)
      /\ \A b \in Blocks : Listed(cache', node', b) <=> Listed(cache, node, b)
      /\ cache'[node["root_tree"]].kid = cache[node["root_tree"]].kid
  BY <1>1, LinkStepIsTreeStep, Zenon
<1>4. UNCHANGED <<disk, super, commit_root, generation, pc, mirror>>
  BY <1>1, Zenon DEF ExtentMove
<1>5. RootInv'
  BY <1>2, <1>3, <1>4, DiskFrame, Zenon DEF RootInv, Synced
<1>6. dirty_roots' \subseteq {"extent_root"} /\ (pc = "write_blocks" => dirty_roots' = {})
  BY <1>2, Zenon DEF TypeOK, ControlInv
<1> QED
  BY <1>1, <1>3, <1>5, <1>6, ExtentTreeMoves, Zenon

\* It keeps the invariant.
LEMMA CowExtentNodeInv ==
    ASSUME TypeOK, ControlInv, SuperInv, DiskInv, MemInv, SpaceInv, FreshInv,
           DirtyInv, RootInv, CowExtentNode
    PROVE  IInv'
<1>1. PICK n : ExtentMove("extent_root", n) /\ RootStep("extent_root", n)
  BY CowExtentNodeStep, Zenon
<1>2. dirty_roots' = dirty_roots \cup {"extent_root"} /\ pc # "write_blocks"
  BY CowExtentNodeStep, Zenon
<1>3. /\ TreeStep("extent_root", n)
      /\ \A b \in Blocks : Listed(cache', node', b) <=> Listed(cache, node, b)
      /\ cache'[node'["root_tree"]].kid = cache[node["root_tree"]].kid
  BY <1>1, RootStepIsTreeStep, Zenon
<1>4. UNCHANGED <<disk, super, commit_root, generation, pc, mirror>> /\ Changing
  BY <1>1, Zenon DEF ExtentMove
<1>5. RootInv'
  <2>1. node'["fs_root"] = node["fs_root"] /\ "extent_root" \in dirty_roots' /\ ~Synced
    BY <1>1, <1>2, <1>4, PlaceFacts DEF RootStep, TypeOK, Changing, Synced
  <2>2. DiskNode' = DiskNode
    BY <1>4, DiskFrame, Zenon
  <2> QED
    BY <1>3, <1>4, <2>1, <2>2, Zenon DEF RootInv, Synced
<1>6. dirty_roots' \subseteq {"extent_root"} /\ (pc = "write_blocks" => dirty_roots' = {})
  BY <1>2, Zenon DEF TypeOK
<1> QED
  BY <1>1, <1>3, <1>5, <1>6, ExtentTreeMoves, Zenon

\* It keeps the invariant.
LEMMA AddExtentLeafInv ==
    ASSUME TypeOK, ControlInv, SuperInv, DiskInv, MemInv, SpaceInv, FreshInv,
           DirtyInv, RootInv, AddExtentLeaf
    PROVE  IInv'
<1> DEFINE x == ItemLeaf
<1>1. PICK n, S : ExtentMove(x, n) /\ LinkStep(x, n, fresh_leaf(NoValue), S)
  BY AddExtentLeafStep, Zenon
<1>2. UNCHANGED <<node, dirty_roots>>
  BY AddExtentLeafStep, Zenon
<1> HIDE DEF x
<1>3. /\ TreeStep(x, n)
      /\ \A b \in Blocks : Listed(cache', node', b) <=> Listed(cache, node, b)
      /\ cache'[node["root_tree"]].kid = cache[node["root_tree"]].kid
  BY <1>1, LinkStepIsTreeStep, Zenon
<1>4. UNCHANGED <<disk, super, commit_root, generation, pc, mirror>>
  BY <1>1, Zenon DEF ExtentMove
<1>5. RootInv'
  BY <1>2, <1>3, <1>4, DiskFrame, Zenon DEF RootInv, Synced
<1>6. dirty_roots' \subseteq {"extent_root"} /\ (pc = "write_blocks" => dirty_roots' = {})
  BY <1>2, Zenon DEF TypeOK, ControlInv
<1> QED
  BY <1>1, <1>3, <1>5, <1>6, ExtentTreeMoves, Zenon

\* It keeps the invariant.
LEMMA InsertExtentItemInv ==
    ASSUME TypeOK, ControlInv, SuperInv, DiskInv, MemInv, SpaceInv, FreshInv,
           DirtyInv, RootInv, InsertExtentItem
    PROVE  IInv'
<1> DEFINE x == ItemLeaf
           leaf == At(cache, node, x)
<1>1. InsertStep(x, leaf, item.blk)
  BY InsertExtentItemStep, Zenon
<1> USE DEF InsertStep
<1> HIDE DEF x, leaf
<1>2. TypeOK'
  BY <1>1 DEF TypeOK, NoOp, Ops, Places, Roots
<1>3. ControlInv'
  BY <1>1, Zenon DEF ControlInv, NothingPending, NoOp
<1>4. (\A p \in Places : Where(p) # NoBlock => Covered(Where(p)))'
  BY <1>1, Basics, Zenon DEF Covered, MemInv, Where, NoOp
<1>5. (cont.op # "none" => Covered(cont.blk))'
  BY <1>1, Zenon DEF Covered, ControlInv, MemInv, NoOp
<1>6. SpaceInv'
  BY <1>1, DiskFrame, Zenon DEF SpaceInv, Where, NoOp
<1>7. RootInv'
  BY <1>1, DiskFrame, Zenon DEF RootInv, Synced
<1>8. goal' = goal /\ node["root_tree"] # NoBlock /\ At(cache, node, "root_tree") # NoBlock
  BY <1>1, Basics, PlaceFacts
<1> QED
  BY <1>1, <1>2, <1>3, <1>4, <1>5, <1>6, <1>7, <1>8, TreeStepInv, Zenon

\* It keeps the invariant.
LEMMA DeleteExtentItemInv ==
    ASSUME TypeOK, ControlInv, SuperInv, DiskInv, MemInv, SpaceInv, FreshInv,
           DirtyInv, RootInv, DeleteExtentItem
    PROVE  IInv'
<1> DEFINE x == ItemLeaf
           leaf == At(cache, node, x)
           b == item.blk
<1>1. PICK to : DeleteStep(x, leaf, b, to)
  BY DeleteExtentItemStep, Zenon
<1> USE DEF DeleteStep
<1>2. b = item.blk /\ leaf = At(cache, node, x)
  BY Zenon
<1> HIDE DEF x, b, leaf
<1>3. /\ TreeStep(x, to)
      /\ \A p \in Places : At(cache', node', p) = IF p = x THEN to ELSE At(cache, node, p)
      /\ \A c \in Blocks : Listed(cache', node', c) <=> Listed(cache, node, c) /\ c # b
      /\ (to = NoBlock /\ pending_del' = pending_del \cup {leaf})
            \/ (to = leaf /\ pending_del' = pending_del)
  BY <1>1, Zenon
<1>4. TypeOK'
  BY <1>1, SMTT(30) DEF TypeOK, NoOp, Ops, Places, Roots
<1>5. ControlInv'
  BY <1>1, Zenon DEF ControlInv, NothingPending, NoOp, Changing
<1>6. (\A p \in Places : Where(p) # NoBlock => Covered(Where(p)))'
  <2> SUFFICES ASSUME NEW p \in Places, At(cache', node', p) # NoBlock
               PROVE  Covered(Where(p))'
    BY Zenon DEF Where
  <2>1. /\ At(cache', node', p) = At(cache, node, p) /\ At(cache, node, p) \in Blocks
        /\ At(cache, node, p) # b
    BY <1>1, <1>2, <1>3, Basics, Zenon
  <2>2. Covered(At(cache, node, p))
    BY <2>1, PlaceFacts, Zenon DEF MemInv, Where
  <2> QED
    BY <2>1, <2>2, <1>1, <1>3, Zenon DEF Covered, Where, NoOp
<1>7. (cont.op # "none" => Covered(cont.blk))'
  BY <1>1, <1>2, <1>3, Zenon DEF Covered, ControlInv, MemInv, NoOp, SpaceInv
<1>8. SpaceInv'
  <2> USE DEF SpaceInv, Where
  <2>1. /\ Durable' = Durable /\ b \in Blocks /\ leaf # b /\ leaf \notin free_space_cache
        /\ leaf # cont.blk /\ b \notin pending_del /\ b # cont.blk
        /\ (b \in free_space_cache' => b \notin Durable)
    <3>1. /\ x \in Places /\ UNCHANGED <<disk, super>> /\ item.op = "del" /\ Changing
          /\ b \in Blocks /\ leaf # NoBlock /\ \A p \in Places : At(cache, node, p) # b
          /\ b \in free_space_cache' => b \in free_space_cache \/ FreshIn(cache, generation, b)
      BY <1>1, Zenon DEF Places
    <3>2. leaf # b /\ Durable' = Durable
      BY <3>1, <1>2, DiskFrame, Zenon
    <3>3. leaf \notin free_space_cache /\ leaf # cont.blk /\ b \notin pending_del /\ b # cont.blk
      BY <3>1, <1>2, Zenon
    <3>4. b \in free_space_cache' => b \notin Durable
      BY <3>1, <1>2, Zenon DEF FreshInv, Fresh, FreshIn
    <3> QED
      BY <3>1, <3>2, <3>3, <3>4, Zenon
  <2>2. (\A c \in free_space_cache : /\ c \notin Durable \cup pending_del
                                     /\ c # cont.blk
                                     /\ item.op = "del" => c # item.blk)'
    <3>1. /\ free_space_cache' \subseteq free_space_cache \cup {b} /\ cont' = cont /\ item' = NoOp
          /\ pending_del' \subseteq pending_del \cup {leaf}
      BY <1>1, <1>3, Zenon
    <3> QED
      BY <3>1, <2>1, Zenon DEF NoOp
  <2>3. (\A p \in Places :
          /\ Where(p) \notin free_space_cache \cup pinned_extents \cup pending_del
          /\ Where(p) # NoBlock => Where(p) # cont.blk
          /\ item.op = "del" => Where(p) # item.blk)'
    <3> SUFFICES ASSUME NEW p \in Places
                 PROVE  /\ At(cache', node', p) \notin free_space_cache' \cup pinned_extents' \cup pending_del'
                        /\ At(cache', node', p) # NoBlock => At(cache', node', p) # cont'.blk
      BY <1>1, Zenon DEF NoOp
    <3>1. CASE At(cache', node', p) = NoBlock
      BY <3>1, <1>4, PlaceFacts, Zenon DEF TypeOK
    <3>2. CASE At(cache', node', p) # NoBlock
      <4>1. /\ At(cache', node', p) = At(cache, node, p)
            /\ p = x => to = leaf /\ to # NoBlock
        BY <3>2, <1>1, <1>2, <1>3, Zenon
      <4> QED
        BY <3>2, <4>1, <1>1, <1>3, Zenon
    <3> QED
      BY <3>1, <3>2, Zenon
  <2>4. (cont.op # "none" => cont.blk \notin pinned_extents \cup pending_del \cup Durable)'
    BY <1>1, <1>3, <2>1, Zenon
  <2> QED
    BY <1>1, <2>2, <2>3, <2>4, Zenon DEF NoOp
<1>9. RootInv'
  BY <1>1, DiskFrame, Zenon DEF RootInv, Synced
<1>10. goal' = goal /\ x # goal.pos /\ x # goal.via
  <2>1. goal.pos \in FsLeaves \cup {"root_tree"} /\ goal.via \in FsLeaves \cup {"fs_root", "root_tree"}
    BY DEF ControlInv, RootGoal, NoOp
  <2> QED
    BY <1>1, <2>1, CowAssumption, Zenon DEF Roots
<1> QED
  BY <1>1, <1>3, <1>4, <1>5, <1>6, <1>7, <1>8, <1>9, <1>10, TreeStepInv, Zenon

\* It keeps the invariant.
LEMMA WriteBlockGroupItemInv ==
    ASSUME TypeOK, ControlInv, SuperInv, DiskInv, MemInv, SpaceInv, FreshInv,
           DirtyInv, RootInv, WriteBlockGroupItem
    PROVE  IInv'
<1> DEFINE leaf == At(cache, node, BgLeaf)
<1>1. LeafStep(leaf, used) /\ item.op = "bg" /\ item' = NoOp /\ goal' = goal
  BY WriteBlockGroupItemStep, Zenon
<1> HIDE DEF leaf
<1>2. /\ UNCHANGED <<disk, super, node, commit_root, dirty_roots, free_space_cache,
                   pinned_extents, extent_ins, pending_del, generation, used,
                   bg_dirty, cont, goal, pc, mirror, calls, crashes>>
      /\ Changing /\ cache' \in [Blocks -> Images] /\ dirty' \subseteq dirty \cup {leaf}
      /\ leaf \in Blocks /\ item' = NoOp
  BY <1>1, Zenon DEF LeafStep, InPlace
<1>3. /\ TreeStep("root_tree", node["root_tree"])
      /\ \A p \in Places : At(cache', node', p) = At(cache, node, p)
      /\ \A b \in Blocks : Listed(cache', node', b) <=> Listed(cache, node, b)
  BY <1>1, InPlaceIsTreeStep, InPlaceLists, Zenon DEF LeafStep
<1>4. TypeOK'
  BY <1>2 DEF TypeOK, NoOp, Ops, Places, Roots
<1>5. ControlInv'
  BY <1>1, <1>2 DEF ControlInv, NothingPending, NoOp, Changing
<1>6. RootInv'
  <2>1. cache'[node["root_tree"]] = cache[node["root_tree"]]
    BY <1>1, Basics, PlaceFacts, Zenon DEF LeafStep
  <2> QED
    BY <1>2, <2>1, DiskFrame, Zenon DEF RootInv, Synced
<1>7. /\ goal'.op # "none" => At(cache, node, goal'.via) # NoBlock
      /\ goal'.op = "new" => At(cache, node, goal'.pos) = NoBlock
  BY <1>2, Zenon DEF MemInv, Where
<1>8. /\ UNCHANGED <<free_space_cache, pinned_extents, extent_ins, pending_del, cont, goal, pc>>
      /\ Changing /\ item.op \notin {"ins", "del"} /\ item'.op \notin {"ins", "del"}
  BY <1>1, <1>2 DEF NoOp
<1> QED
  BY <1>3, <1>4, <1>5, <1>6, <1>7, <1>8, QuietStep, Zenon

-----------------------------------------------------------------------------
(* They keep FsckInv *)

\* A block the extent tree takes is queued for its item, the one it gives up is queued to
\* be freed: items and uses still match.
LEMMA MoveItems ==
    ASSUME IInv, ItemInv, NEW x, NEW n, ExtentMove(x, n), TreeStep(x, n),
           \A b \in Blocks : Listed(cache', node', b) <=> Listed(cache, node, b)
    PROVE  ItemInv'
<1>1. /\ TypeOK /\ ControlInv /\ MemInv /\ SpaceInv
  BY Parts, Zenon
<1>2. /\ free_space_cache' = free_space_cache \ {n}
      /\ extent_ins' = extent_ins \cup {n}
      /\ pending_del' = pending_del \cup ({At(cache, node, x)} \ {NoBlock})
      /\ UNCHANGED <<pinned_extents, item, cont, pc>>
      /\ n \in Blocks /\ n \in free_space_cache /\ x \in Places /\ n # NoBlock
      /\ At(cache, node, x) \in Blocks \cup {NoBlock}
      /\ pending_del \subseteq Blocks /\ extent_ins \subseteq Blocks
  <2>1. free_space_cache \subseteq Blocks /\ pending_del \subseteq Blocks /\ extent_ins \subseteq Blocks
    BY <1>1, Zenon DEF TypeOK
  <2>2. /\ free_space_cache' = free_space_cache \ {n}
        /\ extent_ins' = extent_ins \cup {n}
        /\ pending_del' = pending_del \cup ({At(cache, node, x)} \ {NoBlock})
        /\ UNCHANGED <<pinned_extents, item, cont, pc>>
    BY Zenon DEF ExtentMove
  <2>3. n \in free_space_cache /\ n \in Blocks /\ n # NoBlock
    <3>1. n \in find_free_extent
      BY Zenon DEF ExtentMove
    <3>2. n \in free_space_cache /\ n \in Blocks
      BY <1>1, <3>1, Basics, Zenon
    <3> QED
      BY <3>2, PlaceFacts, Zenon
  <2>4. x \in Places
    BY PlaceFacts, Zenon DEF ExtentMove
  <2>5. At(cache, node, x) \in Blocks \cup {NoBlock}
    BY <1>1, <2>4, Basics
  <2> QED
    BY <2>1, <2>2, <2>3, <2>4, <2>5, Zenon
<1>3. \A p \in Places : At(cache', node', p) = IF p = x THEN n ELSE At(cache, node, p)
  BY Zenon DEF TreeStep
<1>4. \A b \in Blocks : Covered(b)' <=> Covered(b) \/ b = n
  BY <1>2, Zenon DEF Covered
<1>5. ~Covered(n) /\ ~Listed(cache, node, n)
  BY <1>2, FreeUncovered, Zenon DEF Covered
<1>6. \A b \in Blocks : Covered(b)' => Owned(b)'
  <2> SUFFICES ASSUME NEW b \in Blocks, Covered(b)' PROVE Owned(b)'
    BY Zenon
  <2>1. CASE b = n
    BY <2>1, <1>2, <1>3, Zenon DEF Owned, Where
  <2>2. CASE b # n
    <3>1. Owned(b)
      BY <1>4, <2>2, Zenon DEF ItemInv
    <3>2. CASE \E p \in Places : Where(p) = b
      <4>1. PICK p \in Places : At(cache, node, p) = b
        BY <3>2, Zenon DEF Where
      <4>2. CASE p = x
        BY <4>1, <4>2, <1>2, PlaceFacts, Zenon DEF Owned
      <4>3. CASE p # x
        BY <4>1, <4>3, <1>3, Zenon DEF Owned, Where
      <4> QED
        BY <4>2, <4>3, Zenon
    <3> QED
      BY <3>1, <3>2, <1>2, Zenon DEF Owned
  <2> QED
    BY <2>1, <2>2, Zenon
<1>7. \A b \in pending_del' : Covered(b)'
  <2>1. At(cache, node, x) # NoBlock => Covered(At(cache, node, x))
    BY <1>1, <1>2, Zenon DEF MemInv, Where
  <2> QED
    BY <2>1, <1>2, <1>4, Zenon DEF ItemInv
<1>8. /\ item'.op = "del" => Listed(cache', node', item'.blk)
      /\ item'.op = "ins" => ~Listed(cache', node', item'.blk)
      /\ \A b \in extent_ins' : ~Listed(cache', node', b)
  BY <1>1, <1>2, <1>5, Zenon DEF ItemInv, ControlInv
<1>9. \A b \in Blocks : b \in free_space_cache' \/ b \in pinned_extents' \/ Covered(b)'
  BY <1>2, <1>4, Zenon DEF ItemInv
<1>10. pc' = "idle" => pinned_extents' = {}
  BY <1>2, Zenon DEF ItemInv
<1> QED
  BY <1>6, <1>7, <1>8, <1>9, <1>10, Zenon DEF ItemInv

\* A leaf of the extent tree that is copied or added.
LEMMA ExtentLeafFsck ==
    ASSUME FsckInv, IInv', NEW x, NEW n, NEW i, NEW S, ExtentMove(x, n), LinkStep(x, n, i, S),
           \A q \in Places : i.kid[q] = NoPtr,
           x = BgLeaf => i.used = cache[At(cache, node, x)].used,
           UNCHANGED dirty_roots
    PROVE  FsckInv'
<1>1. /\ IInv /\ TreeOK(cache, node) /\ RootItemInv /\ ItemInv /\ CountInv /\ DiskOK
      /\ TypeOK /\ ControlInv /\ MemInv /\ SpaceInv
  BY Parts, Zenon DEF FsckInv
<1>2. /\ TreeStep(x, n)
      /\ \A b \in Blocks : Listed(cache', node', b) <=> Listed(cache, node, b)
  BY <1>1, LinkStepIsTreeStep, Zenon
<1>3. UNCHANGED <<disk, super, used, bg_dirty, pc, item>> /\ x # "extent_root"
  <2>1. x \in Places \ Roots
    BY Zenon DEF LinkStep
  <2> QED
    BY <2>1, PlaceFacts, Zenon DEF ExtentMove
<1>4. /\ TreeOK(cache', node') /\ RootItemInv'
      /\ cache'[At(cache', node', BgLeaf)].used = cache[At(cache, node, BgLeaf)].used
  BY <1>1, <1>3, LinkStepTree, Zenon
<1>5. ItemInv'
  BY <1>1, <1>2, MoveItems, Zenon
<1>6. Fresh(node["extent_root"])' <=> Fresh(node["extent_root"])
  BY <1>1, <1>2, <1>3, ExtentRootKept, Zenon
<1>7. CountInv'
  BY <1>1, <1>2, <1>3, <1>4, <1>6, CountKept, Zenon
<1>8. DiskOK'
  BY <1>1, <1>3, DiskKept, Zenon
<1> QED
  BY <1>4, <1>5, <1>7, <1>8, Zenon DEF FsckInv

\* btrfs_search_slot's cow of a leaf of the extent tree keeps the books.
LEMMA CowExtentLeafFsck ==
    ASSUME FsckInv, IInv', CowExtentLeaf
    PROVE  FsckInv'
<1>1. /\ IInv /\ TreeOK(cache, node) /\ TypeOK /\ ControlInv /\ MemInv /\ SpaceInv
  BY Parts, Zenon DEF FsckInv
<1>2. IInv'
  BY Zenon
<1> DEFINE x == ItemVia
<1>3. PICK n : ExtentMove(x, n) /\ LinkStep(x, n, copy_of(At(cache, node, x)), {})
  BY <1>1, CowExtentLeafStep, Zenon
<1>4. x \in Places \ Roots /\ At(cache, node, x) # NoBlock /\ UNCHANGED dirty_roots
  BY <1>1, CowExtentLeafStep, PlaceFacts, Zenon
<1> HIDE DEF x
<1>5. /\ copy_of(At(cache, node, x)).used = cache[At(cache, node, x)].used
      /\ \A q \in Places : copy_of(At(cache, node, x)).kid[q] = NoPtr
  BY <1>1, <1>4, LeafCopy, Zenon
<1> QED
  BY <1>2, <1>3, <1>4, <1>5, ExtentLeafFsck, Zenon

\* split_leaf's new leaf of the extent tree keeps the books.
LEMMA AddExtentLeafFsck ==
    ASSUME FsckInv, IInv', AddExtentLeaf
    PROVE  FsckInv'
<1>1. /\ IInv /\ TypeOK /\ ControlInv /\ MemInv /\ SpaceInv
  BY Parts, Zenon DEF FsckInv
<1>2. IInv'
  BY Zenon
<1> DEFINE x == ItemLeaf
<1>3. PICK n, S : ExtentMove(x, n) /\ LinkStep(x, n, fresh_leaf(NoValue), S)
  BY <1>1, AddExtentLeafStep, Zenon
<1>4. x # BgLeaf /\ UNCHANGED dirty_roots
  BY <1>1, AddExtentLeafStep, Zenon DEF MemInv, Where
<1> HIDE DEF x
<1>5. \A q \in Places : fresh_leaf(NoValue).kid[q] = NoPtr
  BY <1>1, FreshLeafImage, Zenon
<1> QED
  BY <1>2, <1>3, <1>4, <1>5, ExtentLeafFsck, Zenon

\* The cow of the root of the extent tree puts it on the list of dirty roots.
LEMMA CowExtentNodeFsck ==
    ASSUME FsckInv, IInv', CowExtentNode
    PROVE  FsckInv'
<1>1. /\ IInv /\ TreeOK(cache, node) /\ RootItemInv /\ ItemInv /\ CountInv /\ DiskOK
      /\ TypeOK /\ ControlInv /\ MemInv /\ SpaceInv
  BY Parts, Zenon DEF FsckInv
<1>2. IInv'
  BY Zenon
<1>3. PICK n : ExtentMove("extent_root", n) /\ RootStep("extent_root", n)
  BY <1>1, CowExtentNodeStep, Zenon
<1>4. /\ TreeStep("extent_root", n)
      /\ \A b \in Blocks : Listed(cache', node', b) <=> Listed(cache, node, b)
  BY <1>1, <1>3, RootStepIsTreeStep, Zenon
<1>5. UNCHANGED <<disk, super, used, bg_dirty, pc, item>> /\ pc # "write_super" /\ pc # "write_blocks"
  BY <1>1, <1>3, CowExtentNodeStep, Zenon DEF ExtentMove, Changing
<1>6. "extent_root" \in dirty_roots' /\ ~Fresh(node["extent_root"])
  BY <1>1, CowExtentNodeStep, Zenon DEF should_cow_block, Fresh, FreshIn
<1>7. cache[node["root_tree"]].kid["extent_root"].blk = DiskNode["extent_root"]
  <2>1. "extent_root" \in Roots \ {"root_tree"}
    BY PlaceFacts, Zenon
  <2> QED
    BY <1>1, <1>5, <1>6, <2>1, Zenon DEF RootItemInv
<1>8. /\ TreeOK(cache', node') /\ RootItemInv'
      /\ cache'[At(cache', node', BgLeaf)].used = cache[At(cache, node, BgLeaf)].used
  BY <1>1, <1>3, <1>5, <1>7, RootStepTree, Zenon
<1>9. ItemInv'
  BY <1>1, <1>3, <1>4, MoveItems, Zenon
<1>10. CountInv'
  BY <1>1, <1>4, <1>5, <1>6, <1>8, CountKept, Zenon
<1>11. DiskOK'
  BY <1>1, <1>5, DiskKept, Zenon
<1> QED
  BY <1>2, <1>8, <1>9, <1>10, <1>11, Zenon DEF FsckInv

\* An extent item more or less changes the number of items by one.
LEMMA ItemCount ==
    ASSUME Counting, NEW c, NEW d, NEW nd, NEW ne, NEW b \in Blocks
    PROVE  /\ Cardinality(ListedBlocks(c, nd)) \in Nat
           /\ ~Listed(c, nd, b) /\ (\A a \in Blocks : Listed(d, ne, a) <=> Listed(c, nd, a) \/ a = b)
                => Cardinality(ListedBlocks(d, ne)) = Cardinality(ListedBlocks(c, nd)) + 1
           /\ Listed(c, nd, b) /\ (\A a \in Blocks : Listed(d, ne, a) <=> Listed(c, nd, a) /\ a # b)
                => Cardinality(ListedBlocks(d, ne)) = Cardinality(ListedBlocks(c, nd)) - 1
<1> DEFINE S == ListedBlocks(c, nd)
           T == ListedBlocks(d, ne)
<1>1. S \subseteq Blocks /\ Cardinality(S) \in Nat
  <2>1. S \subseteq Blocks
    BY Zenon DEF ListedBlocks
  <2> HIDE DEF S
  <2> QED
    BY <2>1, Zenon DEF Counting
<1>2. ASSUME ~Listed(c, nd, b), \A a \in Blocks : Listed(d, ne, a) <=> Listed(c, nd, a) \/ a = b
      PROVE  Cardinality(T) = Cardinality(S) + 1
  <2>1. T = S \cup {b} /\ b \notin S
    BY <1>2, Zenon DEF ListedBlocks
  <2> HIDE DEF S, T
  <2> QED
    BY <1>1, <2>1, Zenon DEF Counting
<1>3. ASSUME Listed(c, nd, b), \A a \in Blocks : Listed(d, ne, a) <=> Listed(c, nd, a) /\ a # b
      PROVE  Cardinality(T) = Cardinality(S) - 1
  <2>1. T = S \ {b} /\ b \in S
    BY <1>3, Zenon DEF ListedBlocks
  <2> HIDE DEF S, T
  <2> QED
    BY <1>1, <2>1, Zenon DEF Counting
<1> QED
  BY <1>1, <1>2, <1>3, Zenon

\* An item operation of the extent tree marks the block group dirty, and by then the tree
\* is on the list of dirty roots.
LEMMA ItemStepCount ==
    ASSUME IInv, CountInv, item # NoOp, Fresh(node["extent_root"]), bg_dirty' = TRUE,
           used' = Cardinality(ListedBlocks(cache', node')), UNCHANGED <<pc, dirty_roots>>
    PROVE  CountInv'
<1>1. pc \notin {"idle", "dirty_roots", "root_item", "write_blocks", "write_super", "finish"}
  BY Parts, Zenon DEF ControlInv, NothingPending
<1>2. pc \in {"run", "update_root", "commit_roots"} => "extent_root" \in dirty_roots
  BY Zenon DEF CountInv
<1> QED
  BY <1>1, <1>2, Zenon DEF CountInv

\* Inserting an extent item keeps the books.
LEMMA InsertExtentItemFsck ==
    ASSUME Counting, FsckInv, IInv', InsertExtentItem
    PROVE  FsckInv'
<1>1. /\ IInv /\ TreeOK(cache, node) /\ RootItemInv /\ ItemInv /\ CountInv /\ DiskOK
      /\ TypeOK /\ ControlInv /\ MemInv /\ SpaceInv /\ Apart(cache, node)
  BY Parts, Zenon DEF FsckInv
<1>2. IInv'
  BY Zenon
<1> DEFINE x == ItemLeaf
           leaf == At(cache, node, x)
           b == item.blk
           m == node["extent_root"]
<1>3. InsertStep(x, leaf, b)
  BY <1>1, InsertExtentItemStep, Zenon
<1>4. b = item.blk /\ m = node["extent_root"]
  BY Zenon
<1> HIDE DEF x, leaf, b, m
<1> USE DEF InsertStep
<1>5. TreeOK(cache', node')
  <2>1. /\ cache \in [Blocks -> Images] /\ node \in [Roots -> Blocks] /\ m \in Blocks
        /\ x \in Places /\ x \notin Roots /\ node' = node
    BY <1>1, <1>3, <1>4, Basics, PlaceFacts, Zenon
  <2>2. cache[m].kid \in [Places -> Ptrs] /\ cache[m].kid[x] \in Ptrs
    BY <2>1 DEF Images
  <2>3. \A c \in Blocks : cache'[c].kid = IF c = m
                             THEN [cache[c].kid EXCEPT ![x] = cache[m].kid[x]] ELSE cache[c].kid
    <3>1. \A c \in Blocks : cache'[c].kid = cache[c].kid
      BY <1>3, Zenon
    <3>2. cache[m].kid = [cache[m].kid EXCEPT ![x] = cache[m].kid[x]]
      BY <2>1, <2>2, Zenon
    <3> QED
      BY <3>1, <3>2, Zenon
  <2>4. ASSUME NEW q \in ExtLeaves, At(cache', node, q) # NoBlock,
               NEW c \in cache'[At(cache', node, q)].items
        PROVE  LeafOf[c] = q
    <3>1. /\ At(cache', node, q) = At(cache, node, q) /\ At(cache, node, q) \in Blocks
          /\ q \in Places
      BY <1>1, <1>3, <2>1, <2>4, Basics, PlaceFacts, Zenon
    <3>2. CASE At(cache, node, q) = leaf
      <4>1. q = x
        BY <1>1, <1>3, <2>1, <3>1, <3>2, PlaceFacts DEF Apart
      <4>2. c \in cache[At(cache, node, q)].items \/ c = b
        <5>1. cache'[leaf].items = cache[leaf].items \cup {b}
          BY <1>3, <3>1, <3>2, Zenon
        <5> QED
          BY <2>4, <3>1, <3>2, <5>1
      <4> QED
        <5>1. CASE c = b
          BY <1>3, <4>1, <5>1, Zenon
        <5>2. CASE c \in cache[At(cache, node, q)].items
          <6>1. At(cache, node, q) # NoBlock
            BY <2>4, <3>1, Zenon
          <6> QED
            BY <1>1, <2>4, <5>2, <6>1, Zenon DEF TreeOK
        <5> QED
          BY <4>2, <5>1, <5>2, Zenon
    <3>3. CASE At(cache, node, q) # leaf
      <4>1. cache'[At(cache', node, q)].items = cache[At(cache, node, q)].items
        BY <1>3, <3>1, <3>3, Zenon
      <4> QED
        BY <1>1, <2>4, <3>1, <4>1, Zenon DEF TreeOK
    <3> QED
      BY <3>2, <3>3, Zenon
  <2>5. \A c \in Blocks : cache'[c].gen = cache[c].gen
    BY <1>3, Zenon
  <2>6. cache' \in [Blocks -> Images]
    BY <1>3, Zenon
  <2>7. PointerStep(cache, cache', node, m, x, cache[m].kid[x])
    BY <2>1, <2>2, <2>3, <2>4, <2>5, <2>6, Zenon DEF PointerStep
  <2> QED
    BY <1>1, <2>1, <2>7, UnlinkedTree, Zenon
<1>6. RootItemInv'
  BY <1>1, <1>3, RootItemsKept, Zenon
<1>7. ItemInv'
  <2>1. /\ extent_ins' = extent_ins \ {b} /\ item' = NoOp /\ NoOp.op = "none" /\ item.op = "ins"
        /\ \A c \in Blocks : Listed(cache', node', c) <=> Listed(cache, node, c) \/ c = b
        /\ \A p \in Places : At(cache', node', p) = At(cache, node, p)
        /\ UNCHANGED <<free_space_cache, pinned_extents, pending_del, cont, pc>>
        /\ extent_ins \subseteq Blocks /\ pending_del \subseteq Blocks
    BY <1>1, <1>3, OpFacts, Zenon DEF TypeOK
  <2>2. \A c \in Blocks : (Covered(c)' <=> Covered(c)) /\ (Owned(c)' <=> Owned(c))
    BY <2>1, <1>4, Zenon DEF Covered, Owned, Where
  <2> QED
    BY <1>1, <2>1, <2>2, Zenon DEF ItemInv
<1>8. CountInv'
  <2>1. used' = Cardinality(ListedBlocks(cache', node'))
    <3>1. ~Listed(cache, node, b) /\ b \in Blocks
          /\ used' = used + 1 /\ used = Cardinality(ListedBlocks(cache, node))
          /\ \A c \in Blocks : Listed(cache', node', c) <=> Listed(cache, node, c) \/ c = b
      BY <1>1, <1>3, <1>4, Zenon DEF ItemInv, CountInv
    <3> QED
      BY <3>1, ItemCount
  <2> QED
    BY <1>1, <1>3, <2>1, ItemStepCount, Zenon DEF Fresh
<1>9. DiskOK'
  BY <1>1, <1>3, DiskKept, Zenon
<1> QED
  BY <1>2, <1>5, <1>6, <1>7, <1>8, <1>9, Zenon DEF FsckInv

\* Deleting an extent item, and the leaf it empties, keeps the books.
LEMMA DeleteExtentItemFsck ==
    ASSUME Counting, FsckInv, IInv', DeleteExtentItem
    PROVE  FsckInv'
<1>1. /\ IInv /\ TreeOK(cache, node) /\ RootItemInv /\ ItemInv /\ CountInv /\ DiskOK
      /\ TypeOK /\ ControlInv /\ MemInv /\ SpaceInv /\ Apart(cache, node)
  BY Parts, Zenon DEF FsckInv
<1>2. IInv'
  BY Zenon
<1> DEFINE x == ItemLeaf
           leaf == At(cache, node, x)
           b == item.blk
           m == node["extent_root"]
<1>3. PICK to : DeleteStep(x, leaf, b, to)
  BY <1>1, DeleteExtentItemStep, Zenon
<1>4. b = item.blk /\ m = node["extent_root"]
  BY Zenon
<1> HIDE DEF x, leaf, b, m
<1> USE DEF DeleteStep
<1>5. TreeOK(cache', node')
  <2> DEFINE k == IF to = NoBlock THEN NoPtr ELSE cache[m].kid[x]
  <2>1. /\ cache \in [Blocks -> Images] /\ node \in [Roots -> Blocks] /\ m \in Blocks
        /\ x \in Places /\ x \notin Roots /\ node' = node
    BY <1>1, <1>3, <1>4, Basics, PlaceFacts, Zenon
  <2>2. cache[m].kid \in [Places -> Ptrs] /\ cache[m].kid[x] \in Ptrs /\ k \in Ptrs
    BY <2>1 DEF Images, Ptrs
  <2>3. \A c \in Blocks : cache'[c].kid = IF c = m
                             THEN [cache[c].kid EXCEPT ![x] = k] ELSE cache[c].kid
    <3>1. \A c \in Blocks : cache'[c].kid = IF c = m /\ to = NoBlock
                             THEN [cache[c].kid EXCEPT ![x] = NoPtr] ELSE cache[c].kid
      BY <1>3, <1>4, Zenon
    <3>2. cache[m].kid = [cache[m].kid EXCEPT ![x] = cache[m].kid[x]]
      BY <2>1, <2>2, Zenon
    <3> QED
      BY <3>1, <3>2, Zenon
  <2>4. ASSUME NEW q \in ExtLeaves, At(cache', node, q) # NoBlock,
               NEW c \in cache'[At(cache', node, q)].items
        PROVE  LeafOf[c] = q
    <3>1. q \in Places /\ At(cache', node, q) = IF q = x THEN to ELSE At(cache, node, q)
      BY <1>3, <2>1, PlaceFacts, Zenon
    <3>2. to = NoBlock \/ to = At(cache, node, x)
      BY <1>3, Zenon
    <3>3. At(cache', node, q) = At(cache, node, q) /\ At(cache, node, q) \in Blocks
      BY <1>1, <2>1, <2>4, <3>1, <3>2, Basics, Zenon
    <3>4. c \in cache[At(cache, node, q)].items
      BY <1>3, <2>4, <3>3, Zenon
    <3> QED
      BY <1>1, <2>4, <3>3, <3>4, Zenon DEF TreeOK
  <2>5. (\A c \in Blocks : cache'[c].gen = cache[c].gen) /\ cache' \in [Blocks -> Images]
    BY <1>3, Zenon
  <2>6. k \in {NoPtr, cache[m].kid[x]}
    BY Zenon
  <2> HIDE DEF k
  <2>7. PointerStep(cache, cache', node, m, x, k)
    BY <2>1, <2>2, <2>3, <2>4, <2>5, Zenon DEF PointerStep
  <2> QED
    BY <1>1, <2>1, <2>6, <2>7, UnlinkedTree, Zenon
<1>6. RootItemInv'
  BY <1>1, <1>3, RootItemsKept, Zenon
<1>7. ItemInv'
  <2>1. /\ extent_ins' = extent_ins /\ item' = NoOp /\ NoOp.op = "none" /\ item.op = "del"
        /\ \A c \in Blocks : Listed(cache', node', c) <=> Listed(cache, node, c) /\ c # b
        /\ \A p \in Places : At(cache', node', p) = IF p = x THEN to ELSE At(cache, node, p)
        /\ \/ to = NoBlock /\ pending_del' = pending_del \cup {leaf}
           \/ to = leaf /\ pending_del' = pending_del
        /\ UNCHANGED <<cont, pc>> /\ leaf = At(cache, node, x) /\ leaf \in Blocks
        /\ extent_ins \subseteq Blocks /\ pending_del \subseteq Blocks /\ b \in Blocks
        /\ free_space_cache \cup pinned_extents \cup {b} \subseteq free_space_cache' \cup pinned_extents'
        /\ x \in Places /\ leaf # NoBlock /\ leaf # b /\ pc # "idle"
    <3>1. x \in Places /\ x \in ExtLeaves
      BY <1>3, PlaceFacts, Zenon
    <3> QED
      BY <1>1, <1>3, <3>1, OpFacts, Zenon DEF TypeOK, Changing
  <2>2. Listed(cache, node, b)
    BY <1>1, <1>4, <2>1, Zenon DEF ItemInv
  <2>3. b \notin extent_ins
    BY <1>1, <2>2, Zenon DEF ItemInv
  <2>4. \A c \in Blocks : Covered(c)' <=> Covered(c) /\ c # b
    BY <2>1, <2>3, Zenon DEF Covered
  <2>5. ASSUME NEW c \in Blocks, Owned(c), c # b PROVE Owned(c)'
    <3>1. CASE \E p \in Places : Where(p) = c
      <4>1. PICK p \in Places : At(cache, node, p) = c
        BY <3>1, Zenon DEF Where
      <4>2. CASE p = x /\ to = NoBlock
        BY <2>1, <4>1, <4>2, Zenon DEF Owned
      <4>3. CASE ~(p = x /\ to = NoBlock)
        BY <2>1, <4>1, <4>3, Zenon DEF Owned, Where
      <4> QED
        BY <4>2, <4>3, Zenon
    <3> QED
      BY <2>1, <2>5, <3>1, <1>4, Zenon DEF Owned
  <2>6. \A c \in Blocks : Covered(c)' => Owned(c)'
    BY <1>1, <2>4, <2>5, Zenon DEF ItemInv
  <2>7. \A c \in pending_del' : Covered(c)'
    <3>1. Covered(leaf)
      BY <1>1, <2>1, Zenon DEF MemInv, Where
    <3>2. b \notin pending_del
      BY <1>1, <1>4, <2>1, Zenon DEF SpaceInv
    <3>3. \A c \in pending_del : Covered(c)
      BY <1>1, Zenon DEF ItemInv
    <3>4. pending_del' \subseteq pending_del \cup {leaf}
      BY <2>1, Zenon
    <3>5. \A c \in pending_del' : c \in Blocks /\ Covered(c) /\ c # b
      BY <2>1, <3>1, <3>2, <3>3, <3>4, Zenon
    <3> QED
      BY <2>4, <3>5, Zenon
  <2>8. \A c \in extent_ins' : ~Listed(cache', node', c)
    BY <1>1, <2>1, Zenon DEF ItemInv
  <2>9. \A c \in Blocks : c \in free_space_cache' \/ c \in pinned_extents' \/ Covered(c)'
    BY <1>1, <2>1, <2>4, Zenon DEF ItemInv
  <2> QED
    BY <2>1, <2>6, <2>7, <2>8, <2>9, Zenon DEF ItemInv
<1>8. CountInv'
  <2>1. used' = Cardinality(ListedBlocks(cache', node'))
    <3>1. Listed(cache, node, b) /\ b \in Blocks
          /\ used' = used - 1 /\ used = Cardinality(ListedBlocks(cache, node))
          /\ \A c \in Blocks : Listed(cache', node', c) <=> Listed(cache, node, c) /\ c # b
      BY <1>1, <1>3, <1>4, Zenon DEF ItemInv, CountInv
    <3> QED
      BY <3>1, ItemCount
  <2> QED
    BY <1>1, <1>3, <2>1, ItemStepCount, Zenon DEF Fresh
<1>9. DiskOK'
  BY <1>1, <1>3, DiskKept, Zenon
<1> QED
  BY <1>2, <1>5, <1>6, <1>7, <1>8, <1>9, Zenon DEF FsckInv

\* Storing the block group item makes it count the items again.
LEMMA WriteBlockGroupItemFsck ==
    ASSUME FsckInv, IInv', WriteBlockGroupItem
    PROVE  FsckInv'
<1>1. /\ IInv /\ TreeOK(cache, node) /\ RootItemInv /\ ItemInv /\ CountInv /\ DiskOK
      /\ TypeOK /\ ControlInv /\ MemInv /\ SpaceInv
  BY Parts, Zenon DEF FsckInv
<1>2. IInv'
  BY Zenon
<1> DEFINE leaf == At(cache, node, BgLeaf)
<1>3. /\ LeafStep(leaf, used) /\ item.op = "bg" /\ item' = NoOp
  BY <1>1, WriteBlockGroupItemStep, Zenon
<1>4. /\ TreeOK(cache', node') /\ RootItemInv' /\ TreeStep("root_tree", node["root_tree"])
      /\ \A p \in Places : At(cache', node', p) = At(cache, node, p)
      /\ \A b \in Blocks : Listed(cache', node', b) <=> Listed(cache, node, b)
  <2> HIDE DEF leaf
  <2> QED
    BY <1>1, <1>3, LeafStepTree, Zenon
<1>5. /\ UNCHANGED <<disk, super, free_space_cache, pinned_extents, extent_ins, pending_del,
                     cont, pc, used, bg_dirty, dirty_roots>>
      /\ NoOp.op = "none" /\ BgLeaf \in Places /\ cache'[leaf].used = used
  BY <1>3, OpFacts, PlaceFacts, Zenon DEF LeafStep
<1>6. ItemInv'
  BY <1>1, <1>3, <1>4, <1>5, ItemsKept, Zenon
<1>7. Fresh(node["extent_root"])' <=> Fresh(node["extent_root"])
  BY <1>1, <1>4, ExtentRootKept, Zenon
<1>8. ListedBlocks(cache', node') = ListedBlocks(cache, node)
  BY <1>4, Zenon DEF ListedBlocks
<1>9. cache'[Where(BgLeaf)'].used = used'
  BY <1>4, <1>5, Zenon DEF Where
<1>10. CountInv'
  BY <1>1, <1>5, <1>7, <1>8, <1>9, Zenon DEF CountInv
<1>11. DiskOK'
  BY <1>1, <1>5, DiskKept, Zenon
<1> QED
  BY <1>2, <1>4, <1>6, <1>10, <1>11, Zenon DEF FsckInv

-----------------------------------------------------------------------------
(* They are silent *)

\* The steps of the extent tree leave the file tree alone: they change the
\* blocks of the extent tree and blocks find_free_extent hands out.
LEMMA ExtentStepKeeps ==
    ASSUME TypeOK, ControlInv, MemInv, SpaceInv,
           \/ CowExtentNode \/ CowExtentLeaf \/ AddExtentLeaf
           \/ InsertExtentItem \/ DeleteExtentItem \/ WriteBlockGroupItem
    PROVE  Staged' = Staged
<1>1. /\ extent_node = At(cache, node, "extent_root")
      /\ \A p \in FsLeaves \cup {"fs_root"} :
            /\ p \in Places /\ p # "extent_root"
            /\ At(cache, node, p) # extent_node
            /\ \A n \in find_free_extent : At(cache, node, p) # n
            /\ \A q \in ExtLeaves : At(cache, node, q) # NoBlock
                  => At(cache, node, p) # At(cache, node, q)
  BY FsPlaces, Basics, PlaceFacts
<1>2. cache \in [Blocks -> Images] /\ node \in [Roots -> Blocks] /\ "fs_root" \in Roots
  BY PlaceFacts, Zenon DEF TypeOK
<1>3. CASE CowExtentNode
  <2>1. PICK n \in find_free_extent :
            /\ cache' = [cache EXCEPT ![n] = copy_of(extent_node)]
            /\ node' = [node EXCEPT !["extent_root"] = n]
    BY <1>3, Zenon DEF CowExtentNode
  <2>2. /\ node'["fs_root"] = node["fs_root"]
        /\ \A b \in Blocks : b \notin {n} => cache'[b] = cache[b]
    BY <1>2, <2>1, Zenon
  <2>3. \A p \in FsLeaves \cup {"fs_root"} : At(cache, node, p) \notin {n}
    BY <1>1, Zenon
  <2> QED
    BY <2>2, <2>3, StagedKept, Zenon
<1>4. CASE CowExtentLeaf \/ AddExtentLeaf
  <2>1. PICK n, i, x, k :
            /\ n \in find_free_extent
            /\ cache' = [cache EXCEPT ![n] = i, ![extent_node].kid[x] = k]
            /\ node' = node
    BY <1>4, Zenon DEF CowExtentLeaf, AddExtentLeaf
  <2>2. \A b \in Blocks : b \notin {n, extent_node} => cache'[b] = cache[b]
    BY <1>2, <2>1, Zenon
  <2>3. \A p \in FsLeaves \cup {"fs_root"} : At(cache, node, p) \notin {n, extent_node}
    BY <1>1, <2>1, Zenon
  <2> QED
    BY <2>1, <2>2, <2>3, StagedKept, Zenon
<1>5. CASE InsertExtentItem \/ DeleteExtentItem \/ WriteBlockGroupItem
  <2>1. /\ ItemLeaf \in ExtLeaves /\ At(cache, node, ItemLeaf) # NoBlock
        /\ item.op = "bg" => ItemLeaf = BgLeaf
    <3>1. item # NoOp /\ item.op # "none"
      BY <1>5, OpFacts, Zenon DEF InsertExtentItem, DeleteExtentItem, WriteBlockGroupItem
    <3>2. item.op # "ins" => ItemVia = ItemLeaf
      BY Zenon DEF ItemVia
    <3>3. At(cache, node, ItemLeaf) # NoBlock
      BY <1>5, <3>2, Zenon DEF InsertExtentItem, DeleteExtentItem, WriteBlockGroupItem,
                        ExtentPathReady, Where
    <3> QED
      BY <3>1, <3>3, Basics, Zenon DEF ItemLeaf
  <2> DEFINE leaf == At(cache, node, ItemLeaf)
  <2>2. /\ node' = node
        /\ \A b \in Blocks : b \notin {leaf, extent_node} => cache'[b] = cache[b]
    <3>1. CASE InsertExtentItem
      BY <1>2, <3>1, Zenon DEF InsertExtentItem, Where
    <3>2. CASE WriteBlockGroupItem
      BY <1>2, <2>1, <3>2, Zenon DEF WriteBlockGroupItem, Where
    <3>3. CASE DeleteExtentItem
      BY <1>2, <3>3, Zenon DEF DeleteExtentItem, Where
    <3> QED
      BY <1>5, <3>1, <3>2, <3>3, Zenon
  <2>3. \A p \in FsLeaves \cup {"fs_root"} : At(cache, node, p) \notin {leaf, extent_node}
    BY <1>1, <2>1, Zenon
  <2> HIDE DEF leaf
  <2> QED
    BY <2>2, <2>3, StagedKept, Zenon
<1> QED
  BY <1>3, <1>4, <1>5, Zenon

\* Every action on the extent tree keeps the invariant.
LEMMA ExtentTreeInv == ASSUME IInv, ExtentTreeStep PROVE IInv'
<1>1. /\ TypeOK /\ ControlInv /\ SuperInv /\ DiskInv /\ MemInv /\ SpaceInv
      /\ FreshInv /\ DirtyInv /\ RootInv
  BY Parts, Zenon
<1> QED
  BY <1>1, CowExtentNodeInv, CowExtentLeafInv, AddExtentLeafInv, InsertExtentItemInv,
     DeleteExtentItemInv, WriteBlockGroupItemInv, Zenon DEF ExtentTreeStep

\* Every action on the extent tree keeps the books.
LEMMA ExtentTreeFsck == ASSUME Counting, FsckInv, IInv', ExtentTreeStep PROVE FsckInv'
  BY CowExtentNodeFsck, CowExtentLeafFsck, AddExtentLeafFsck, InsertExtentItemFsck,
     DeleteExtentItemFsck, WriteBlockGroupItemFsck, Zenon DEF ExtentTreeStep

\* The store sees nothing of the extent tree.
LEMMA ExtentTreeSilent == ASSUME IInv, ExtentTreeStep PROVE Silent
<1>1. TypeOK /\ ControlInv /\ MemInv /\ SpaceInv
  BY Parts, Zenon
<1>2. UNCHANGED <<disk, super, pc>>
  BY Zenon DEF ExtentTreeStep, CowExtentNode, CowExtentLeaf, AddExtentLeaf, InsertExtentItem,
     DeleteExtentItem, WriteBlockGroupItem, control
<1>3. Staged' = Staged
  BY <1>1, ExtentStepKeeps, Zenon DEF ExtentTreeStep
<1> QED
  BY <1>2, <1>3, CommittedKept, Zenon DEF Silent, Open
=============================================================================

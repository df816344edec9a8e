------------------------- MODULE CowCommitFileTree --------------------------
(***************************************************************************)
(* The actions on the file tree and the roots: a copied block is linked, a *)
(* value is put, a leaf is added or deleted.  Each keeps IInv and FsckInv  *)
(* and changes at most one entry that the process sees.                    *)
(***************************************************************************)
EXTENDS CowCommitFacts

-----------------------------------------------------------------------------
(* What the actions do *)

\* An item in a leaf of the file tree is changed.
LEMMA PutValueStep ==
    ASSUME TypeOK, ControlInv, MemInv, SpaceInv, PutValue
    PROVE  /\ LeafStep(At(cache, node, goal.pos), cache[At(cache, node, goal.pos)].used)
           /\ goal.op = "put" /\ goal.pos \in FsLeaves /\ At(cache, node, goal.pos) # NoBlock
           /\ item = NoOp /\ cont = NoOp /\ goal' = NoOp /\ item' = item
<1> DEFINE leaf == At(cache, node, goal.pos)
<1>1. /\ goal.op = "put" /\ goal.pos \in Places /\ goal.pos \in FsLeaves /\ goal.via = goal.pos
      /\ Changing /\ cont = NoOp /\ item = NoOp
  BY Basics, PlaceFacts, Zenon DEF PutValue, Ready, Drained, ControlInv, NoOp
<1>2. /\ leaf \in Blocks /\ FreshIn(cache, generation, leaf) /\ leaf # node["root_tree"]
  <2>1. ~should_cow_block(leaf) /\ leaf # NoBlock
    BY <1>1, Zenon DEF PutValue, Ready, NextCow, Where, MemInv
  <2> QED
    BY <1>1, <2>1, Basics, PlaceFacts DEF should_cow_block, FreshIn, MemInv, Where
<1>3. /\ dirty' = dirty \cup {leaf} /\ goal' = NoOp
      /\ UNCHANGED <<disk, super, node, commit_root, dirty_roots, free_space_cache,
                   pinned_extents, extent_ins, pending_del, generation, used,
                   bg_dirty, item, cont, pc, mirror, calls, crashes>>
  BY Zenon DEF PutValue, Where
<1>4. /\ cache' \in [Blocks -> Images]
      /\ cache'[leaf].gen = cache[leaf].gen /\ cache'[leaf].written = cache[leaf].written
      /\ cache'[leaf].kid = cache[leaf].kid /\ cache'[leaf].items = cache[leaf].items
      /\ cache'[leaf].used = cache[leaf].used
      /\ \A b \in Blocks \ {leaf} : cache'[b] = cache[b]
  <2> DEFINE e == [cache[leaf] EXCEPT !.val = goal.val]
  <2>1. cache' = [cache EXCEPT ![leaf] = e]
    BY Zenon DEF PutValue, Where
  <2> HIDE DEF leaf
  <2>2. /\ e \in Images /\ e.gen = cache[leaf].gen /\ e.written = cache[leaf].written
        /\ e.kid = cache[leaf].kid /\ e.items = cache[leaf].items /\ e.used = cache[leaf].used
    <3>1. cache[leaf] \in Images /\ used \in Int /\ goal.val \in Values \cup {NoValue}
      BY <1>2, Zenon DEF TypeOK, Ops
    <3> QED
      BY <3>1, SetUsedOrVal, Zenon
  <2> HIDE DEF e
  <2> QED
    BY <1>2, <2>1, <2>2, Zenon DEF TypeOK
<1> HIDE DEF leaf
<1>5. InPlace(leaf)
  BY <1>2, <1>3, <1>4, Zenon DEF InPlace
<1>6. LeafStep(leaf, cache[leaf].used)
  BY <1>1, <1>2, <1>3, <1>4, <1>5, Zenon DEF LeafStep
<1>7. leaf # NoBlock
  BY <1>2, PlaceFacts, Zenon
<1> QED
  BY <1>1, <1>3, <1>6, <1>7, Zenon DEF leaf

\* Block n, allocated before, takes place x and the old block is freed.
AttachStep(x, n) ==
    /\ x \in Places /\ n = cont.blk /\ cont.op # "none" /\ Drained /\ Changing
    /\ TreeStep(x, n)
    /\ \A b \in Blocks : Listed(cache', node', b) <=> Listed(cache, node, b)
    /\ cont' = NoOp
    /\ UNCHANGED <<commit_root, dirty_roots, free_space_cache, pinned_extents,
                   extent_ins, pending_del, used, bg_dirty, pc, mirror, calls, crashes>>
    /\ \/ /\ At(cache, node, x) # NoBlock /\ goal' = goal
          /\ item' = ItemOp("del", At(cache, node, x))
       \/ At(cache, node, x) = NoBlock /\ goal' = NoOp /\ item' = item /\ pc = "run"
    /\ RootInv'

\* What an attaching step says of the block that arrives and of the block that goes.
LEMMA AttachedFacts ==
    ASSUME TypeOK, ControlInv, MemInv, SpaceInv, NEW x, NEW n, AttachStep(x, n)
    PROVE  LET old == At(cache, node, x) IN
           /\ x \in Places /\ n \in Blocks /\ n # NoBlock /\ old \in Blocks \cup {NoBlock}
           /\ \A p \in Places : At(cache, node, p) # n
           /\ \A p \in Places : p # x => At(cache, node, p) # old \/ old = NoBlock
           /\ n \notin free_space_cache /\ n \notin pinned_extents /\ n \notin Durable
           /\ item = NoOp /\ extent_ins = {} /\ pending_del = {} /\ item.op = "none"
           /\ \/ old # NoBlock /\ item'.op = "del" /\ item'.blk = old /\ item' \in Ops /\ goal' = goal
              \/ old = NoBlock /\ item' = NoOp /\ goal' = NoOp /\ pc = "run"
<1> DEFINE old == At(cache, node, x)
<1>1. /\ x \in Places /\ n = cont.blk /\ cont.op # "none" /\ Drained
      /\ \/ old # NoBlock /\ goal' = goal /\ item' = ItemOp("del", old)
         \/ old = NoBlock /\ goal' = NoOp /\ item' = item /\ pc = "run"
  BY Zenon DEF AttachStep
<1>2. n \in Blocks /\ n # NoBlock
  <2>1. n \in Blocks
    BY <1>1, Zenon DEF ControlInv
  <2> QED
    BY <2>1, PlaceFacts, Zenon
<1>3. old \in Blocks \cup {NoBlock}
  BY <1>1, Basics, Zenon
<1>4. \A p \in Places : At(cache, node, p) # n
  <2>1. \A p \in Places : Where(p) # NoBlock => Where(p) # cont.blk
    BY Zenon DEF SpaceInv
  <2> QED
    BY <2>1, <1>1, <1>2, Zenon DEF Where
<1>5. \A p \in Places : p # x => At(cache, node, p) # old \/ old = NoBlock
  BY <1>1, Zenon DEF MemInv, Where
<1>6. n \notin free_space_cache /\ n \notin pinned_extents /\ n \notin Durable
  <2>1. cont.blk \notin pinned_extents \cup pending_del \cup Durable
    BY <1>1, Zenon DEF SpaceInv
  <2>2. \A b \in free_space_cache : b # cont.blk
    BY Zenon DEF SpaceInv
  <2> QED
    BY <1>1, <2>1, <2>2, Zenon
<1>7. item = NoOp /\ extent_ins = {} /\ pending_del = {} /\ item.op = "none"
  BY <1>1, OpFacts, Zenon DEF Drained
<1>8. \/ old # NoBlock /\ item'.op = "del" /\ item'.blk = old /\ item' \in Ops /\ goal' = goal
      \/ old = NoBlock /\ item' = NoOp /\ goal' = NoOp /\ pc = "run"
  <2>1. CASE old # NoBlock
    <3>1. old \in Blocks /\ item' = ItemOp("del", old) /\ goal' = goal
      BY <2>1, <1>1, <1>3, Zenon
    <3>2. ItemOp("del", old) \in Ops /\ ItemOp("del", old).op = "del" /\ ItemOp("del", old).blk = old
      BY <3>1, OpFacts, Zenon
    <3> QED
      BY <2>1, <3>1, <3>2, Zenon
  <2>2. CASE old = NoBlock
    BY <2>2, <1>1, <1>7, Zenon
  <2> QED
    BY <2>1, <2>2, Zenon
<1> QED
  BY <1>1, <1>2, <1>3, <1>4, <1>5, <1>6, <1>7, <1>8, Zenon

\* A block waiting to be linked is used by no tree.
LEMMA ContFacts ==
    ASSUME TypeOK, ControlInv, MemInv, SpaceInv, cont.op # "none"
    PROVE  /\ cont.blk \in Blocks /\ cont.blk \notin Durable /\ Changing /\ cont # NoOp
           /\ \A p \in Places : At(cache, node, p) # cont.blk
<1>1. cont.blk \in Blocks /\ cont # NoOp
  BY OpFacts, Zenon DEF ControlInv
<1>2. cont.blk \notin Durable
  BY Zenon DEF SpaceInv
<1>3. \A p \in Places : Where(p) # NoBlock => Where(p) # cont.blk
  BY Zenon DEF SpaceInv
<1>4. \A p \in Places : At(cache, node, p) # cont.blk
  BY <1>1, <1>3, PlaceFacts, Zenon DEF Where
<1> QED
  BY <1>1, <1>2, <1>4, Basics, Zenon

\* Linking a cowed block whose allocation has been accounted for is an attaching step.
LEMMA AttachCowStep ==
    ASSUME TypeOK, ControlInv, SuperInv, DiskInv, MemInv, SpaceInv, FreshInv,
           DirtyInv, RootInv, AttachCow
    PROVE  LET x == cont.pos
               n == cont.blk
               old == At(cache, node, x)
           IN /\ AttachStep(x, n) /\ x # "extent_root" /\ old \in Blocks
              /\ x \in Roots => RootStep(x, n) /\ (x = "fs_root" => pc = "run")
              /\ x \notin Roots => LinkStep(x, n, copy_of(old), {})
<1> DEFINE x == cont.pos
           n == cont.blk
           old == At(cache, node, x)
<1>1. /\ cont.op = "attach" /\ Drained /\ goal # NoOp /\ Changing /\ goal.op # "none"
      /\ x \in {goal.via, RootOf(goal.via)} /\ goal.via \in Places /\ x \in Places
  <2>1. cont.op = "attach" /\ Drained
    BY Zenon DEF AttachCow
  <2>2. goal # NoOp /\ x \in {goal.via, RootOf(goal.via)} /\ goal.op # "none"
    BY <2>1, Zenon DEF ControlInv
  <2>3. goal.via \in Places /\ Changing
    BY <2>1, OpType, ContFacts, Zenon
  <2> QED
    BY <2>1, <2>2, <2>3, OpType, Zenon
<1>2. /\ n \in Blocks /\ n \notin Durable /\ old \in Blocks /\ old # NoBlock
      /\ \A p \in Places : At(cache, node, p) # n
      /\ goal.via \notin ExtLeaves /\ x # "extent_root"
  <2>1. goal.via \notin ExtLeaves /\ x # "extent_root"
    <3>1. goal.via \in FsLeaves \cup {"fs_root", "root_tree"}
      <4>1. goal.op \in {"put", "new", "del", "root"}
        BY <1>1, Zenon DEF ControlInv
      <4>2. goal.op \in {"put", "del"} => goal.via \in FsLeaves
        BY Zenon DEF ControlInv
      <4>3. goal.op = "new" => goal.via \in FsLeaves \cup {"fs_root"}
        BY Zenon DEF ControlInv
      <4>4. goal.op = "root" => goal.via = "root_tree"
        BY OpFacts, Zenon DEF ControlInv
      <4> QED
        BY <4>1, <4>2, <4>3, <4>4, Zenon
    <3>2. FsLeaves \cap ExtLeaves = {} /\ "fs_root" \notin ExtLeaves /\ "root_tree" \notin ExtLeaves
      BY PlaceFacts, CowAssumption, Zenon
    <3>3. \A p \in FsLeaves : RootOf(p) = "fs_root" /\ p # "extent_root"
      BY PlaceFacts, Zenon
    <3> QED
      BY <3>1, <3>2, <3>3, <1>1, PlaceFacts, Zenon
  <2>2. At(cache, node, goal.via) # NoBlock
    BY <1>1, Zenon DEF MemInv, Where
  <2>3. At(cache, node, RootOf(goal.via)) \in Blocks
    <3>1. RootOf(goal.via) \in Roots
      BY <1>1, PlaceFacts, Zenon
    <3>2. \A r \in Roots : At(cache, node, r) = node[r] /\ node[r] \in Blocks
      BY Basics, Zenon
    <3> QED
      BY <3>1, <3>2, Zenon
  <2>4. old \in Blocks /\ old # NoBlock
    BY <1>1, <2>2, <2>3, Basics, PlaceFacts, Zenon
  <2> QED
    BY <1>1, <2>1, <2>4, ContFacts, Zenon
<1>3. /\ item' = ItemOp("del", old) /\ cont' = NoOp
      /\ UNCHANGED <<disk, super, commit_root, dirty_roots, free_space_cache,
                   pinned_extents, extent_ins, pending_del, generation, used,
                   bg_dirty, goal, pc, mirror, calls, crashes>>
  BY Zenon DEF AttachCow, Where
<1>4. CASE x \in Roots
  <2>1. RootStep(x, n)
    <3>1. /\ cache' = [cache EXCEPT ![n] = copy_of(old)] /\ node' = [node EXCEPT ![x] = n]
          /\ dirty' = (dirty \ {old}) \cup {n}
      BY <1>4, Zenon DEF AttachCow, Where
    <3>2. old = node[x]
      BY <1>4, Basics, Zenon
    <3> HIDE DEF x, n, old
    <3> QED
      BY <1>1, <1>2, <1>3, <1>4, <3>1, <3>2, Zenon DEF RootStep
  <2> HIDE DEF x, n, old
  <2>2. /\ TreeStep(x, n)
        /\ \A p \in Places : At(cache', node', p) = IF p = x THEN n ELSE At(cache, node, p)
        /\ \A b \in Blocks : Listed(cache', node', b) <=> Listed(cache, node, b)
        /\ cache'[node'["root_tree"]].kid = cache[node["root_tree"]].kid
    BY <2>1, RootStepIsTreeStep, Zenon
  <2>3. /\ \A r \in Roots : r # x => node'[r] = node[r]
        /\ node'[x] = n /\ x # "extent_root" /\ ~Synced
    <3>1. node' = [node EXCEPT ![x] = n] /\ node \in [Roots -> Blocks]
      BY <2>1, Basics, Zenon DEF RootStep
    <3>2. (\A r \in Roots : r # x => node'[r] = node[r]) /\ node'[x] = n
      BY <3>1, <1>4, Zenon
    <3>3. ~Synced
      <4>1. pc \notin {"idle", "finish", "write_super"}
        BY <1>1, Zenon DEF Changing
      <4> QED
        BY <4>1, Zenon DEF Synced
    <3> QED
      BY <1>2, <3>2, <3>3, Zenon
  <2>4. RootInv' /\ (x = "fs_root" => pc = "run")
    <3>1. DiskNode' = DiskNode /\ Synced' = Synced
      BY <1>3, DiskFrame, Zenon DEF Synced
    <3>2. CASE x = "root_tree"
      <4>1. RootInv'
        BY <3>1, <3>2, <1>3, <2>2, <2>3, PlaceFacts, SMTT(30) DEF RootInv
      <4> QED
        BY <4>1, <3>2, Zenon
    <3>3. CASE x = "fs_root"
      <4>1. pc = "run"
        BY <3>3, <1>1, OpFacts, PlaceFacts DEF ControlInv, Changing, NothingPending
      <4>2. DiskNode["fs_root"] \in Durable
        BY DurableRoots, PlaceFacts, Zenon
      <4>3. commit_root' = DiskNode["fs_root"] /\ n # DiskNode["fs_root"]
        BY <4>1, <4>2, <1>2, <1>3, Zenon DEF RootInv
      <4>4. RootInv'
        <5>1. pc' = "run" /\ commit_root' # node'["fs_root"]
          BY <3>3, <4>1, <4>3, <1>3, <2>3, Zenon
        <5>2. node'["extent_root"] = node["extent_root"]
          BY <2>3, PlaceFacts, Zenon
        <5>3. \/ cache'[node'["root_tree"]].kid["extent_root"].blk = node'["extent_root"]
              \/ "extent_root" \in dirty_roots'
              \/ pc' \in {"write_bgs", "root_item"}
          <6>1. \/ cache[node["root_tree"]].kid["extent_root"].blk = node["extent_root"]
                \/ "extent_root" \in dirty_roots
                \/ pc \in {"write_bgs", "root_item"}
            BY <1>2, Zenon DEF RootInv
          <6>2. dirty_roots' = dirty_roots /\ pc' = pc
            BY <1>3, Zenon
          <6> QED
            BY <5>2, <6>1, <6>2, <2>2, Zenon
        <5>4. commit_root' = DiskNode'["fs_root"] /\ ~Synced'
          BY <3>1, <4>3, <2>3, Zenon
        <5> QED
          BY <5>1, <5>3, <5>4, Zenon DEF RootInv
      <4> QED
        BY <4>1, <4>4, Zenon
    <3> QED
      BY <3>2, <3>3, <1>4, <2>3, Zenon DEF Roots
  <2> QED
    <3>1. AttachStep(x, n)
      BY <1>1, <1>2, <1>3, <2>2, <2>4, Zenon DEF n, old, AttachStep
    <3> QED
      BY <1>2, <1>4, <2>1, <2>4, <3>1, Zenon DEF x, n, old
<1>5. CASE x \notin Roots
  <2>1. /\ cache' = [cache EXCEPT ![n] = copy_of(old), ![node[RootOf(x)]].kid[x] = ptr_to(n)]
        /\ dirty' = (dirty \ {old}) \cup {n, node[RootOf(x)]} /\ node' = node
    BY <1>5, Zenon DEF AttachCow, Where
  <2>2. FreshIn(cache, generation, node[RootOf(x)])
    BY <1>1, <1>5, Zenon DEF FreshInv, Fresh
  <2> HIDE DEF x, n
  <2>3. LinkStep(x, n, copy_of(old), {})
    <3> HIDE DEF old
    <3>1. /\ copy_of(old) \in Images /\ copy_of(old).gen = generation
          /\ copy_of(old).written = FALSE /\ copy_of(old).items = cache[old].items
      BY <1>2, CopyOf, Zenon
    <3>2. cache' = CopyLink(cache, n, copy_of(old), node[RootOf(x)], x, ptr_to(n))
      BY <2>1, Zenon DEF CopyLink
    <3> QED
      BY <1>1, <1>2, <1>3, <1>5, <2>1, <2>2, <3>1, <3>2, Zenon DEF LinkStep, old
  <2> HIDE DEF old
  <2>4. /\ TreeStep(x, n)
        /\ \A b \in Blocks : Listed(cache', node', b) <=> Listed(cache, node, b)
        /\ cache'[node["root_tree"]].kid = cache[node["root_tree"]].kid
    BY <2>3, LinkStepIsTreeStep, Zenon
  <2>5. RootInv'
    BY <1>3, <2>1, <2>4, DiskFrame, Zenon DEF RootInv, Synced
  <2> QED
    <3>1. AttachStep(x, n)
      BY <1>1, <1>2, <1>3, <2>4, <2>5, Zenon DEF n, old, AttachStep
    <3> QED
      BY <1>2, <1>5, <2>3, <3>1, Zenon DEF x, n, old
<1> QED
  BY <1>4, <1>5, Zenon

\* Linking a new leaf whose allocation has been accounted for is an attaching step.
LEMMA LinkLeafStep ==
    ASSUME TypeOK, ControlInv, SuperInv, DiskInv, MemInv, SpaceInv, FreshInv,
           DirtyInv, RootInv, LinkLeaf
    PROVE  LET x == cont.pos
               n == cont.blk
               i == fresh_leaf(goal.val)
           IN /\ AttachStep(x, n) /\ x \in FsLeaves /\ i.items = {}
              /\ LinkStep(x, n, i, {Where(goal.via)})
<1> DEFINE x == cont.pos
           n == cont.blk
           v == Where(goal.via)
           i == fresh_leaf(goal.val)
<1>1. /\ cont.op = "link" /\ Drained /\ Changing /\ goal.op = "new" /\ x = goal.pos
      /\ x \in FsLeaves /\ RootOf(x) = "fs_root" /\ x \in Places /\ x \notin Roots
      /\ goal.via \in Places /\ pc = "run"
  <2>1. cont.op = "link" /\ Drained
    BY Zenon DEF LinkLeaf
  <2>2. goal.op = "new" /\ x = goal.pos /\ x \in FsLeaves
    BY <2>1, Zenon DEF ControlInv
  <2>3. Changing /\ goal.via \in Places /\ cont # NoOp
    BY <2>1, ContFacts, OpType, Zenon
  <2>4. pc = "run"
    <3>1. goal # RootGoal /\ goal # NoOp
      BY <2>2, OpFacts, Zenon
    <3> QED
      BY <3>1, <2>3, Zenon DEF ControlInv, NothingPending, Changing
  <2> QED
    BY <2>1, <2>2, <2>3, <2>4, PlaceFacts, Zenon
<1>2. /\ n \in Blocks /\ n \notin Durable /\ At(cache, node, x) = NoBlock
      /\ \A p \in Places : At(cache, node, p) # n
      /\ v \in Blocks
  <2>1. At(cache, node, x) = NoBlock /\ v # NoBlock
    BY <1>1, Zenon DEF MemInv, Where
  <2>2. v \in Blocks \cup {NoBlock}
    BY <1>1, Basics, Zenon DEF Where
  <2> QED
    BY <1>1, <2>1, <2>2, ContFacts, Zenon
<1>3. /\ item' = item /\ cont' = NoOp /\ goal' = NoOp /\ node' = node
      /\ UNCHANGED <<disk, super, commit_root, dirty_roots, free_space_cache,
                   pinned_extents, extent_ins, pending_del, generation, used,
                   bg_dirty, pc, mirror, calls, crashes>>
  BY Zenon DEF LinkLeaf
<1>4. /\ cache' = [cache EXCEPT ![n] = i, ![node["fs_root"]].kid[x] = ptr_to(n)]
      /\ dirty' = dirty \cup {n, node["fs_root"], v}
  BY Zenon DEF LinkLeaf
<1>5. FreshIn(cache, generation, node["fs_root"]) /\ FreshIn(cache, generation, v)
  BY <1>1, Zenon DEF FreshInv, Fresh
<1>6. i \in Images /\ i.gen = generation /\ i.written = FALSE /\ i.items = {}
  BY FreshLeafImage, Zenon DEF TypeOK, Ops
<1> HIDE DEF x, n, v, i
<1>7. LinkStep(x, n, i, {v})
  <2>1. cache' = CopyLink(cache, n, i, node[RootOf(x)], x, ptr_to(n))
    BY <1>1, <1>4, Zenon DEF CopyLink
  <2>2. dirty' = (dirty \ {At(cache, node, x)}) \cup {n, node[RootOf(x)]} \cup {v}
    BY <1>1, <1>2, <1>4, PlaceFacts DEF TypeOK
  <2> QED
    BY <1>1, <1>2, <1>3, <1>5, <1>6, <2>1, <2>2, Zenon DEF LinkStep
<1>8. /\ TreeStep(x, n)
      /\ \A b \in Blocks : Listed(cache', node', b) <=> Listed(cache, node, b)
      /\ cache'[node["root_tree"]].kid = cache[node["root_tree"]].kid
  BY <1>7, LinkStepIsTreeStep, Zenon
<1>9. RootInv'
  BY <1>3, <1>8, DiskFrame, Zenon DEF RootInv, Synced
<1>10. AttachStep(x, n)
  BY <1>1, <1>2, <1>3, <1>8, <1>9, Zenon DEF n, AttachStep
<1> QED
  BY <1>1, <1>6, <1>7, <1>10, Zenon DEF x, n, v, i

\* Leaf block leaf leaves place x of the file tree, whose root is m.
DelStep(x, m, leaf) ==
    /\ Drained /\ Changing /\ cont = NoOp /\ pc = "run" /\ x \in Places \ Roots
    /\ x # BgLeaf /\ leaf = At(cache, node, x) /\ leaf \in Blocks
    /\ \A p \in Places : p # x => At(cache, node, p) # leaf
    /\ TreeStep(x, NoBlock)
    /\ \A p \in Places : At(cache', node', p) = IF p = x THEN NoBlock ELSE At(cache, node, p)
    /\ \A b \in Blocks : Listed(cache', node', b) <=> Listed(cache, node, b)
    /\ cache'[node["root_tree"]].kid = cache[node["root_tree"]].kid
    /\ \A c \in Blocks : /\ cache'[c].gen = cache[c].gen /\ cache'[c].items = cache[c].items
                         /\ cache'[c].used = cache[c].used
                         /\ cache'[c].kid = IF c = m THEN [cache[c].kid EXCEPT ![x] = NoPtr]
                                                     ELSE cache[c].kid
    /\ m = node["fs_root"] /\ m \in Blocks
    /\ item' = ItemOp("del", leaf) /\ goal' = NoOp /\ goal.op = "del"
    /\ UNCHANGED <<disk, super, node, commit_root, dirty_roots, free_space_cache,
                   pinned_extents, extent_ins, pending_del, generation, used,
                   bg_dirty, cont, pc, mirror, calls, crashes>>

\* btrfs_del_items on the last item of a leaf takes the leaf out of its tree.
LEMMA DelLeafStep ==
    ASSUME TypeOK, ControlInv, SuperInv, DiskInv, MemInv, SpaceInv, FreshInv,
           DirtyInv, RootInv, DelLeaf
    PROVE  DelStep(goal.pos, node["fs_root"], At(cache, node, goal.pos))
<1> DEFINE x == goal.pos
           m == node["fs_root"]
           leaf == At(cache, node, x)
           f == [cache[m] EXCEPT !.kid[x] = NoPtr]
<1>1. /\ goal.op = "del" /\ Drained /\ Changing /\ cont = NoOp /\ goal.via = x
      /\ x \in FsLeaves /\ RootOf(x) = "fs_root" /\ x \in Places /\ x \notin Roots
      /\ x \notin ExtLeaves /\ x # BgLeaf /\ pc = "run"
  <2>1. goal.op = "del" /\ Drained /\ cont = NoOp
    BY Zenon DEF DelLeaf, Ready
  <2>2. x \in FsLeaves /\ goal.via = x
    BY <2>1, Zenon DEF ControlInv
  <2>3. goal # NoOp /\ Changing
    BY <2>1, OpFacts, Basics
  <2>4. pc = "run"
    BY <2>1, <2>3, OpFacts DEF ControlInv, NothingPending, Changing, TypeOK
  <2>5. /\ RootOf(x) = "fs_root" /\ x \in Places /\ x \notin Roots
        /\ x \notin ExtLeaves /\ x # BgLeaf
    BY <2>2, PlaceFacts, CowAssumption, Zenon
  <2> QED
    BY <2>1, <2>2, <2>3, <2>4, <2>5, Zenon
<1>2. /\ leaf \in Blocks /\ m \in Blocks /\ m # leaf /\ m = At(cache, node, "fs_root")
      /\ \A p \in Places : p # x => At(cache, node, p) # leaf
      /\ \A r \in Roots : r # "fs_root" => node[r] # m
      /\ cache \in [Blocks -> Images] /\ cache[m] \in Images
  BY <1>1, Basics, PlaceFacts DEF MemInv, Where
<1>3. FreshIn(cache, generation, m) /\ FreshIn(cache, generation, leaf)
  BY <1>1, Zenon DEF DelLeaf, Ready, NextCow, should_cow_block, FreshIn, Where
<1>4. /\ cache' = [cache EXCEPT ![m] = f]
      /\ dirty' = (dirty \ {leaf}) \cup {m}
      /\ item' = ItemOp("del", leaf) /\ goal' = NoOp
      /\ UNCHANGED <<disk, super, node, commit_root, dirty_roots, free_space_cache,
                   pinned_extents, extent_ins, pending_del, generation, used,
                   bg_dirty, cont, pc, mirror, calls, crashes>>
  BY Zenon DEF DelLeaf, Where
<1> HIDE DEF x, m, leaf
<1>5. /\ f \in Images /\ f.gen = cache[m].gen /\ f.written = cache[m].written
      /\ f.items = cache[m].items /\ f.used = cache[m].used
      /\ f.kid = [cache[m].kid EXCEPT ![x] = NoPtr]
  BY <1>1, <1>2, LinkImage DEF Ptrs
<1> HIDE DEF f
<1>6. /\ cache' \in [Blocks -> Images] /\ cache'[m] = f
      /\ \A c \in Blocks : c # m => cache'[c] = cache[c]
  BY <1>2, <1>4, <1>5, Zenon
<1>7. \A p \in Places : At(cache', node', p) = IF p = x THEN NoBlock ELSE At(cache, node, p)
  <2>1. \A r \in Roots : r # RootOf(x) => cache'[node[r]].kid = cache[node[r]].kid
    BY <1>1, <1>2, <1>6, Basics, Zenon
  <2>2. IsLink(cache, cache', node, x, NoPtr)
    BY <1>1, <1>2, <1>5, <1>6, <2>1, Basics, Zenon DEF IsLink, Ptrs, m
  <2> QED
    BY <1>4, <2>2, Linked DEF NoPtr
<1>8. \A c \in Blocks : cache'[c].items = cache[c].items
  BY <1>5, <1>6, Zenon
<1>9. \A b \in Blocks : Listed(cache', node', b) <=> Listed(cache, node, b)
  <2> TAKE b \in Blocks
  <2>1. /\ LeafOf[b] \in Places /\ LeafOf[b] # x
        /\ At(cache', node', LeafOf[b]) = At(cache, node, LeafOf[b])
        /\ At(cache, node, LeafOf[b]) \in Blocks \cup {NoBlock}
    BY <1>1, <1>7, PlaceFacts, Basics, Zenon
  <2> QED
    BY <2>1, <1>8, Zenon DEF Listed
<1>10. cache'[node["root_tree"]].kid = cache[node["root_tree"]].kid
  BY <1>2, <1>6, Basics, PlaceFacts, Zenon
<1>11. TreeStep(x, NoBlock)
  <2>1. /\ dirty' \subseteq Blocks /\ node' \in [Roots -> Blocks]
        /\ x \notin Roots \cup {BgLeaf} /\ cont' = NoOp
    BY <1>1, <1>2, <1>4, Zenon DEF TypeOK
  <2>2. \A c \in Blocks : cache'[c].gen = cache[c].gen /\ cache'[c].written = cache[c].written
    BY <1>5, <1>6, Zenon
  <2>3. FreshIn(cache', generation, m)
    BY <1>2, <1>3, <2>2, Zenon DEF FreshIn
  <2>4. ASSUME NEW p \in Places, p # x, At(cache, node, p) \notin dirty' \cup {NoBlock}
        PROVE  /\ At(cache, node, p) \notin dirty
               /\ cache'[At(cache, node, p)] = cache[At(cache, node, p)]
    BY <2>4, <1>2, <1>4, <1>6, Basics, Zenon
  <2>5. \A c \in dirty' : c \in dirty \/ FreshIn(cache', generation, c)
    BY <1>4, <2>3, Zenon
  <2> QED
    BY <1>1, <1>4, <1>6, <1>7, <2>1, <2>2, <2>4, <2>5, Zenon DEF TreeStep
<1>12. \A c \in Blocks : /\ cache'[c].gen = cache[c].gen /\ cache'[c].items = cache[c].items
                          /\ cache'[c].used = cache[c].used
                          /\ cache'[c].kid = IF c = m THEN [cache[c].kid EXCEPT ![x] = NoPtr]
                                                      ELSE cache[c].kid
  BY <1>5, <1>6, Zenon
<1>13. DelStep(x, m, leaf)
  BY <1>1, <1>2, <1>4, <1>7, <1>9, <1>10, <1>11, <1>12, Zenon DEF DelStep, m, leaf
<1> QED
  BY <1>13, Zenon DEF x, m, leaf

-----------------------------------------------------------------------------
(* They keep IInv *)

\* It keeps the invariant.
LEMMA PutValueInv ==
    ASSUME TypeOK, ControlInv, SuperInv, DiskInv, MemInv, SpaceInv, FreshInv,
           DirtyInv, RootInv, PutValue
    PROVE  IInv'
<1> DEFINE leaf == At(cache, node, goal.pos)
<1>1. LeafStep(leaf, cache[leaf].used) /\ goal.op = "put" /\ item = NoOp /\ cont = NoOp
      /\ goal' = NoOp /\ item' = item
  BY PutValueStep, Zenon
<1> HIDE DEF leaf
<1>2. /\ UNCHANGED <<disk, super, node, commit_root, dirty_roots, free_space_cache,
                   pinned_extents, extent_ins, pending_del, generation, used,
                   bg_dirty, item, cont, pc, mirror, calls, crashes>>
      /\ Changing /\ cache' \in [Blocks -> Images] /\ dirty' \subseteq dirty \cup {leaf}
      /\ leaf \in Blocks /\ goal' = NoOp
  BY <1>1, Zenon DEF LeafStep, InPlace
<1>3. /\ TreeStep("root_tree", node["root_tree"])
      /\ \A p \in Places : At(cache', node', p) = At(cache, node, p)
      /\ \A b \in Blocks : Listed(cache', node', b) <=> Listed(cache, node, b)
  BY <1>1, InPlaceIsTreeStep, InPlaceLists, Zenon DEF LeafStep
<1>4. TypeOK'
  BY <1>2 DEF TypeOK, NoOp, Ops, Places, Roots
<1>5. ControlInv'
  BY <1>1, <1>2, Zenon DEF ControlInv, NothingPending, NoOp, Changing, RootGoal
<1>6. RootInv'
  <2>1. cache'[node["root_tree"]] = cache[node["root_tree"]]
    BY <1>1, Basics, PlaceFacts, Zenon DEF LeafStep
  <2> QED
    BY <1>2, <2>1, DiskFrame, Zenon DEF RootInv, Synced
<1>7. /\ UNCHANGED <<free_space_cache, pinned_extents, extent_ins, pending_del, cont, item, pc>>
      /\ Changing /\ cont = NoOp /\ goal'.op = "none"
  BY <1>1, <1>2 DEF NoOp
<1> QED
  BY <1>3, <1>4, <1>5, <1>6, <1>7, QuietStep, Zenon

\* The space sets when block n of place x replaces block old.
LEMMA AttachedSpace ==
    ASSUME NEW At1, NEW At2, NEW free, NEW pinned, NEW x, NEW n, NEW old, NEW op, NEW blk,
           n \notin free \cup pinned, n # old,
           \A p \in Places : At1[p] \notin free \cup pinned,
           \A p \in Places : p # x => At1[p] # old \/ old = NoBlock,
           \A p \in Places : At2[p] = IF p = x THEN n ELSE At1[p],
           (op = "del" /\ blk = old /\ old # NoBlock) \/ op = "none"
    PROVE  \A p \in Places : At2[p] \notin free \cup pinned /\ (op = "del" => At2[p] # blk)
BY Zenon

\* Once a block is attached the type invariant and the control invariant hold again.
LEMMA AttachedControl ==
    ASSUME TypeOK, ControlInv, MemInv, SpaceInv, NEW x, NEW n, AttachStep(x, n)
    PROVE  TypeOK' /\ ControlInv'
<1>1. /\ item' \in Ops /\ cont' = NoOp /\ goal' \in {goal, NoOp}
      /\ item'.op \in {"none", "del"} /\ (item'.op = "none" => item' = NoOp)
      /\ item'.op = "del" => item'.blk \in Blocks
      /\ goal' # goal => pc = "run"
  <2> DEFINE old == At(cache, node, x)
  <2>1. /\ old \in Blocks \cup {NoBlock}
        /\ \/ old # NoBlock /\ item'.op = "del" /\ item'.blk = old /\ item' \in Ops /\ goal' = goal
           \/ old = NoBlock /\ item' = NoOp /\ goal' = NoOp /\ pc = "run"
    BY AttachedFacts, Zenon
  <2>2. cont' = NoOp
    BY Zenon DEF AttachStep
  <2> HIDE DEF old
  <2>3. CASE item'.op = "del" /\ old \in Blocks /\ item'.blk = old /\ item' \in Ops /\ goal' = goal
    BY <2>2, <2>3, Zenon
  <2>4. CASE item' = NoOp /\ goal' = NoOp /\ pc = "run"
    <3>1. NoOp \in Ops /\ NoOp.op = "none"
      BY OpFacts, Zenon
    <3> QED
      BY <2>2, <2>4, <3>1, Zenon
  <2> QED
    BY <2>1, <2>3, <2>4, Zenon
<1>2. /\ UNCHANGED <<commit_root, dirty_roots, free_space_cache, pinned_extents,
                     extent_ins, pending_del, used, bg_dirty, pc, mirror, calls, crashes>>
      /\ TreeStep(x, n) /\ Changing
  BY Zenon DEF AttachStep
<1>3. TypeOK'
  <2>1. /\ cache' \in [Blocks -> Images] /\ node' \in [Roots -> Blocks] /\ dirty' \subseteq Blocks
        /\ disk' = disk /\ super' = super /\ generation' = generation
    BY <1>2, Zenon DEF TreeStep
  <2>2. item' \in Ops /\ cont' \in Ops /\ goal' \in Ops
    <3>1. NoOp \in Ops /\ goal \in Ops
      BY OpFacts, Zenon DEF TypeOK
    <3> QED
      BY <1>1, <3>1, Zenon
  <2> QED
    BY <1>2, <2>1, <2>2, Zenon DEF TypeOK
<1>4. pc \in {"run", "update_root", "commit_roots"}
  <2>1. cont # NoOp
    BY OpFacts, Zenon DEF AttachStep
  <2> QED
    BY <2>1, <1>2, Zenon DEF ControlInv, NothingPending, Changing
<1>5. goal'.op = "none" \/ goal' = goal
  BY <1>1, OpFacts, Zenon
<1>6. ControlInv'
  BY <1>1, <1>2, <1>4, <1>5, OpFacts DEF ControlInv
<1> QED
  BY <1>3, <1>6, Zenon

\* Attaching a block keeps the invariant.
LEMMA Attached ==
    ASSUME TypeOK, ControlInv, SuperInv, DiskInv, MemInv, SpaceInv, FreshInv,
           DirtyInv, RootInv, NEW x, NEW n, AttachStep(x, n)
    PROVE  IInv'
<1> DEFINE old == At(cache, node, x)
<1>1. /\ x \in Places /\ n \in Blocks /\ n # NoBlock /\ old \in Blocks \cup {NoBlock}
      /\ \A p \in Places : At(cache, node, p) # n
      /\ \A p \in Places : p # x => At(cache, node, p) # old \/ old = NoBlock
      /\ n \notin free_space_cache /\ n \notin pinned_extents /\ n \notin Durable
      /\ item = NoOp /\ extent_ins = {} /\ pending_del = {} /\ item.op = "none"
      /\ \/ old # NoBlock /\ item'.op = "del" /\ item'.blk = old /\ item' \in Ops /\ goal' = goal
         \/ old = NoBlock /\ item' = NoOp /\ goal' = NoOp /\ pc = "run"
  BY AttachedFacts, Zenon
<1>2. /\ n = cont.blk /\ cont.op # "none" /\ Changing /\ TreeStep(x, n) /\ RootInv'
      /\ cont' = NoOp /\ cont'.op = "none" /\ cont'.blk = NoBlock
      /\ goal' \in {goal, NoOp} /\ pc' = pc
      /\ \A b \in Blocks : Listed(cache', node', b) <=> Listed(cache, node, b)
  BY <1>1, OpFacts, Zenon DEF AttachStep
<1>3. \A p \in Places : At(cache', node', p) = IF p = x THEN n ELSE At(cache, node, p)
  BY <1>2, Zenon DEF TreeStep
<1>4. \A p \in Places : At(cache, node, p) # NoBlock => Listed(cache, node, At(cache, node, p))
  BY <1>1, Zenon DEF MemInv, Covered, Where
<1>5. Listed(cache, node, n)
  BY <1>1, <1>2, Zenon DEF MemInv, Covered
<1>6. TypeOK' /\ ControlInv'
  BY AttachedControl, Zenon
<1>8. (\A p \in Places : Where(p) # NoBlock => Covered(Where(p)))'
  <2> SUFFICES ASSUME NEW p \in Places, At(cache', node', p) # NoBlock
               PROVE  Listed(cache', node', At(cache', node', p))
    BY Zenon DEF Where, Covered
  <2>1. CASE p = x
    BY <2>1, <1>1, <1>2, <1>3, <1>5, Zenon
  <2>2. CASE p # x
    BY <2>2, <1>2, <1>3, <1>4, Basics, Zenon
  <2> QED
    BY <2>1, <2>2, Zenon
<1>9. (cont.op # "none" => Covered(cont.blk))'
  BY <1>2, Zenon
<1>10. SpaceInv'
  <2>1. Durable' = Durable
    BY <1>2, DiskFrame, Zenon DEF TreeStep
  <2>2. /\ free_space_cache' = free_space_cache /\ pinned_extents' = pinned_extents
        /\ pending_del' = {}
    BY <1>1, Zenon DEF AttachStep
  <2>3. \A c \in free_space_cache' : /\ c \notin Durable' \cup pending_del'
                                     /\ c # cont'.blk
                                     /\ item'.op = "del" => c # item'.blk
    <3> SUFFICES ASSUME NEW c \in free_space_cache
                 PROVE  c \notin Durable /\ c # NoBlock /\ (item'.op = "del" => c # item'.blk)
      BY <1>2, <2>1, <2>2, Zenon
    <3>1. c \notin Durable
      BY Zenon DEF SpaceInv
    <3>2. c # NoBlock
      BY PlaceFacts, Zenon DEF TypeOK
    <3>3. item'.op = "del" => c # item'.blk
      <4>1. \A p \in Places : Where(p) \notin free_space_cache
        BY Zenon DEF SpaceInv
      <4> QED
        BY <4>1, <1>1, OpFacts DEF Where
    <3> QED
      BY <3>1, <3>2, <3>3, Zenon
  <2>4. \A p \in Places :
          /\ At(cache', node', p) \notin free_space_cache' \cup pinned_extents' \cup pending_del'
          /\ item'.op = "del" => At(cache', node', p) # item'.blk
    <3> DEFINE A1 == [p \in Places |-> At(cache, node, p)]
               A2 == [p \in Places |-> At(cache', node', p)]
    <3>1. \A p \in Places : A1[p] = At(cache, node, p) /\ A2[p] = At(cache', node', p)
      BY Zenon
    <3>2. \A p \in Places : A1[p] \notin free_space_cache \cup pinned_extents
      BY <3>1, Zenon DEF SpaceInv, Where
    <3>3. \A p \in Places : A2[p] = IF p = x THEN n ELSE A1[p]
      BY <1>3, <3>1, Zenon
    <3>4. \A p \in Places : p # x => A1[p] # old \/ old = NoBlock
      BY <1>1, <3>1, Zenon
    <3>5. n # old /\ ((item'.op = "del" /\ item'.blk = old /\ old # NoBlock) \/ item'.op = "none")
      BY <1>1, OpFacts, Zenon
    <3>6. n \notin free_space_cache \cup pinned_extents
      BY <1>1, Zenon
    <3> HIDE DEF A1, A2
    <3>7. \A p \in Places : /\ A2[p] \notin free_space_cache \cup pinned_extents
                            /\ item'.op = "del" => A2[p] # item'.blk
      BY <3>2, <3>3, <3>4, <3>5, <3>6, AttachedSpace, Zenon
    <3>8. free_space_cache' \cup pinned_extents' \cup pending_del' = free_space_cache \cup pinned_extents
      BY <2>2, Zenon
    <3>9. \A p \in Places :
            /\ At(cache', node', p) \notin free_space_cache \cup pinned_extents
            /\ item'.op = "del" => At(cache', node', p) # item'.blk
      BY <3>1, <3>7, Zenon
    <3> QED
      BY <3>8, <3>9, Zenon
  <2>5. item'.op = "del" => item'.blk \notin pending_del' \cup {cont'.blk}
    <3>1. item'.op = "del" => item'.blk # NoBlock
      <4>1. NoOp.op = "none"
        BY OpFacts, Zenon
      <4> HIDE DEF old
      <4> QED
        BY <4>1, <1>1, Zenon
    <3>2. pending_del' = {} /\ cont'.blk = NoBlock
      BY <1>2, <2>2, Zenon
    <3> QED
      BY <3>1, <3>2, Zenon
  <2>6. \A p \in Places : At(cache', node', p) # NoBlock => At(cache', node', p) # cont'.blk
    BY <1>2, Zenon
  <2> QED
    BY <1>2, <2>3, <2>4, <2>5, <2>6, Zenon DEF SpaceInv, Where
<1> QED
  BY <1>1, <1>2, <1>6, <1>8, <1>9, <1>10, TreeStepInv, Zenon

\* Linking a cowed block keeps the invariant.
LEMMA AttachCowInv ==
    ASSUME TypeOK, ControlInv, SuperInv, DiskInv, MemInv, SpaceInv, FreshInv,
           DirtyInv, RootInv, AttachCow
    PROVE  IInv'
<1>1. AttachStep(cont.pos, cont.blk)
  BY AttachCowStep, Zenon
<1> QED
  BY <1>1, Attached, Zenon

\* Linking a new leaf keeps the invariant.
LEMMA LinkLeafInv ==
    ASSUME TypeOK, ControlInv, SuperInv, DiskInv, MemInv, SpaceInv, FreshInv,
           DirtyInv, RootInv, LinkLeaf
    PROVE  IInv'
<1>1. AttachStep(cont.pos, cont.blk)
  BY LinkLeafStep, Zenon
<1> QED
  BY <1>1, Attached, Zenon

\* btrfs_del_items on the last item of a leaf preserves the invariant.
LEMMA DelLeafInv ==
    ASSUME TypeOK, ControlInv, SuperInv, DiskInv, MemInv, SpaceInv, FreshInv,
           DirtyInv, RootInv, DelLeaf
    PROVE  IInv'
<1> DEFINE x == goal.pos
           m == node["fs_root"]
           leaf == At(cache, node, x)
<1>1. DelStep(x, m, leaf)
  BY DelLeafStep, Zenon
<1> HIDE DEF x, m, leaf
<1>2. /\ leaf \in Blocks /\ \A p \in Places : p # x => At(cache, node, p) # leaf
      /\ Drained /\ Changing /\ cont = NoOp /\ goal.op = "del" /\ x \in Places \ Roots
      /\ leaf = At(cache, node, x) /\ pc = "run"
  BY <1>1, Zenon DEF DelStep
<1>3. /\ item' = ItemOp("del", leaf) /\ goal' = NoOp
      /\ UNCHANGED <<disk, super, node, commit_root, dirty_roots, free_space_cache,
                   pinned_extents, extent_ins, pending_del, generation, used,
                   bg_dirty, cont, pc, mirror, calls, crashes>>
  BY <1>1, Zenon DEF DelStep
<1>4. \A p \in Places : At(cache', node', p) = IF p = x THEN NoBlock ELSE At(cache, node, p)
  BY <1>1, Zenon DEF DelStep
<1>5. \A b \in Blocks : Listed(cache', node', b) <=> Listed(cache, node, b)
  BY <1>1, Zenon DEF DelStep
<1>6. cache'[node["root_tree"]].kid = cache[node["root_tree"]].kid
  BY <1>1, Zenon DEF DelStep
<1>7. TreeStep(x, NoBlock)
  BY <1>1, Zenon DEF DelStep
<1>8. /\ item = NoOp /\ extent_ins = {} /\ pending_del = {} /\ cont' = NoOp
      /\ item'.op = "del" /\ item'.blk = leaf /\ item' \in Ops
      /\ cont.blk = NoBlock /\ cont.op = "none"
  BY <1>2, <1>3, OpFacts, SMTT(30) DEF Drained
<1>9. TypeOK'
  BY <1>3, <1>7, <1>8, OpFacts, SMTT(30) DEF TypeOK, TreeStep
<1>10. ControlInv'
  BY <1>2, <1>3, <1>8, OpFacts, SMTT(30) DEF ControlInv
<1>11. (\A p \in Places : Where(p) # NoBlock => Covered(Where(p)))'
  <2> SUFFICES ASSUME NEW p \in Places, At(cache', node', p) # NoBlock
               PROVE  Listed(cache', node', At(cache', node', p))
    BY Zenon DEF Where, Covered
  <2>1. p # x /\ At(cache', node', p) = At(cache, node, p) /\ At(cache, node, p) \in Blocks
    BY <1>4, Basics, Zenon
  <2>2. Covered(At(cache, node, p))
    BY <2>1, PlaceFacts, Zenon DEF MemInv, Where
  <2>3. Listed(cache, node, At(cache, node, p))
    BY <2>2, <1>8, OpFacts, Zenon DEF Covered
  <2> QED
    BY <2>1, <2>3, <1>5, Zenon
<1>12. SpaceInv'
  <2> USE DEF SpaceInv, Where
  <2>1. Durable' = Durable
    BY <1>3, DiskFrame, Zenon
  <2>2. \A p \in Places : /\ At(cache', node', p) \notin free_space_cache' \cup pinned_extents' \cup pending_del'
                          /\ At(cache', node', p) # leaf
    BY <1>2, <1>3, <1>4, <1>8, PlaceFacts, Zenon DEF TypeOK
  <2>3. leaf \notin free_space_cache
    BY <1>2, PlaceFacts, Zenon
  <2> QED
    BY <1>3, <1>8, <1>2, <2>1, <2>2, <2>3, PlaceFacts, Zenon
<1>13. RootInv'
  BY <1>3, <1>6, DiskFrame, Zenon DEF RootInv, Synced
<1> QED
  BY <1>2, <1>3, <1>7, <1>8, <1>9, <1>10, <1>11, <1>12, <1>13, TreeStepInv, SMTT(30)

-----------------------------------------------------------------------------
(* They keep FsckInv *)

\* A block that takes its place is no longer held by the operation but by the
\* tree, and the block it replaces by the item to delete.
LEMMA AttachedItems ==
    ASSUME IInv, ItemInv, NEW x, NEW n, AttachStep(x, n)
    PROVE  ItemInv' /\ item.op # "bg" /\ item'.op # "bg"
<1> DEFINE old == At(cache, node, x)
<1>1. TypeOK /\ ControlInv /\ MemInv /\ SpaceInv
  BY Parts, Zenon
<1>2. /\ x \in Places /\ n \in Blocks /\ n # NoBlock /\ old \in Blocks \cup {NoBlock}
      /\ item = NoOp /\ extent_ins = {} /\ pending_del = {} /\ item.op = "none"
      /\ \/ old # NoBlock /\ item'.op = "del" /\ item'.blk = old
         \/ old = NoBlock /\ item' = NoOp
  BY <1>1, AttachedFacts, Zenon
<1>3. /\ n = cont.blk /\ cont.op # "none" /\ cont' = NoOp
      /\ UNCHANGED <<free_space_cache, pinned_extents, extent_ins, pending_del, pc>>
      /\ \A b \in Blocks : Listed(cache', node', b) <=> Listed(cache, node, b)
  BY Zenon DEF AttachStep
<1>4. \A p \in Places : At(cache', node', p) = IF p = x THEN n ELSE At(cache, node, p)
  BY Zenon DEF AttachStep, TreeStep
<1>5. cont'.op = "none" /\ (item'.op = "none" \/ (item'.op = "del" /\ item'.blk = old /\ old # NoBlock))
  BY <1>2, <1>3, OpFacts, Zenon
<1> HIDE DEF old
<1>6. \A b \in Blocks : /\ Covered(b) <=> Listed(cache, node, b)
                        /\ Covered(b)' <=> Listed(cache, node, b)
  BY <1>2, <1>3, <1>5, Zenon DEF Covered
<1>7. \A b \in Blocks : Owned(b) => Owned(b)'
  <2> TAKE b \in Blocks
  <2> HAVE Owned(b)
  <2>1. (\E p \in Places : At(cache, node, p) = b) \/ b = n
    BY <1>2, <1>3, Zenon DEF Owned, Where
  <2>2. CASE b = n
    BY <2>2, <1>2, <1>4, Zenon DEF Owned, Where
  <2>3. ASSUME NEW p \in Places, At(cache, node, p) = b
        PROVE  Owned(b)'
    <3>1. CASE p # x
      BY <3>1, <2>3, <1>4, Zenon DEF Owned, Where
    <3>2. CASE p = x
      <4>1. b = old /\ b # NoBlock
        BY <3>2, <2>3, PlaceFacts, Zenon DEF old
      <4> QED
        BY <4>1, <1>2, Zenon DEF Owned
    <3> QED
      BY <3>1, <3>2, Zenon
  <2> QED
    BY <2>1, <2>2, <2>3, Zenon
<1>8. old # NoBlock => Listed(cache, node, old)
  BY <1>1, <1>2, <1>6, Zenon DEF MemInv, Where, old
<1>9. (item.op = "del" => Listed(cache, node, item.blk))'
  BY <1>2, <1>3, <1>5, <1>8, Zenon
<1>10. (\A b \in Blocks : Covered(b) => Owned(b))'
  BY <1>6, <1>7, Zenon DEF ItemInv
<1>11. (\A b \in Blocks : b \in free_space_cache \/ b \in pinned_extents \/ Covered(b))'
  BY <1>3, <1>6, Zenon DEF ItemInv
<1>12. (pc = "idle" => pinned_extents = {})'
  BY <1>3, Zenon DEF ItemInv
<1> QED
  BY <1>2, <1>3, <1>5, <1>9, <1>10, <1>11, <1>12, Zenon DEF ItemInv

\* Once a block is attached and the trees are well formed the books are in order.
LEMMA AttachedFsck ==
    ASSUME FsckInv, IInv', NEW x, NEW n, AttachStep(x, n), x # "extent_root",
           TreeOK(cache', node'), RootItemInv',
           cache'[At(cache', node', BgLeaf)].used = cache[At(cache, node, BgLeaf)].used
    PROVE  FsckInv'
<1>1. IInv /\ ItemInv /\ CountInv /\ DiskOK
  BY Zenon DEF FsckInv
<1>2. ItemInv' /\ item.op # "bg" /\ item'.op # "bg"
  BY <1>1, AttachedItems, Zenon
<1>3. /\ TreeStep(x, n) /\ UNCHANGED <<used, bg_dirty, pc, dirty_roots>>
      /\ \A b \in Blocks : Listed(cache', node', b) <=> Listed(cache, node, b)
  BY Zenon DEF AttachStep
<1>4. Fresh(node["extent_root"])' <=> Fresh(node["extent_root"])
  BY <1>1, <1>3, ExtentRootKept, Zenon
<1>5. CountInv'
  BY <1>1, <1>2, <1>3, <1>4, CountKept, Zenon
<1>6. UNCHANGED <<disk, super>>
  BY <1>3, Zenon DEF TreeStep
<1>7. DiskOK'
  BY <1>1, <1>6, DiskKept, Zenon
<1> QED
  BY <1>2, <1>5, <1>7, Zenon DEF FsckInv

\* The second half of btrfs_cow_block keeps the books.
LEMMA AttachCowFsck ==
    ASSUME FsckInv, IInv', AttachCow
    PROVE  FsckInv'
<1>1. /\ IInv /\ TreeOK(cache, node) /\ RootItemInv /\ TypeOK /\ MemInv
  BY Parts, Zenon DEF FsckInv
<1>2. IInv'
  BY Zenon
<1> DEFINE x == cont.pos
           n == cont.blk
           old == At(cache, node, x)
<1>3. /\ AttachStep(x, n) /\ x # "extent_root" /\ old \in Blocks
      /\ x \in Roots => RootStep(x, n) /\ (x = "fs_root" => pc = "run")
      /\ x \notin Roots => LinkStep(x, n, copy_of(old), {})
  BY <1>1, Parts, AttachCowStep, Zenon
<1>4. x \in Places /\ pc' = pc
  BY <1>3, Zenon DEF AttachStep
<1> HIDE DEF x, n
<1>5. CASE x \in Roots
  <2>1. x # "root_tree" => cache[node["root_tree"]].kid[x].blk = DiskNode[x]
    BY <1>1, <1>3, <1>5, Zenon DEF RootItemInv, Roots
  <2>2. /\ TreeOK(cache', node') /\ RootItemInv'
        /\ cache'[At(cache', node', BgLeaf)].used = cache[At(cache, node, BgLeaf)].used
    BY <1>1, <1>3, <1>4, <1>5, <2>1, RootStepTree, Zenon
  <2> QED
    BY <1>2, <1>3, <2>2, AttachedFsck, Zenon
<1>6. CASE x \notin Roots
  <2>1. old # NoBlock
    BY <1>3, PlaceFacts, Zenon
  <2>2. copy_of(old).used = cache[old].used /\ \A q \in Places : copy_of(old).kid[q] = NoPtr
    BY <1>1, <1>4, <1>6, <2>1, LeafCopy, Zenon
  <2>3. /\ TreeOK(cache', node') /\ RootItemInv'
        /\ cache'[At(cache', node', BgLeaf)].used = cache[At(cache, node, BgLeaf)].used
    BY <1>1, <1>3, <1>4, <1>6, <2>2, LinkStepTree, Zenon
  <2> QED
    BY <1>2, <1>3, <2>3, AttachedFsck, Zenon
<1> QED
  BY <1>5, <1>6, Zenon

\* The linking of a new leaf keeps the books.
LEMMA LinkLeafFsck ==
    ASSUME FsckInv, IInv', LinkLeaf
    PROVE  FsckInv'
<1>1. /\ IInv /\ TreeOK(cache, node) /\ RootItemInv /\ TypeOK
  BY Parts, Zenon DEF FsckInv
<1>2. IInv'
  BY Zenon
<1> DEFINE x == cont.pos
           n == cont.blk
           i == fresh_leaf(goal.val)
           v == Where(goal.via)
<1>3. AttachStep(x, n) /\ x \in FsLeaves /\ LinkStep(x, n, i, {v})
  BY <1>1, Parts, LinkLeafStep, Zenon
<1>4. x # "extent_root" /\ x # BgLeaf /\ pc' = pc
  BY <1>3, PlaceFacts, CowAssumption, Zenon DEF AttachStep
<1>5. \A q \in Places : i.kid[q] = NoPtr
  BY Zenon DEF fresh_leaf
<1> HIDE DEF x, n, i, v
<1>6. /\ TreeOK(cache', node') /\ RootItemInv'
      /\ cache'[At(cache', node', BgLeaf)].used = cache[At(cache, node, BgLeaf)].used
  BY <1>1, <1>3, <1>4, <1>5, LinkStepTree, Zenon
<1> QED
  BY <1>2, <1>3, <1>4, <1>6, AttachedFsck, Zenon

\* The deletion of a leaf keeps the books: its item is to be deleted next.
LEMMA DelLeafFsck ==
    ASSUME FsckInv, IInv', DelLeaf
    PROVE  FsckInv'
<1> DEFINE x == goal.pos
           m == node["fs_root"]
           leaf == At(cache, node, x)
<1>1. /\ IInv /\ TreeOK(cache, node) /\ RootItemInv /\ ItemInv /\ CountInv /\ DiskOK
      /\ TypeOK /\ ControlInv /\ MemInv /\ SpaceInv
  BY Parts, Zenon DEF FsckInv
<1>2. IInv'
  BY Zenon
<1>3. DelStep(x, m, leaf)
  BY <1>1, Parts, DelLeafStep, Zenon
<1> HIDE DEF x, m, leaf
<1>4. /\ Drained /\ cont = NoOp /\ pc = "run" /\ x \in Places \ Roots /\ x # BgLeaf
      /\ leaf = At(cache, node, x) /\ leaf \in Blocks /\ TreeStep(x, NoBlock)
      /\ item' = ItemOp("del", leaf) /\ m = node["fs_root"] /\ m \in Blocks
      /\ UNCHANGED <<disk, super, node, dirty_roots, free_space_cache, pinned_extents,
                     extent_ins, pending_del, generation, used, bg_dirty, cont, pc>>
  BY <1>3, Zenon DEF DelStep
<1>5. /\ \A p \in Places : At(cache', node', p) = IF p = x THEN NoBlock ELSE At(cache, node, p)
      /\ \A b \in Blocks : Listed(cache', node', b) <=> Listed(cache, node, b)
      /\ cache'[node["root_tree"]].kid = cache[node["root_tree"]].kid
      /\ \A c \in Blocks : /\ cache'[c].gen = cache[c].gen /\ cache'[c].items = cache[c].items
                           /\ cache'[c].used = cache[c].used
                           /\ cache'[c].kid = IF c = m THEN [cache[c].kid EXCEPT ![x] = NoPtr]
                                                       ELSE cache[c].kid
  BY <1>3, Zenon DEF DelStep
<1>6. /\ item = NoOp /\ extent_ins = {} /\ pending_del = {} /\ item.op = "none"
      /\ item'.op = "del" /\ item'.blk = leaf /\ cont.op = "none" /\ NoPtr \in Ptrs
  BY <1>4, OpFacts, Zenon DEF Drained, Ptrs
<1>7. TreeOK(cache', node')
  <2>1. \A q \in ExtLeaves : At(cache', node, q) # NoBlock
          => \A b \in cache'[At(cache', node, q)].items : LeafOf[b] = q
    <3>1. \A q \in ExtLeaves : At(cache', node, q) # NoBlock
             => At(cache', node, q) = At(cache, node, q) /\ At(cache, node, q) \in Blocks
      BY <1>1, <1>4, <1>5, Basics, PlaceFacts, Zenon
    <3>2. \A q \in ExtLeaves : At(cache, node, q) # NoBlock
             => \A b \in cache[At(cache, node, q)].items : LeafOf[b] = q
      BY <1>1, Zenon DEF TreeOK
    <3>3. \A c \in Blocks : cache'[c].items = cache[c].items
      BY <1>5, Zenon
    <3> QED
      BY <3>1, <3>2, <3>3, Zenon
  <2>2. /\ cache \in [Blocks -> Images] /\ cache' \in [Blocks -> Images]
        /\ node \in [Roots -> Blocks]
    BY <1>1, <1>4, Zenon DEF TypeOK, TreeStep
  <2>3. PointerStep(cache, cache', node, m, x, NoPtr)
    BY <1>4, <1>5, <1>6, <2>1, <2>2, Zenon DEF PointerStep
  <2> QED
    BY <1>1, <1>4, <2>3, UnlinkedTree, Zenon
<1>8. RootItemInv'
  BY <1>1, <1>4, <1>5, RootItemsKept, Zenon
<1>9. \A b \in Blocks : /\ Covered(b) <=> Listed(cache, node, b)
                        /\ Covered(b)' <=> Listed(cache, node, b)
  BY <1>4, <1>5, <1>6, Zenon DEF Covered
<1>10. ItemInv'
  <2>1. \A b \in Blocks : Owned(b) => Owned(b)'
    <3> TAKE b \in Blocks
    <3> HAVE Owned(b)
    <3>1. PICK p \in Places : At(cache, node, p) = b
      BY <1>6, Zenon DEF Owned, Where
    <3>2. CASE p # x
      BY <3>1, <3>2, <1>5, Zenon DEF Owned, Where
    <3>3. CASE p = x
      BY <3>1, <3>3, <1>4, <1>6, Zenon DEF Owned
    <3> QED
      BY <3>2, <3>3, Zenon
  <2>2. Listed(cache, node, leaf)
    BY <1>1, <1>4, <1>9, PlaceFacts, Zenon DEF MemInv, Where
  <2>3. (item.op = "del" => Listed(cache, node, item.blk))'
    BY <1>4, <1>5, <1>6, <2>2, Zenon
  <2>4. (\A b \in Blocks : Covered(b) => Owned(b))'
    BY <1>1, <1>9, <2>1, Zenon DEF ItemInv
  <2>5. (\A b \in Blocks : b \in free_space_cache \/ b \in pinned_extents \/ Covered(b))'
    BY <1>1, <1>4, <1>9, Zenon DEF ItemInv
  <2>6. pc' # "idle"
    BY <1>4, Zenon
  <2> QED
    BY <1>4, <1>6, <2>3, <2>4, <2>5, <2>6, Zenon DEF ItemInv
<1>11. CountInv'
  <2>1. x # "extent_root" /\ BgLeaf \in Places /\ At(cache, node, BgLeaf) \in Blocks
    BY <1>1, <1>4, Basics, PlaceFacts, Zenon DEF MemInv, Where
  <2>2. cache'[At(cache', node', BgLeaf)].used = cache[At(cache, node, BgLeaf)].used
    BY <1>4, <1>5, <2>1, Zenon
  <2>3. Fresh(node["extent_root"])' <=> Fresh(node["extent_root"])
    BY <1>1, <1>4, <2>1, ExtentRootKept, Zenon
  <2> QED
    BY <1>1, <1>4, <1>5, <1>6, <2>2, <2>3, CountKept, Zenon
<1>12. DiskOK'
  BY <1>1, <1>4, DiskKept, Zenon
<1> QED
  BY <1>2, <1>7, <1>8, <1>10, <1>11, <1>12, Zenon DEF FsckInv

\* The change of an item in a leaf of the file tree keeps the books.
LEMMA PutValueFsck ==
    ASSUME FsckInv, IInv', PutValue
    PROVE  FsckInv'
<1>1. /\ IInv /\ TreeOK(cache, node) /\ RootItemInv /\ ItemInv /\ CountInv /\ DiskOK
      /\ TypeOK /\ ControlInv /\ MemInv /\ SpaceInv
  BY Parts, Zenon DEF FsckInv
<1>2. IInv'
  BY Zenon
<1> DEFINE leaf == At(cache, node, goal.pos)
<1>3. /\ LeafStep(leaf, cache[leaf].used) /\ item' = item
  BY <1>1, PutValueStep, Zenon
<1> HIDE DEF leaf
<1>4. /\ TreeOK(cache', node') /\ RootItemInv' /\ TreeStep("root_tree", node["root_tree"])
      /\ \A p \in Places : At(cache', node', p) = At(cache, node, p)
      /\ \A b \in Blocks : Listed(cache', node', b) <=> Listed(cache, node, b)
  BY <1>1, <1>3, LeafStepTree, Zenon
<1>5. UNCHANGED <<disk, super, free_space_cache, pinned_extents, extent_ins, pending_del,
                  cont, pc, used, bg_dirty, dirty_roots>>
  BY <1>3, Zenon DEF LeafStep
<1>6. ItemInv'
  BY <1>1, <1>3, <1>4, <1>5, ItemsKept, Zenon
<1>7. Fresh(node["extent_root"])' <=> Fresh(node["extent_root"])
  BY <1>1, <1>4, ExtentRootKept, Zenon
<1>8. cache'[At(cache', node', BgLeaf)].used = cache[At(cache, node, BgLeaf)].used
  <2>1. BgLeaf \in Places /\ At(cache, node, BgLeaf) \in Blocks
    BY <1>1, Basics, PlaceFacts, Zenon DEF MemInv, Where
  <2> QED
    BY <1>3, <1>4, <2>1, Zenon DEF LeafStep
<1>9. CountInv'
  BY <1>1, <1>3, <1>4, <1>5, <1>7, <1>8, CountKept, Zenon
<1>10. DiskOK'
  BY <1>1, <1>5, DiskKept, Zenon
<1> QED
  BY <1>2, <1>4, <1>6, <1>9, <1>10, Zenon DEF FsckInv

-----------------------------------------------------------------------------
(* They change one entry or none *)

\* Copying a block of the file tree or the root tree keeps the contents: the
\* copy that takes the place of a leaf has the value of the leaf.
LEMMA AttachCowKeeps ==
    ASSUME TypeOK, ControlInv, MemInv, SpaceInv, AttachCow
    PROVE  Staged' = Staged
<1> DEFINE x == cont.pos
           n == cont.blk
           old == At(cache, node, x)
           m == node[RootOf(x)]
<1>1. /\ n \in Blocks /\ n # NoBlock /\ \A p \in Places : At(cache, node, p) # n
      /\ x \in Places /\ cache \in [Blocks -> Images] /\ node \in [Roots -> Blocks]
      /\ old \in Blocks \cup {NoBlock}
  <2>1. cont.op # "none"
    BY Zenon DEF AttachCow
  <2> QED
    BY <2>1, ContFacts, OpType, Basics, PlaceFacts, Zenon
<1>2. CASE x \in Roots
  <2>1. /\ cache' = [cache EXCEPT ![n] = copy_of(old)] /\ node' = [node EXCEPT ![x] = n]
    BY <1>2, Zenon DEF AttachCow, Where
  <2>2. old \in Blocks /\ old = node[x]
    BY <1>2, Basics, Zenon
  <2>3. copy_of(old).kid = cache[old].kid
    BY <2>2, CopyOf, Zenon
  <2> HIDE DEF x, n, old
  <2>4. /\ \A b \in Blocks : b # n => cache'[b] = cache[b]
        /\ cache'[n].kid = cache[old].kid
        /\ node'["fs_root"] = IF x = "fs_root" THEN n ELSE node["fs_root"]
    BY <1>1, <1>2, <2>1, <2>3, PlaceFacts, Zenon
  <2>5. cache'[node'["fs_root"]].kid = cache[node["fs_root"]].kid
    BY <1>1, <2>2, <2>4, FsPlaces, PlaceFacts, Zenon
  <2>6. \A l \in FsLeaves : At(cache', node', l) = IF l = x THEN n ELSE At(cache, node, l)
    BY <1>2, <2>5, PlaceFacts, Zenon DEF At
  <2>7. \A l \in FsLeaves : l # x /\ At(cache, node, l) # NoBlock
           => cache'[At(cache, node, l)].val = cache[At(cache, node, l)].val
    BY <1>1, <2>4, FsPlaces, Zenon
  <2>8. x \notin FsLeaves
    BY <1>2, PlaceFacts, Zenon
  <2> QED
    BY <2>6, <2>7, <2>8, Moved, Zenon
<1>3. CASE x \notin Roots
  <2>1. /\ cont.op = "attach" /\ node' = node
        /\ cache' = CopyLink(cache, n, copy_of(old), m, x, ptr_to(n))
    BY <1>3, Zenon DEF AttachCow, Where, CopyLink
  <2>2. x \in FsLeaves /\ RootOf(x) = "fs_root" /\ old # NoBlock /\ old \in Blocks
    <3>1. x \in {goal.via, RootOf(goal.via)} /\ goal.op # "none"
      BY <2>1, OpFacts, Zenon DEF ControlInv
    <3>2. x = goal.via
      BY <1>3, <3>1, OpType, PlaceFacts, Zenon
    <3>3. goal.via \in FsLeaves \cup Roots
      BY <3>1, OpFacts, PlaceFacts DEF ControlInv
    <3>4. Where(goal.via) # NoBlock
      BY <3>1, Zenon DEF MemInv
    <3> QED
      BY <1>1, <1>3, <3>2, <3>3, <3>4, PlaceFacts, Zenon DEF Where
  <2>3. /\ m = node["fs_root"] /\ m \in Blocks /\ n # m
        /\ copy_of(old) \in Images /\ ptr_to(n) \in Ptrs /\ ptr_to(n).blk = n
        /\ copy_of(old).val = cache[old].val
    <3>1. cache[old] \in Images /\ generation \in 0 .. MaxGen
      BY <1>1, <2>2, CowAssumption DEF TypeOK
    <3> HIDE DEF old
    <3>2. copy_of(old) \in Images /\ copy_of(old).val = cache[old].val
      BY <3>1, CopyImage, Zenon DEF copy_of
    <3>3. ptr_to(n) \in Ptrs /\ ptr_to(n).blk = n
      BY <1>1, CopyOf, Zenon
    <3> QED
      BY <1>1, <2>2, <3>2, <3>3, FsPlaces, PlaceFacts, Zenon
  <2> HIDE DEF x, n, old, m
  <2>4. /\ cache' \in [Blocks -> Images] /\ cache'[n] = copy_of(old)
        /\ cache'[m].kid = [cache[m].kid EXCEPT ![x] = ptr_to(n)]
        /\ \A b \in Blocks \ {n, m} : cache'[b] = cache[b]
    <3>1. /\ cache \in [Blocks -> Images] /\ n \in Blocks /\ m \in Blocks /\ n # m
          /\ copy_of(old) \in Images /\ x \in Places /\ ptr_to(n) \in Ptrs
      BY <1>1, <2>3, Zenon
    <3> QED
      BY <2>1, <3>1, CopyLinkCache
  <2>5. \A l \in FsLeaves : At(cache', node', l) = IF l = x THEN n ELSE At(cache, node, l)
    <3>1. \A l \in Places : cache[m].kid[l] \in Ptrs /\ cache[m].kid \in [Places -> Ptrs]
      BY <1>1, <2>3, Zenon DEF Images
    <3>2. \A l \in Places : cache'[m].kid[l] = IF l = x THEN ptr_to(n) ELSE cache[m].kid[l]
      BY <3>1, <2>4, Zenon
    <3> QED
      BY <2>1, <2>3, <3>2, PlaceFacts, Zenon DEF At
  <2>6. \A l \in FsLeaves : l # x /\ At(cache, node, l) # NoBlock
           => cache'[At(cache, node, l)].val = cache[At(cache, node, l)].val
    <3> TAKE l \in FsLeaves
    <3>1. At(cache, node, l) # NoBlock => At(cache, node, l) \in Blocks \ {n, m}
      BY <1>1, <2>3, FsPlaces, PlaceFacts
    <3> QED
      BY <3>1, <2>4, Zenon
  <2>7. FsVal(cache, node, x) = IF n = NoBlock THEN NoValue ELSE cache'[n].val
    BY <1>1, <2>2, <2>3, <2>4, Zenon DEF FsVal, old
  <2> QED
    BY <2>5, <2>6, <2>7, Moved, Zenon
<1> QED
  BY <1>2, <1>3, Zenon

\* Setting the item of a leaf changes one entry of the contents.
LEMMA PutValueChanges ==
    ASSUME TypeOK, ControlInv, MemInv, SpaceInv, PutValue
    PROVE  goal.pos \in FsLeaves /\ Staged' = [Staged EXCEPT ![goal.pos] = goal.val]
<1> DEFINE x == goal.pos
           leaf == At(cache, node, x)
<1>1. x \in FsLeaves /\ leaf # NoBlock /\ leaf \in Blocks
  <2>1. goal.op = "put"
    BY Zenon DEF PutValue, Ready
  <2>2. x \in FsLeaves /\ goal.via = x
    BY <2>1, Zenon DEF ControlInv
  <2>3. Where(goal.via) # NoBlock
    BY <2>1, Zenon DEF MemInv
  <2> QED
    BY <2>2, <2>3, FsPlaces, Zenon DEF Where
<1>2. /\ cache' = [cache EXCEPT ![leaf].val = goal.val] /\ node' = node
      /\ cache \in [Blocks -> Images]
  BY Zenon DEF PutValue, Where, TypeOK
<1> HIDE DEF x, leaf
<1>3. cache[leaf] \in Images
  BY <1>1, <1>2, Zenon
<1>4. /\ cache'[leaf].val = goal.val
      /\ \A b \in Blocks : b # leaf => cache'[b] = cache[b]
  BY <1>1, <1>2, <1>3, Zenon DEF Images
<1>5. leaf # node["fs_root"] /\ \A l \in FsLeaves : l # x => At(cache, node, l) # leaf
  BY <1>1, FsPlaces, PlaceFacts, Zenon DEF leaf
<1>6. \A l \in FsLeaves : At(cache', node', l) = IF l = x THEN leaf ELSE At(cache, node, l)
  <2>1. cache'[node["fs_root"]] = cache[node["fs_root"]]
    BY <1>4, <1>5, FsPlaces, Zenon
  <2>2. \A l \in FsLeaves : At(cache', node', l) = At(cache, node, l)
    BY <1>2, <2>1, PlaceFacts DEF At
  <2> QED
    BY <2>2, Zenon DEF leaf
<1>7. \A l \in FsLeaves : l # x /\ At(cache, node, l) # NoBlock
           => cache'[At(cache, node, l)].val = cache[At(cache, node, l)].val
  BY <1>4, <1>5, FsPlaces, Zenon
<1>8. x \in FsLeaves => goal.val = IF leaf = NoBlock THEN NoValue ELSE cache'[leaf].val
  BY <1>1, <1>4, Zenon
<1>9. x \in FsLeaves => Staged' = [Staged EXCEPT ![x] = goal.val]
  <2> DEFINE v == goal.val
  <2>1. x \in FsLeaves => v = IF leaf = NoBlock THEN NoValue ELSE cache'[leaf].val
    BY <1>8, Zenon
  <2> HIDE DEF v
  <2>2. x \in FsLeaves => Staged' = [Staged EXCEPT ![x] = v]
    BY <1>6, <1>7, <2>1, Moved, Zenon
  <2> QED
    BY <2>2, Zenon DEF v
<1> QED
  BY <1>1, <1>9, Zenon DEF x

\* Linking a new leaf adds an entry with the value it was made for.
LEMMA LinkLeafChanges ==
    ASSUME TypeOK, ControlInv, MemInv, SpaceInv, LinkLeaf
    PROVE  goal.pos \in FsLeaves /\ Staged' = [Staged EXCEPT ![goal.pos] = goal.val]
<1> DEFINE x == goal.pos
           n == cont.blk
           m == node["fs_root"]
           v == goal.val
<1>1. cont.op = "link" /\ cont.op # "none"
  BY Zenon DEF LinkLeaf
<1>2. /\ goal.op = "new" /\ cont.pos = x /\ x \in FsLeaves /\ x \in Places
      /\ n \in Blocks /\ n # NoBlock /\ \A p \in Places : At(cache, node, p) # n
      /\ cache \in [Blocks -> Images] /\ v \in Values \cup {NoValue}
  <2>1. goal.op = "new" /\ cont.pos = x /\ x \in FsLeaves /\ n \in Blocks
    BY <1>1, Zenon DEF ControlInv
  <2>2. n # NoBlock
    BY <2>1, PlaceFacts, Zenon
  <2>3. \A p \in Places : At(cache, node, p) # n
    BY <2>2, Zenon DEF SpaceInv, Where
  <2> QED
    BY <2>1, <2>2, <2>3, OpType, PlaceFacts, Zenon DEF TypeOK
<1>3. /\ m \in Blocks /\ n # m /\ m = At(cache, node, "fs_root")
      /\ \A l \in FsLeaves : At(cache, node, l) \in (Blocks \ {n, m}) \cup {NoBlock}
  BY <1>2, FsPlaces, PlaceFacts
<1>4. /\ fresh_leaf(v) \in Images /\ ptr_to(n) \in Ptrs /\ ptr_to(n).blk = n
      /\ fresh_leaf(v).val = v
  <2>1. ptr_to(n) \in Ptrs /\ ptr_to(n).blk = n
    BY <1>2, CopyOf, Zenon
  <2>2. fresh_leaf(v) \in Images
    BY <1>2, FreshLeafImage, Zenon
  <2>3. fresh_leaf(v).val = v
    BY Zenon DEF fresh_leaf
  <2> QED
    BY <2>1, <2>2, <2>3, Zenon
<1>5. node' = node /\ cache' = CopyLink(cache, n, fresh_leaf(v), m, x, ptr_to(n))
  BY <1>2, Zenon DEF LinkLeaf, CopyLink
<1> HIDE DEF x, n, m, v
<1>6. /\ cache' \in [Blocks -> Images] /\ cache'[n] = fresh_leaf(v)
      /\ cache'[m].kid = [cache[m].kid EXCEPT ![x] = ptr_to(n)]
      /\ \A b \in Blocks \ {n, m} : cache'[b] = cache[b]
  BY <1>2, <1>3, <1>4, <1>5, CopyLinkCache
<1>7. \A l \in FsLeaves : At(cache', node', l) = IF l = x THEN n ELSE At(cache, node, l)
  <2>1. cache[m].kid \in [Places -> Ptrs]
    BY <1>2, <1>3, Zenon DEF Images
  <2>2. \A l \in Places : cache'[m].kid[l] = IF l = x THEN ptr_to(n) ELSE cache[m].kid[l]
    BY <2>1, <1>6, Zenon
  <2> QED
    BY <1>4, <1>5, <2>2, PlaceFacts, Zenon DEF At, m
<1>8. \A l \in FsLeaves : l # x /\ At(cache, node, l) # NoBlock
         => cache'[At(cache, node, l)].val = cache[At(cache, node, l)].val
  BY <1>3, <1>6, Zenon
<1>9. x \in FsLeaves => v = IF n = NoBlock THEN NoValue ELSE cache'[n].val
  BY <1>2, <1>4, <1>6, Zenon
<1>10. x \in FsLeaves => Staged' = [Staged EXCEPT ![x] = v]
  BY <1>7, <1>8, <1>9, Moved, Zenon
<1> QED
  BY <1>2, <1>10, Zenon DEF x, v

\* Unlinking a leaf drops its entry.
LEMMA DelLeafChanges ==
    ASSUME TypeOK, ControlInv, MemInv, SpaceInv, DelLeaf
    PROVE  goal.pos \in FsLeaves /\ Staged' = [Staged EXCEPT ![goal.pos] = NoValue]
<1> DEFINE x == goal.pos
           m == node["fs_root"]
<1>1. /\ x \in FsLeaves /\ x \in Places /\ cache \in [Blocks -> Images]
      /\ m \in Blocks /\ m = At(cache, node, "fs_root")
      /\ \A l \in FsLeaves : At(cache, node, l) \in (Blocks \ {m}) \cup {NoBlock}
  <2>1. x \in FsLeaves
    BY Zenon DEF DelLeaf, Ready, ControlInv
  <2> QED
    BY <2>1, FsPlaces, PlaceFacts DEF TypeOK
<1>2. node' = node /\ cache' = [cache EXCEPT ![m].kid[x] = NoPtr]
  BY Zenon DEF DelLeaf
<1> HIDE DEF x, m
<1>3. cache[m] \in Images
  BY <1>1, Zenon
<1>4. /\ cache'[m].kid = [cache[m].kid EXCEPT ![x] = NoPtr]
      /\ \A b \in Blocks \ {m} : cache'[b] = cache[b]
  BY <1>1, <1>2, <1>3, Zenon DEF Images
<1>5. \A l \in FsLeaves : At(cache', node', l) = IF l = x THEN NoBlock ELSE At(cache, node, l)
  <2>1. cache[m].kid \in [Places -> Ptrs]
    BY <1>3, Zenon DEF Images
  <2>2. \A l \in Places : cache'[m].kid[l] = IF l = x THEN NoPtr ELSE cache[m].kid[l]
    BY <2>1, <1>4, Zenon
  <2>3. NoPtr.blk = NoBlock
    BY Zenon DEF NoPtr
  <2>4. \A l \in FsLeaves : /\ l \in Places /\ l \notin Roots /\ RootOf(l) = "fs_root"
    BY PlaceFacts, Zenon
  <2>5. \A l \in FsLeaves : cache'[m].kid[l].blk = IF l = x THEN NoBlock ELSE cache[m].kid[l].blk
    BY <2>2, <2>3, <2>4, Zenon
  <2> QED
    BY <1>2, <2>4, <2>5, Zenon DEF At, m
<1>6. \A l \in FsLeaves : l # x /\ At(cache, node, l) # NoBlock
         => cache'[At(cache, node, l)].val = cache[At(cache, node, l)].val
  BY <1>1, <1>4, Zenon
<1>7. x \in FsLeaves => NoValue = IF NoBlock = NoBlock THEN NoValue ELSE cache'[NoBlock].val
  BY Zenon
<1>8. x \in FsLeaves => Staged' = [Staged EXCEPT ![x] = NoValue]
  BY <1>5, <1>6, <1>7, Moved, Zenon
<1> QED
  BY <1>1, <1>8, Zenon DEF x

\* The steps that change what the process sees: one entry, while a
\* transaction is open.
LEMMA ChangeSteps ==
    ASSUME TypeOK, ControlInv, MemInv, SpaceInv, PutValue \/ LinkLeaf \/ DelLeaf
    PROVE  /\ Open /\ Open' /\ Committed' = Committed
           /\ \E k \in FsLeaves, c \in Values \cup {NoValue} :
                 Staged' = [Staged EXCEPT ![k] = c]
<1>1. UNCHANGED <<disk, super, pc>>
  BY Zenon DEF PutValue, LinkLeaf, DelLeaf
<1>2. goal.op \in {"put", "new", "del"} /\ goal # NoOp
  <2>1. goal.op \in {"put", "new", "del"}
    <3>1. CASE PutValue
      BY <3>1, Zenon DEF PutValue, Ready
    <3>2. CASE DelLeaf
      BY <3>2, Zenon DEF DelLeaf, Ready
    <3>3. CASE LinkLeaf
      BY <3>3, Zenon DEF LinkLeaf, ControlInv
    <3> QED
      BY <3>1, <3>2, <3>3, Zenon
  <2> QED
    BY <2>1, OpFacts, Zenon
<1>3. pc # "idle"
  BY <1>2, Zenon DEF ControlInv, NothingPending
<1>4. goal.val \in Values \cup {NoValue} /\ NoValue \in Values \cup {NoValue}
  BY OpType, Zenon
<1>5. \E k \in FsLeaves, c \in Values \cup {NoValue} : Staged' = [Staged EXCEPT ![k] = c]
  BY <1>4, PutValueChanges, LinkLeafChanges, DelLeafChanges, Zenon
<1> QED
  BY <1>1, <1>3, <1>5, CommittedKept, Zenon DEF Open

\* Every action on the file tree and the roots keeps the invariant.
LEMMA FileTreeInv == ASSUME IInv, FileTreeStep PROVE IInv'
<1>1. /\ TypeOK /\ ControlInv /\ SuperInv /\ DiskInv /\ MemInv /\ SpaceInv
      /\ FreshInv /\ DirtyInv /\ RootInv
  BY Parts, Zenon
<1> QED
  BY <1>1, AttachCowInv, PutValueInv, LinkLeafInv, DelLeafInv, Zenon DEF FileTreeStep

\* Every action on the file tree and the roots keeps the books.
LEMMA FileTreeFsck == ASSUME FsckInv, IInv', FileTreeStep PROVE FsckInv'
  BY AttachCowFsck, PutValueFsck, LinkLeafFsck, DelLeafFsck, Zenon DEF FileTreeStep

\* The store sees one entry change, or nothing when a copy is linked.
LEMMA FileTreeRefines ==
    ASSUME IInv, FileTreeStep
    PROVE  \/ Silent
           \/ /\ Open /\ Open' /\ Committed' = Committed
              /\ \E k \in FsLeaves, c \in Values \cup {NoValue} :
                    Staged' = [Staged EXCEPT ![k] = c]
<1>1. TypeOK /\ ControlInv /\ MemInv /\ SpaceInv
  BY Parts, Zenon
<1>2. CASE AttachCow
  <2>1. UNCHANGED <<disk, super, pc>>
    BY <1>2, Zenon DEF AttachCow
  <2>2. Staged' = Staged
    BY <1>1, <1>2, AttachCowKeeps, Zenon
  <2> QED
    BY <2>1, <2>2, CommittedKept, Zenon DEF Silent, Open
<1>3. CASE PutValue \/ LinkLeaf \/ DelLeaf
  BY <1>1, <1>3, ChangeSteps, Zenon
<1> QED
  BY <1>2, <1>3, Zenon DEF FileTreeStep
=============================================================================

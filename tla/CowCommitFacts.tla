--------------------------- MODULE CowCommitFacts ---------------------------
(***************************************************************************)
(* What the proofs about CowCommit share: places and blocks, what a step on *)
(* the trees does, and what it leaves alone of the invariants IInv and     *)
(* FsckInv and of the store that AtomicStore describes.                    *)
(***************************************************************************)
EXTENDS CowCommitInv, TLAPS

-----------------------------------------------------------------------------
(* Blocks and places *)

\* The copy __btrfs_cow_block makes differs from the original in its generation and in
\* not being written, and in nothing else.
LEMMA CopyImage ==
    ASSUME NEW i \in Images, NEW g \in 0 .. MaxGen
    PROVE  LET j == [i EXCEPT !.gen = g, !.written = FALSE]
           IN /\ j \in Images /\ j.gen = g /\ j.written = FALSE
              /\ j.kid = i.kid /\ j.items = i.items /\ j.used = i.used
              /\ j.val = i.val
BY Zenon DEF Images

\* btrfs_set_node_blockptr changes one pointer of a node.
LEMMA LinkImage ==
    ASSUME NEW i \in Images, NEW x \in Places, NEW k \in Ptrs
    PROVE  LET j == [i EXCEPT !.kid[x] = k]
           IN /\ j \in Images /\ j.gen = i.gen /\ j.written = i.written
              /\ j.kid = [i.kid EXCEPT ![x] = k] /\ j.items = i.items
              /\ j.used = i.used /\ j.val = i.val
BY Zenon DEF Images

\* Writing a block group item or a value changes neither pointers nor items.
LEMMA SetUsedOrVal ==
    ASSUME NEW i \in Images, NEW u \in Int, NEW v \in Values \cup {NoValue}
    PROVE  /\ LET j == [i EXCEPT !.used = u]
              IN /\ j \in Images /\ j.gen = i.gen /\ j.written = i.written
                 /\ j.kid = i.kid /\ j.items = i.items /\ j.used = u
           /\ LET j == [i EXCEPT !.val = v]
              IN /\ j \in Images /\ j.gen = i.gen /\ j.written = i.written
                 /\ j.kid = i.kid /\ j.items = i.items /\ j.used = i.used
BY Zenon DEF Images

CopyLink(c, n, i, m, x, k) == [c EXCEPT ![n] = i, ![m].kid[x] = k]

\* What the buffers hold after a copy is made in block n and linked into its parent m.
LEMMA CopyLinkCache ==
    ASSUME NEW c \in [Blocks -> Images], NEW n \in Blocks, NEW m \in Blocks, n # m,
           NEW i \in Images, NEW x \in Places, NEW k \in Ptrs
    PROVE  LET d == CopyLink(c, n, i, m, x, k) IN
           /\ d \in [Blocks -> Images]
           /\ d[n] = i
           /\ d[m].gen = c[m].gen /\ d[m].written = c[m].written
           /\ d[m].items = c[m].items
           /\ d[m].kid = [c[m].kid EXCEPT ![x] = k]
           /\ \A b \in Blocks \ {n, m} : d[b] = c[b]
<1> DEFINE d == CopyLink(c, n, i, m, x, k)
           e == [c[m] EXCEPT !.kid[x] = k]
<1>1. /\ e \in Images /\ e.gen = c[m].gen /\ e.written = c[m].written
      /\ e.items = c[m].items /\ e.kid = [c[m].kid EXCEPT ![x] = k]
  BY LinkImage
<1>2. d = [[c EXCEPT ![n] = i] EXCEPT ![m] = e]
  BY Zenon DEF CopyLink
<1> HIDE DEF d, e
<1> QED
  BY <1>1, <1>2, Zenon DEF d

\* The places of the trees: roots, extent leaves and file leaves are apart, and each place
\* belongs to one root.
LEMMA PlaceFacts ==
    /\ \A p \in Places : RootOf(p) \in Roots
    /\ \A p \in Roots : p \in Places /\ RootOf(p) = p
    /\ \A p \in ExtLeaves : p \in Places /\ p \notin Roots /\ RootOf(p) = "extent_root"
    /\ \A p \in FsLeaves : p \in Places /\ p \notin Roots /\ RootOf(p) = "fs_root"
    /\ "root_tree" \in Roots /\ "extent_root" \in Roots /\ "fs_root" \in Roots
    /\ BgLeaf \in ExtLeaves /\ \A b \in Blocks : LeafOf[b] \in ExtLeaves
    /\ NoBlock \notin Blocks
BY CowAssumption, Zenon DEF Places, RootOf, Roots

\* The operations a call leaves pending are well formed.
LEMMA OpFacts ==
    /\ NoOp \in Ops /\ NoOp.op = "none" /\ NoOp.pos = "root_tree" /\ NoOp.via = "root_tree"
    /\ NoOp.blk = NoBlock
    /\ RootGoal \in Ops /\ RootGoal.op = "root" /\ RootGoal.pos = "root_tree"
    /\ RootGoal.via = "root_tree"
    /\ BgOp \in Ops /\ BgOp.op = "bg"
    /\ \A b \in Blocks : \A k \in {"ins", "del"} :
          ItemOp(k, b) \in Ops /\ ItemOp(k, b).op = k /\ ItemOp(k, b).blk = b
    /\ \A b \in Blocks : \A k \in {"attach", "link"} : \A p \in Places :
          /\ ContOp(k, p, b) \in Ops /\ ContOp(k, p, b).op = k
          /\ ContOp(k, p, b).pos = p /\ ContOp(k, p, b).blk = b
    /\ \A k \in {"put", "new", "del"}, p, via \in Places, v \in Values \cup {NoValue} :
          /\ GoalOp(k, p, via, v) \in Ops /\ GoalOp(k, p, via, v).op = k
          /\ GoalOp(k, p, via, v).pos = p /\ GoalOp(k, p, via, v).via = via
<1>1. NoOp \in Ops
  BY PlaceFacts, Zenon DEF NoOp, Ops
<1>2. /\ RootGoal \in Ops /\ RootGoal.op = "root" /\ RootGoal.pos = "root_tree"
      /\ RootGoal.via = "root_tree" /\ BgOp \in Ops /\ BgOp.op = "bg"
  BY PlaceFacts, Zenon DEF NoOp, Ops, RootGoal, BgOp
<1>3. \A b \in Blocks : \A k \in {"ins", "del"} :
          ItemOp(k, b) \in Ops /\ ItemOp(k, b).op = k /\ ItemOp(k, b).blk = b
  <2> TAKE b \in Blocks
  <2> TAKE k \in {"ins", "del"}
  <2> QED
    BY PlaceFacts, Zenon DEF NoOp, Ops, ItemOp
<1>4. \A b \in Blocks : \A k \in {"attach", "link"} : \A p \in Places :
          /\ ContOp(k, p, b) \in Ops /\ ContOp(k, p, b).op = k
          /\ ContOp(k, p, b).pos = p /\ ContOp(k, p, b).blk = b
  <2> TAKE b \in Blocks
  <2> TAKE k \in {"attach", "link"}
  <2> TAKE p \in Places
  <2> QED
    BY PlaceFacts, Zenon DEF NoOp, Ops, ContOp
<1>5. \A k \in {"put", "new", "del"}, p, via \in Places, v \in Values \cup {NoValue} :
          /\ GoalOp(k, p, via, v) \in Ops /\ GoalOp(k, p, via, v).op = k
          /\ GoalOp(k, p, via, v).pos = p /\ GoalOp(k, p, via, v).via = via
  BY DEF Ops, GoalOp
<1> QED
  BY <1>1, <1>2, <1>3, <1>4, <1>5, Zenon DEF NoOp

\* The block a tree holds at a place is a block or none.
LEMMA AtType ==
    ASSUME NEW c \in [Blocks -> Images], NEW nd \in [Roots -> Blocks],
           NEW p \in Places
    PROVE  At(c, nd, p) \in Blocks \cup {NoBlock}
<1>1. CASE p \in Roots
  BY <1>1, Zenon DEF At
<1>2. CASE p \notin Roots
  <2>1. c[nd[RootOf(p)]] \in Images
    BY PlaceFacts, Zenon
  <2>2. c[nd[RootOf(p)]].kid[p] \in Ptrs
    BY <2>1, Zenon DEF Images
  <2> QED
    BY <1>2, <2>2 DEF At, Ptrs, NoPtr
<1> QED
  BY <1>1, <1>2, Zenon

IsLink(c, d, nd, x, k) ==
    /\ c \in [Blocks -> Images] /\ d \in [Blocks -> Images]
    /\ nd \in [Roots -> Blocks] /\ x \in Places \ Roots /\ k \in Ptrs
    /\ d[nd[RootOf(x)]].kid = [c[nd[RootOf(x)]].kid EXCEPT ![x] = k]
    /\ \A r \in Roots : r # RootOf(x) => d[nd[r]].kid = c[nd[r]].kid

\* Linking a block at place x changes what the tree holds at x and nowhere else.
LEMMA Linked ==
    ASSUME NEW c, NEW d, NEW nd, NEW x, NEW k, IsLink(c, d, nd, x, k)
    PROVE  \A p \in Places : At(d, nd, p) = IF p = x THEN k.blk ELSE At(c, nd, p)
<1> USE DEF IsLink
<1> TAKE p \in Places
<1>1. CASE p \in Roots
  BY <1>1, Zenon DEF At
<1>2. CASE p \notin Roots /\ RootOf(p) # RootOf(x)
  BY <1>2, PlaceFacts, Zenon DEF At
<1>3. CASE p \notin Roots /\ RootOf(p) = RootOf(x)
  <2>1. c[nd[RootOf(x)]].kid \in [Places -> Ptrs]
    BY PlaceFacts, Zenon DEF Images
  <2> QED
    BY <1>3, <2>1, Zenon DEF At
<1> QED
  BY <1>1, <1>2, <1>3, Zenon

\* What the invariant says of the blocks an action is about to change.
LEMMA Basics ==
    ASSUME TypeOK, ControlInv, MemInv, SpaceInv
    PROVE  /\ cache \in [Blocks -> Images] /\ node \in [Roots -> Blocks]
           /\ \A p \in Places : At(cache, node, p) \in Blocks \cup {NoBlock}
           /\ \A r \in Roots : At(cache, node, r) = node[r] /\ node[r] \in Blocks
           /\ \A q, r \in Roots : node[q] = node[r] => q = r
           /\ extent_node = node["extent_root"] /\ extent_node \in Blocks
           /\ item # NoOp => /\ ItemLeaf \in ExtLeaves /\ ItemVia \in ExtLeaves
                             /\ Changing
           /\ goal # NoOp \/ cont # NoOp => Changing
           /\ \A b \in find_free_extent :
                 /\ b \in Blocks /\ b \in free_space_cache
                 /\ b \notin extent_ins /\ b \notin pinned_extents
                 /\ \A p \in Places : At(cache, node, p) # b
<1>1. \A p \in Places : At(cache, node, p) \in Blocks \cup {NoBlock}
  BY AtType, Zenon DEF TypeOK
<1>2. \A r \in Roots : At(cache, node, r) = node[r] /\ node[r] \in Blocks
  BY Zenon DEF At, TypeOK
<1>3. \A q, r \in Roots : node[q] = node[r] => q = r
  BY <1>2, PlaceFacts DEF MemInv, Where
<1>4. item # NoOp => /\ ItemLeaf \in ExtLeaves /\ ItemVia \in ExtLeaves
                     /\ Changing
  BY PlaceFacts, Zenon DEF ControlInv, ItemLeaf, ItemVia, TypeOK, Changing, NothingPending
<1>5. goal # NoOp \/ cont # NoOp => Changing
  BY Zenon DEF ControlInv, TypeOK, Changing, NothingPending
<1>6. \A b \in find_free_extent :
         /\ b \in Blocks /\ b \in free_space_cache
         /\ b \notin extent_ins /\ b \notin pinned_extents
         /\ \A p \in Places : At(cache, node, p) # b
  BY DEF find_free_extent, First, TypeOK, SpaceInv, Where
<1> QED
  BY <1>1, <1>2, <1>3, <1>4, <1>5, <1>6, PlaceFacts, Zenon DEF extent_node, TypeOK

\* The copy of a block has the running generation and the contents of the original.
LEMMA CopyOf ==
    ASSUME TypeOK, NEW b \in Blocks
    PROVE  /\ copy_of(b) \in Images /\ copy_of(b).gen = generation
           /\ copy_of(b).written = FALSE /\ copy_of(b).items = cache[b].items
           /\ copy_of(b).kid = cache[b].kid
           /\ ptr_to(b) \in Ptrs /\ ptr_to(b).blk = b
<1>1. cache[b] \in Images /\ generation \in 0 .. MaxGen
  BY DEF TypeOK
<1>2. /\ copy_of(b) \in Images /\ copy_of(b).gen = generation
      /\ copy_of(b).written = FALSE /\ copy_of(b).items = cache[b].items
      /\ copy_of(b).kid = cache[b].kid
  BY <1>1, CopyImage, Zenon DEF copy_of
<1>3. generation \in 1 .. MaxGen
  BY Zenon DEF TypeOK
<1>4. ptr_to(b) \in Ptrs /\ ptr_to(b).blk = b
  BY <1>3, Zenon DEF ptr_to, Ptrs
<1> QED
  BY <1>2, <1>4, Zenon

\* There is a first super block, and its generation is a number.
LEMMA FirstMirror ==
    ASSUME TypeOK
    PROVE  0 \in Mirrors /\ super[0].generation \in Int /\ generation \in Int
<1>1. 0 \in Mirrors
  BY CowAssumption DEF Mirrors
<1>2. /\ super \in [Mirrors -> [generation : 1 .. MaxGen, root : Blocks, bytes_used : Int]]
      /\ generation \in 1 .. MaxGen
  BY Zenon DEF TypeOK
<1> HIDE DEF TypeOK
<1>3. super[0] \in [generation : 1 .. MaxGen, root : Blocks, bytes_used : Int]
  BY <1>1, <1>2, Zenon
<1> QED
  BY <1>1, <1>2, <1>3

\* Steps that write neither a tree block nor a super block.
LEMMA DiskFrame ==
    ASSUME UNCHANGED <<disk, super>>
    PROVE  /\ Newest' = Newest /\ DiskNode' = DiskNode /\ Durable' = Durable
           /\ DiskInv => DiskInv'
           /\ TypeOK /\ SuperInv /\ generation' \in {generation, generation + 1}
                 => SuperInv'
<1>1. Newest' = Newest
  BY Zenon DEF Newest, BestMirror
<1>2. DiskNode' = DiskNode
  BY <1>1, Zenon DEF DiskNode
<1>3. Durable' = Durable
  BY <1>2, Zenon DEF Durable, DiskPlaces, DiskWhere
<1>4. DiskInv => DiskInv'
  BY <1>2, <1>3, Zenon DEF DiskInv, DiskWhere
<1>5. TypeOK /\ SuperInv /\ generation' \in {generation, generation + 1} => SuperInv'
  <2> SUFFICES ASSUME TypeOK, SuperInv, generation' \in {generation, generation + 1}
               PROVE  SuperInv'
    BY Zenon
  <2>1. super[0].generation \in Int /\ generation \in Int
    BY FirstMirror, Zenon
  <2>2. super[0].generation <= generation'
    <3>1. super[0].generation <= generation
      BY Zenon DEF SuperInv
    <3> HIDE DEF TypeOK, SuperInv
    <3> QED
      BY <2>1, <3>1
  <2> QED
    BY <2>2, Zenon DEF SuperInv
<1> QED
  BY <1>1, <1>2, <1>3, <1>4, <1>5, Zenon

-----------------------------------------------------------------------------
(* Steps on the trees *)

TreeStep(x, n) ==
    /\ x \in Places /\ n \in Blocks \cup {NoBlock}
    /\ UNCHANGED <<disk, super, generation>>
    /\ cache' \in [Blocks -> Images] /\ node' \in [Roots -> Blocks]
    /\ dirty' \subseteq Blocks
    /\ \A p \in Places : At(cache', node', p) = IF p = x THEN n ELSE At(cache, node, p)
    /\ n # NoBlock => \A p \in Places : p # x => At(cache, node, p) # n
    /\ n = NoBlock => x \notin Roots \cup {BgLeaf} /\ (x \in ExtLeaves \/ cont' = NoOp)
    /\ \A b \in Blocks :
          \/ cache'[b].gen = cache[b].gen /\ cache'[b].written = cache[b].written
          \/ /\ b = n /\ b \notin Durable
             /\ cache'[b].gen = generation /\ cache'[b].written = FALSE
    /\ n # NoBlock => n = At(cache, node, x) \/ FreshIn(cache', generation, n)
    /\ \A b \in dirty' : b \in dirty \/ FreshIn(cache', generation, b)
    /\ \A p \in Places : p # x /\ At(cache, node, p) \notin dirty' \cup {NoBlock}
          => /\ At(cache, node, p) \notin dirty
             /\ cache'[At(cache, node, p)] = cache[At(cache, node, p)]
    /\ n \notin dirty' \cup {NoBlock}
          => n = At(cache, node, x) /\ n \notin dirty /\ cache'[n] = cache[n]

\* A new block n with contents i takes place x below a root node that is
\* already writable: the copy of a leaf, or a leaf that is added.
LinkStep(x, n, i, S) ==
    /\ x \in Places \ Roots /\ n \in Blocks /\ i \in Images /\ S \subseteq Blocks
    /\ n \notin Durable /\ \A p \in Places : At(cache, node, p) # n
    /\ i.gen = generation /\ i.written = FALSE
    /\ i.items = IF At(cache, node, x) = NoBlock THEN {} ELSE cache[At(cache, node, x)].items
    /\ FreshIn(cache, generation, node[RootOf(x)])
    /\ \A b \in S : FreshIn(cache, generation, b)
    /\ cache' = CopyLink(cache, n, i, node[RootOf(x)], x, ptr_to(n))
    /\ dirty' = (dirty \ {At(cache, node, x)}) \cup {n, node[RootOf(x)]} \cup S
    /\ UNCHANGED <<disk, super, generation, node>>

\* The cow of a block below the root (the parent != NULL branch of __btrfs_cow_block)
\* replaces one block of one tree and lists the same extents.
LEMMA LinkStepIsTreeStep ==
    ASSUME TypeOK, ControlInv, MemInv, SpaceInv,
           NEW x, NEW n, NEW i, NEW S, LinkStep(x, n, i, S)
    PROVE  /\ TreeStep(x, n)
           /\ \A p \in Places : At(cache', node', p) = IF p = x THEN n ELSE At(cache, node, p)
           /\ \A b \in Blocks : Listed(cache', node', b) <=> Listed(cache, node, b)
           /\ cache'[node["root_tree"]].kid = cache[node["root_tree"]].kid
<1> DEFINE m == node[RootOf(x)]
           old == At(cache, node, x)
<1>1. /\ x \in Places /\ x \notin Roots /\ RootOf(x) \in Roots \ {"root_tree"}
      /\ n \in Blocks /\ m \in Blocks /\ n # m /\ i \in Images
      /\ old \in Blocks \cup {NoBlock} /\ n # NoBlock
      /\ \A p \in Places : p # x => At(cache, node, p) # old \/ old = NoBlock
  <2>1. x \in Places /\ x \notin Roots /\ n \in Blocks /\ i \in Images
    BY Zenon DEF LinkStep
  <2>2. RootOf(x) \in Roots /\ RootOf(x) # "root_tree"
    BY <2>1, PlaceFacts, Zenon DEF Places
  <2>3. m \in Blocks /\ At(cache, node, RootOf(x)) = m /\ RootOf(x) \in Places
    BY <2>2, Basics, PlaceFacts, Zenon
  <2>4. n # m
    BY <2>3, Zenon DEF LinkStep
  <2>5. old \in Blocks \cup {NoBlock} /\ n # NoBlock
    BY <2>1, Basics, PlaceFacts, Zenon
  <2>6. \A p \in Places : p # x => At(cache, node, p) # old \/ old = NoBlock
    BY <2>1, Zenon DEF MemInv, Where
  <2> QED
    BY <2>1, <2>2, <2>3, <2>4, <2>5, <2>6, Zenon
<1>2. ptr_to(n) \in Ptrs /\ ptr_to(n).blk = n
  BY <1>1, CopyOf, Zenon
<1>3. /\ cache' \in [Blocks -> Images]
      /\ cache'[n] = i
      /\ cache'[m].gen = cache[m].gen /\ cache'[m].written = cache[m].written
      /\ cache'[m].items = cache[m].items
      /\ cache'[m].kid = [cache[m].kid EXCEPT ![x] = ptr_to(n)]
      /\ \A b \in Blocks \ {n, m} : cache'[b] = cache[b]
  <2>1. cache' = CopyLink(cache, n, i, m, x, ptr_to(n)) /\ cache \in [Blocks -> Images]
    BY Zenon DEF TypeOK, LinkStep
  <2> HIDE DEF m
  <2> QED
    BY <1>1, <1>2, <2>1, CopyLinkCache
<1>4. UNCHANGED <<disk, super, generation, node>> /\ dirty' = (dirty \ {old}) \cup {n, m} \cup S
      /\ S \subseteq Blocks
  BY Zenon DEF LinkStep
<1>5. \A p \in Places : At(cache', node', p) = IF p = x THEN n ELSE At(cache, node, p)
  <2>1. \A r \in Roots : r # RootOf(x) => cache'[node[r]].kid = cache[node[r]].kid
    BY <1>1, <1>3, Basics, PlaceFacts DEF LinkStep
  <2>2. IsLink(cache, cache', node, x, ptr_to(n))
    BY <1>1, <1>2, <1>3, <2>1, Basics, Zenon DEF IsLink
  <2> QED
    BY <1>2, <1>4, <2>2, Linked
<1>6. cache'[node["root_tree"]].kid = cache[node["root_tree"]].kid
  BY <1>1, <1>3, Basics, PlaceFacts DEF LinkStep
<1> HIDE DEF m
<1>7. \A b \in Blocks : Listed(cache', node', b) <=> Listed(cache, node, b)
  <2> TAKE b \in Blocks
  <2>1. LeafOf[b] \in Places /\ LeafOf[b] \notin Roots
    BY PlaceFacts, Zenon
  <2>2. CASE LeafOf[b] = x
    BY <2>1, <2>2, <1>1, <1>3, <1>5, Zenon DEF Listed, LinkStep
  <2>3. CASE LeafOf[b] # x
    BY <2>1, <2>3, <1>1, <1>3, <1>5, Basics DEF Listed, LinkStep
  <2> QED
    BY <2>2, <2>3, Zenon
<1>8. TreeStep(x, n)
  <2>1. /\ n \in dirty' /\ dirty' \subseteq Blocks /\ node' \in [Roots -> Blocks]
    BY <1>1, <1>4, Zenon DEF TypeOK
  <2>2. \A b \in Blocks :
          \/ cache'[b].gen = cache[b].gen /\ cache'[b].written = cache[b].written
          \/ /\ b = n /\ b \notin Durable
             /\ cache'[b].gen = generation /\ cache'[b].written = FALSE
    BY <1>3, Zenon DEF LinkStep
  <2>3. FreshIn(cache', generation, n) /\ \A b \in S \cup {m} : FreshIn(cache', generation, b)
    BY <1>1, <1>3, <1>4, Zenon DEF FreshIn, LinkStep, m
  <2>4. ASSUME NEW p \in Places, p # x, At(cache, node, p) \notin dirty' \cup {NoBlock}
        PROVE  /\ At(cache, node, p) \notin dirty
               /\ cache'[At(cache, node, p)] = cache[At(cache, node, p)]
    <3>1. At(cache, node, p) \in Blocks /\ At(cache, node, p) \notin {n, m, old}
      BY <2>4, <1>1, <1>4, Basics, Zenon
    <3> HIDE DEF old
    <3> QED
      BY <2>4, <3>1, <1>3, <1>4, Zenon
  <2>5. \A p \in Places : p # x => At(cache, node, p) # n
    BY Zenon DEF LinkStep
  <2> HIDE DEF old
  <2> QED
    BY <1>1, <1>3, <1>4, <1>5, <2>1, <2>2, <2>3, <2>4, <2>5, Zenon DEF TreeStep
<1> QED
  BY <1>5, <1>6, <1>7, <1>8, Zenon

\* The root node of tree r is copied to block n.
RootStep(r, n) ==
    /\ r \in Roots /\ n \in Blocks
    /\ n \notin Durable /\ \A p \in Places : At(cache, node, p) # n
    /\ cache' = [cache EXCEPT ![n] = copy_of(node[r])]
    /\ node' = [node EXCEPT ![r] = n]
    /\ dirty' = (dirty \ {node[r]}) \cup {n}
    /\ UNCHANGED <<disk, super, generation>>

\* The cow of a root (the root->node branch of __btrfs_cow_block) replaces the root of
\* one tree and lists the same extents.
LEMMA RootStepIsTreeStep ==
    ASSUME TypeOK, ControlInv, MemInv, SpaceInv,
           NEW r, NEW n, RootStep(r, n)
    PROVE  /\ TreeStep(r, n)
           /\ \A p \in Places : At(cache', node', p) = IF p = r THEN n ELSE At(cache, node, p)
           /\ \A b \in Blocks : Listed(cache', node', b) <=> Listed(cache, node, b)
           /\ cache'[node'["root_tree"]].kid = cache[node["root_tree"]].kid
<1> DEFINE old == node[r]
<1>1. /\ r \in Places /\ r \in Roots /\ n \in Blocks /\ old \in Blocks /\ n # NoBlock
      /\ old = At(cache, node, r) /\ n # old
      /\ \A p \in Places : p # r => At(cache, node, p) # old
      /\ \A q \in Roots : node[q] # n /\ (q # r => node[q] # old)
  BY Basics, PlaceFacts DEF RootStep, MemInv, Where
<1>2. /\ copy_of(old) \in Images /\ copy_of(old).gen = generation
      /\ copy_of(old).written = FALSE /\ copy_of(old).items = cache[old].items
      /\ copy_of(old).kid = cache[old].kid
  BY <1>1, CopyOf, Zenon
<1>3. /\ cache' \in [Blocks -> Images] /\ cache'[n] = copy_of(old)
      /\ \A b \in Blocks \ {n} : cache'[b] = cache[b]
      /\ node' \in [Roots -> Blocks] /\ node'[r] = n
      /\ \A q \in Roots : q # r => node'[q] = node[q]
  BY <1>1, <1>2, Zenon DEF RootStep, TypeOK
<1>4. UNCHANGED <<disk, super, generation>> /\ dirty' = (dirty \ {old}) \cup {n}
      /\ n \notin Durable
  BY Zenon DEF RootStep
<1>5. \A q \in Roots : cache'[node'[q]].kid = cache[node[q]].kid
  BY <1>1, <1>2, <1>3, Basics, Zenon
<1>6. \A p \in Places : At(cache', node', p) = IF p = r THEN n ELSE At(cache, node, p)
  BY <1>1, <1>3, <1>5, PlaceFacts, Zenon DEF At
<1> HIDE DEF old
<1>7. \A b \in Blocks : Listed(cache', node', b) <=> Listed(cache, node, b)
  <2> TAKE b \in Blocks
  <2>1. /\ LeafOf[b] \in Places /\ LeafOf[b] # r
        /\ At(cache, node, LeafOf[b]) \in Blocks \cup {NoBlock}
        /\ At(cache, node, LeafOf[b]) # n
    BY <1>1, Basics, PlaceFacts DEF RootStep
  <2> QED
    BY <2>1, <1>3, <1>6, Zenon DEF Listed
<1>8. TreeStep(r, n)
  <2>1. /\ n \in dirty' /\ dirty' \subseteq Blocks
    BY <1>1, <1>4, Zenon DEF TypeOK
  <2>2. FreshIn(cache', generation, n)
    BY <1>2, <1>3, Zenon DEF FreshIn
  <2>3. ASSUME NEW p \in Places, p # r, At(cache, node, p) \notin dirty' \cup {NoBlock}
        PROVE  /\ At(cache, node, p) \notin dirty
               /\ cache'[At(cache, node, p)] = cache[At(cache, node, p)]
    BY <2>3, <1>1, <1>3, <1>4, Basics, Zenon
  <2>4. \A p \in Places : p # r => At(cache, node, p) # n
    BY Zenon DEF RootStep
  <2> QED
    BY <1>1, <1>2, <1>3, <1>4, <1>6, <2>1, <2>2, <2>3, <2>4, Zenon DEF TreeStep
<1> QED
  BY <1>1, <1>5, <1>6, <1>7, <1>8, PlaceFacts, Zenon

\* split_leaf starts from an empty leaf of this transaction.
LEMMA FreshLeafImage ==
    ASSUME TypeOK, NEW v \in Values \cup {NoValue}
    PROVE  /\ fresh_leaf(v) \in Images /\ fresh_leaf(v).gen = generation
           /\ fresh_leaf(v).written = FALSE /\ fresh_leaf(v).items = {}
           /\ \A q \in Places : fresh_leaf(v).kid[q] = NoPtr
BY DEF fresh_leaf, Images, TypeOK, Ptrs

\* A block of this transaction is changed in place, but for its pointers.
InPlace(b) ==
    /\ b \in Blocks /\ FreshIn(cache, generation, b)
    /\ cache' \in [Blocks -> Images]
    /\ cache'[b].gen = cache[b].gen /\ cache'[b].written = cache[b].written
    /\ \A p \in Places \ {"fs_root", "extent_root"} : cache'[b].kid[p] = cache[b].kid[p]
    /\ \A c \in Blocks : c # b => cache'[c] = cache[c]
    /\ b \in dirty' /\ dirty' \subseteq dirty \cup {b}
    /\ \A p \in Places : At(cache, node, p) \in dirty => At(cache, node, p) \in dirty'
    /\ UNCHANGED <<disk, super, generation, node>>

\* A change of a block that was cowed in this transaction moves no block.
LEMMA InPlaceIsTreeStep ==
    ASSUME TypeOK, ControlInv, MemInv, SpaceInv, NEW b, InPlace(b)
    PROVE  /\ TreeStep("root_tree", node["root_tree"])
           /\ \A p \in Places : At(cache', node', p) = At(cache, node, p)
<1>1. ASSUME NEW p \in Places
      PROVE  At(cache', node', p) = At(cache, node, p)
  <2>1. CASE p \in Roots
    BY <2>1, Zenon DEF At, InPlace
  <2>2. CASE p \notin Roots
    <3>1. RootOf(p) \in Roots /\ node[RootOf(p)] \in Blocks /\ p \notin {"fs_root", "extent_root"}
      BY <2>2, PlaceFacts, Basics, Zenon
    <3>2. cache'[node[RootOf(p)]].kid[p] = cache[node[RootOf(p)]].kid[p]
      BY <3>1, <1>1, Zenon DEF InPlace
    <3> QED
      BY <2>2, <3>2, Zenon DEF At, InPlace
  <2> QED
    BY <2>1, <2>2, Zenon
<1>2. \A p \in Places : At(cache', node', p)
         = IF p = "root_tree" THEN node["root_tree"] ELSE At(cache, node, p)
  BY <1>1, Basics, PlaceFacts, Zenon
<1>3. /\ "root_tree" \in Places /\ node["root_tree"] \in Blocks
      /\ \A p \in Places : p # "root_tree" => At(cache, node, p) # node["root_tree"]
      /\ node["root_tree"] = At(cache, node, "root_tree") /\ node["root_tree"] # NoBlock
  BY Basics, PlaceFacts DEF MemInv, Where
<1>4. \A c \in Blocks : cache'[c].gen = cache[c].gen /\ cache'[c].written = cache[c].written
  BY Zenon DEF InPlace
<1>5. /\ \A c \in dirty' : c \in dirty \/ FreshIn(cache', generation, c)
      /\ dirty' \subseteq Blocks /\ node' \in [Roots -> Blocks]
  BY <1>4, Zenon DEF InPlace, FreshIn, TypeOK
<1>6. \A p \in Places : At(cache, node, p) \notin dirty' \cup {NoBlock}
         => /\ At(cache, node, p) \notin dirty
            /\ cache'[At(cache, node, p)] = cache[At(cache, node, p)]
  BY Basics, Zenon DEF InPlace
<1> QED
  BY <1>1, <1>2, <1>3, <1>4, <1>5, <1>6, Zenon DEF TreeStep, InPlace

\* A change in place that leaves the items of a leaf lists the same extents.
LEMMA InPlaceLists ==
    ASSUME TypeOK, ControlInv, MemInv, SpaceInv, NEW b, InPlace(b),
           cache'[b].items = cache[b].items
    PROVE  \A c \in Blocks : Listed(cache', node', c) <=> Listed(cache, node, c)
<1> TAKE c \in Blocks
<1>1. /\ LeafOf[c] \in Places /\ At(cache', node', LeafOf[c]) = At(cache, node, LeafOf[c])
      /\ At(cache, node, LeafOf[c]) \in Blocks \cup {NoBlock}
  BY InPlaceIsTreeStep, PlaceFacts, Basics, Zenon
<1>2. \A d \in Blocks : cache'[d].items = cache[d].items
  BY Zenon DEF InPlace
<1> QED
  BY <1>1, <1>2, Zenon DEF Listed

\* A leaf of this transaction gets a new block group item or value, and nothing else.
LeafStep(leaf, u) ==
    /\ InPlace(leaf) /\ leaf # node["root_tree"] /\ Changing
    /\ cache'[leaf].kid = cache[leaf].kid /\ cache'[leaf].items = cache[leaf].items
    /\ cache'[leaf].used = u
    /\ \A b \in Blocks \ {leaf} : cache'[b] = cache[b]
    /\ UNCHANGED <<disk, super, node, commit_root, dirty_roots, free_space_cache,
                   pinned_extents, extent_ins, pending_del, generation, used,
                   bg_dirty, cont, pc, mirror, calls, crashes>>

\* The roots of the committed trees are committed blocks.
LEMMA DurableRoots ==
    ASSUME DiskInv
    PROVE  \A r \in Roots : DiskNode[r] \in Durable /\ DiskNode[r] \in Blocks
<1> TAKE r \in Roots
<1>1. DiskWhere(r) = DiskNode[r] /\ DiskNode[r] \in Blocks
  BY Zenon DEF DiskInv, DiskWhere, At
<1> QED
  BY <1>1, PlaceFacts, Zenon DEF Durable, DiskPlaces

\* The fields of a pending operation.
LEMMA OpType ==
    ASSUME TypeOK
    PROVE  /\ cont.pos \in Places /\ goal.pos \in Places /\ goal.via \in Places
           /\ goal.val \in Values \cup {NoValue}
<1>1. \A o \in Ops : o.pos \in Places /\ o.via \in Places /\ o.val \in Values \cup {NoValue}
  BY Zenon DEF Ops
<1>2. cont \in Ops /\ goal \in Ops
  BY Zenon DEF TypeOK
<1> QED
  BY <1>1, <1>2, Zenon

\* What the proofs use of cardinalities; FiniteSetTheorems shows it.
Counting ==
    \A S \in SUBSET Blocks :
       /\ Cardinality(S) \in Nat
       /\ \A b \in Blocks \ S : Cardinality(S \cup {b}) = Cardinality(S) + 1
       /\ \A b \in S : Cardinality(S \ {b}) = Cardinality(S) - 1

-----------------------------------------------------------------------------
(* What keeps the books in order *)

\* Two places of the trees with roots nd never share a block.
Apart(c, nd) == \A p, q \in Places : At(c, nd, p) = At(c, nd, q)
                                       => p = q \/ At(c, nd, p) = NoBlock

\* The parts of the invariant.
LEMMA Parts ==
    ASSUME IInv
    PROVE  /\ TypeOK /\ ControlInv /\ SuperInv /\ DiskInv /\ MemInv /\ SpaceInv
           /\ FreshInv /\ DirtyInv /\ RootInv
           /\ Apart(cache, node) /\ Apart(disk, DiskNode)
<1>1. /\ TypeOK /\ ControlInv /\ SuperInv /\ DiskInv /\ MemInv /\ SpaceInv
      /\ FreshInv /\ DirtyInv /\ RootInv
  BY Zenon DEF IInv
<1> QED
  BY <1>1, Zenon DEF MemInv, DiskInv, Where, DiskWhere, Apart

\* Root items and roots match after a step on the trees that leaves the root
\* items alone and moves a root only away from the committed one.
LEMMA RootItemsKept ==
    ASSUME IInv, RootItemInv, NEW x, NEW n, TreeStep(x, n), pc' = pc,
           cache'[node'["root_tree"]].kid = cache[node["root_tree"]].kid,
           \A r \in Roots \ {"root_tree"} :
              node'[r] # node[r] => cache[node["root_tree"]].kid[r].blk = DiskNode[r]
    PROVE  RootItemInv'
<1>1. DiskNode' = DiskNode /\ generation' = generation
  BY DiskFrame, Zenon DEF TreeStep
<1>2. ASSUME NEW r \in Roots
      PROVE  \/ node'[r] = node[r] /\ cache'[node'[r]].gen = cache[node[r]].gen
                /\ cache'[node'[r]].written = cache[node[r]].written
             \/ FreshIn(cache', generation, node'[r])
  <2>1. /\ At(cache', node', r) = node'[r] /\ At(cache, node, r) = node[r] /\ r \in Places
        /\ node[r] \in Blocks /\ node'[r] \in Blocks /\ NoBlock \notin Blocks
    BY Parts, Basics, PlaceFacts, Zenon DEF At, TreeStep
  <2>2. CASE node'[r] = node[r]
    BY <2>1, <2>2, Zenon DEF TreeStep, FreshIn
  <2>3. CASE node'[r] # node[r]
    BY <2>1, <2>3, Zenon DEF TreeStep
  <2> QED
    BY <2>2, <2>3, Zenon
<1>3. \A r \in Roots \ {"root_tree"} :
          /\ cache'[node'["root_tree"]].kid[r].blk \in {node'[r], DiskNode[r]}
          /\ node'[r] = DiskNode[r] \/ cache'[node'[r]].gen = generation
          /\ \/ node'[r] = DiskNode[r] \/ FreshIn(cache', generation, node'[r])
             \/ pc \in {"write_blocks", "write_super"}
  BY <1>2, Zenon DEF RootItemInv, Fresh, FreshIn
<1>4. /\ pc = "update_root" => cache'[node'["fs_root"]].gen = generation
      /\ pc \in {"write_blocks", "write_super"} => cache'[node'["root_tree"]].gen = generation
  BY <1>2, PlaceFacts, Zenon DEF RootItemInv, FreshIn
<1> QED
  BY <1>1, <1>3, <1>4, Zenon DEF RootItemInv, Fresh

\* A free block has no extent item and none is queued for it.
LEMMA FreeUncovered ==
    ASSUME IInv, ItemInv, NEW b \in Blocks, b \in free_space_cache
    PROVE  ~Covered(b)
<1>1. SpaceInv
  BY Parts, Zenon
<1> QED
  BY <1>1, Zenon DEF ItemInv, Owned, SpaceInv

\* The counters stay right when no extent item and not the block group item changes, and
\* the extent tree is on the list of dirty roots if its root becomes writable.
LEMMA CountKept ==
    ASSUME CountInv, UNCHANGED <<used, bg_dirty, pc>>,
           item'.op = "bg" <=> item.op = "bg",
           \A b \in Blocks : Listed(cache', node', b) <=> Listed(cache, node, b),
           cache'[At(cache', node', BgLeaf)].used = cache[At(cache, node, BgLeaf)].used,
           \/ "extent_root" \in dirty_roots'
           \/ dirty_roots' = dirty_roots /\ (Fresh(node["extent_root"])' => Fresh(node["extent_root"]))
    PROVE  CountInv'
<1>1. ListedBlocks(cache', node') = ListedBlocks(cache, node)
  BY Zenon DEF ListedBlocks
<1> QED
  BY <1>1, Zenon DEF CountInv, Where

\* A step on the trees that moves another place leaves the root of the extent tree as it is.
LEMMA ExtentRootKept ==
    ASSUME IInv, NEW x, NEW n, TreeStep(x, n), x # "extent_root"
    PROVE  /\ node'["extent_root"] = node["extent_root"]
           /\ Fresh(node["extent_root"])' <=> Fresh(node["extent_root"])
<1>1. /\ At(cache', node', "extent_root") = node'["extent_root"]
      /\ At(cache, node, "extent_root") = node["extent_root"] /\ "extent_root" \in Places
      /\ node["extent_root"] \in Blocks /\ NoBlock \notin Blocks
  BY Parts, Basics, PlaceFacts, Zenon DEF At
<1>2. node'["extent_root"] = node["extent_root"] /\ (n # NoBlock => n # node["extent_root"])
  BY <1>1, Zenon DEF TreeStep
<1> QED
  BY <1>1, <1>2, Zenon DEF TreeStep, Fresh, FreshIn

\* The committed trees stay clean as long as neither blocks nor super blocks are written.
LEMMA DiskKept ==
    ASSUME DiskOK, UNCHANGED <<disk, super>>
    PROVE  DiskOK'
<1>1. Newest' = Newest /\ DiskNode' = DiskNode /\ disk' = disk
  BY DiskFrame, Zenon
<1> QED
  BY <1>1, Zenon DEF DiskOK

\* Items and uses match after a step that moves nothing and leaves the queues alone.
LEMMA ItemsKept ==
    ASSUME IInv, ItemInv,
           \A p \in Places : At(cache', node', p) = At(cache, node, p),
           \A b \in Blocks : Listed(cache', node', b) <=> Listed(cache, node, b),
           UNCHANGED <<free_space_cache, pinned_extents, extent_ins, pending_del, cont>>,
           item' = item \/ (item.op \notin {"ins", "del"} /\ item'.op \notin {"ins", "del"}),
           pc' = "idle" => pc = "idle"
    PROVE  ItemInv'
<1>1. /\ extent_ins \subseteq Blocks /\ pending_del \subseteq Blocks
      /\ item.op \in {"ins", "del"} => item.blk \in Blocks
  BY Parts, Zenon DEF TypeOK, ControlInv
<1>2. \A b \in Blocks : (Covered(b)' <=> Covered(b)) /\ (Owned(b)' <=> Owned(b))
  <2>1. CASE item' = item
    BY <2>1, Zenon DEF Covered, Owned, Where
  <2>2. CASE item.op \notin {"ins", "del"} /\ item'.op \notin {"ins", "del"}
    BY <2>2, Zenon DEF Covered, Owned, Where
  <2> QED
    BY <2>1, <2>2, Zenon
<1>3. /\ item'.op = "del" => Listed(cache', node', item'.blk)
      /\ item'.op = "ins" => ~Listed(cache', node', item'.blk)
      /\ \A b \in extent_ins' : ~Listed(cache', node', b)
  BY <1>1, Zenon DEF ItemInv
<1> QED
  BY <1>1, <1>2, <1>3, Zenon DEF ItemInv

\* Root items after a step that leaves trees and device alone and goes on to phase pc'.
LEMMA RootItemsControl ==
    ASSUME IInv, RootItemInv, UNCHANGED <<disk, super, cache, node, generation>>,
           pc \in {"write_blocks", "write_super"} => pc' \in {"write_blocks", "write_super"},
           pc' = "run" => pc = "run",
           pc' = "update_root" => pc = "update_root" \/ cache[node["fs_root"]].gen = generation,
           pc' \in {"write_blocks", "write_super"}
              => pc \in {"write_blocks", "write_super"} \/ cache[node["root_tree"]].gen = generation
    PROVE  RootItemInv'
<1>1. DiskNode' = DiskNode
  BY DiskFrame, Zenon
<1>2. \A r \in Roots \ {"root_tree"} : Fresh(node[r])' <=> Fresh(node[r])
  BY Zenon DEF Fresh
<1> QED
  BY <1>1, <1>2, Zenon DEF RootItemInv

\* What is left to show for a step that changes control variables only.
LEMMA ControlFsck ==
    ASSUME FsckInv, IInv',
           UNCHANGED <<disk, super, cache, node, free_space_cache, pinned_extents,
                       extent_ins, pending_del, cont>>,
           item' = item \/ (item.op \notin {"ins", "del"} /\ item'.op \notin {"ins", "del"}),
           pc' = "idle" => pc = "idle", RootItemInv', CountInv'
    PROVE  FsckInv'
<1>1. IInv /\ TreeOK(cache, node) /\ ItemInv /\ DiskOK
  BY Zenon DEF FsckInv
<1>2. TreeOK(cache', node') /\ DiskOK'
  BY <1>1, DiskKept, Zenon
<1>3. ItemInv'
  BY <1>1, ItemsKept, Zenon
<1> QED
  BY <1>2, <1>3, Zenon DEF FsckInv

-----------------------------------------------------------------------------
(* What keeps the allocator and the trees in memory in order *)

\* Where blocks lie, and which are clean, after such a step.
LEMMA TreeStepMem ==
    ASSUME TypeOK, ControlInv, MemInv, SpaceInv, NEW x, NEW n, TreeStep(x, n)
    PROVE  /\ At(cache', node', BgLeaf) # NoBlock
           /\ \A p, q \in Places : At(cache', node', p) = At(cache', node', q)
                                     => p = q \/ At(cache', node', p) = NoBlock
           /\ \A p \in Places : At(cache', node', p) \notin dirty' \cup {NoBlock}
                 => cache'[At(cache', node', p)] = disk'[At(cache', node', p)]
<1>1. At(cache', node', BgLeaf) # NoBlock
  BY PlaceFacts, Zenon DEF TreeStep, MemInv, Where
<1>2. \A p, q \in Places : At(cache', node', p) = At(cache', node', q)
                              => p = q \/ At(cache', node', p) = NoBlock
  BY DEF TreeStep, MemInv, Where
<1>3. ASSUME NEW p \in Places, At(cache', node', p) \notin dirty' \cup {NoBlock}
      PROVE  cache'[At(cache', node', p)] = disk'[At(cache', node', p)]
  <2>1. /\ At(cache', node', p) = At(cache, node, p)
        /\ At(cache, node, p) \notin dirty
        /\ cache'[At(cache, node, p)] = cache[At(cache, node, p)]
    BY <1>3, Zenon DEF TreeStep
  <2>2. cache[At(cache, node, p)] = disk[At(cache, node, p)]
    BY <1>3, <2>1, Zenon DEF MemInv, Where
  <2> QED
    BY <2>1, <2>2, Zenon DEF TreeStep
<1> QED
  BY <1>1, <1>2, <1>3, Zenon

\* Copies of this transaction stay writable, and none is in the committed trees.
LEMMA TreeStepFresh ==
    ASSUME TypeOK, ControlInv, MemInv, SpaceInv, FreshInv, DirtyInv, Changing,
           NEW x, NEW n, TreeStep(x, n),
           cont' = NoOp \/ (cont' = cont /\ goal' = goal),
           pc' \in {"dirty_roots", "write_bgs", "root_item"}
             => pc \in {"dirty_roots", "write_bgs", "root_item"} \/ Fresh(node["root_tree"])
    PROVE  FreshInv' /\ DirtyInv'
<1>1. Durable' = Durable
  BY DiskFrame, Zenon DEF TreeStep
<1>2. \A b \in Blocks : FreshIn(cache', generation, b)
                           => FreshIn(cache, generation, b) \/ b \notin Durable
  BY Zenon DEF TreeStep, FreshIn
<1>3. \A b \in Blocks : FreshIn(cache, generation, b) => FreshIn(cache', generation, b)
  BY Zenon DEF TreeStep, FreshIn
<1>4. \A b \in Blocks : FreshIn(cache', generation, b) => b \notin Durable
  BY <1>2, Zenon DEF FreshInv, Fresh
<1>5. \A r \in Roots : FreshIn(cache, generation, node[r])
                          => FreshIn(cache', generation, node'[r])
  <2> SUFFICES ASSUME NEW r \in Roots, FreshIn(cache, generation, node[r])
               PROVE  FreshIn(cache', generation, node'[r])
    BY Zenon
  <2>1. At(cache', node', r) = node'[r] /\ At(cache, node, r) = node[r] /\ r \in Places
    BY PlaceFacts, Zenon DEF At
  <2>2. node[r] \in Blocks /\ node'[r] \in Blocks /\ NoBlock \notin Blocks
    BY Basics, PlaceFacts, Zenon DEF TreeStep
  <2>3. CASE r = x
    BY <1>3, <2>1, <2>2, <2>3, Zenon DEF TreeStep
  <2>4. CASE r # x
    BY <1>3, <2>1, <2>2, <2>4, Zenon DEF TreeStep
  <2> QED
    BY <2>3, <2>4, Zenon
<1>6. /\ cont'.op = "attach" /\ cont'.pos \notin Roots
           => FreshIn(cache', generation, node'[RootOf(cont'.pos)])
      /\ cont'.op = "link" => FreshIn(cache', generation, node'["fs_root"])
      /\ pc' \in {"dirty_roots", "write_bgs", "root_item"}
           => FreshIn(cache', generation, node'["root_tree"])
  BY <1>5, PlaceFacts DEF FreshInv, Fresh, NoOp, TypeOK, Ops
<1>7. cont'.op = "link" => FreshIn(cache', generation, At(cache', node', goal'.via))
  <2> SUFFICES ASSUME cont'.op = "link"
               PROVE  FreshIn(cache', generation, At(cache', node', goal'.via))
    BY Zenon
  <2>1. /\ cont' = cont /\ goal' = goal /\ goal.op = "new"
        /\ goal.via \in Places /\ goal.via \notin ExtLeaves
    BY PlaceFacts, CowAssumption DEF NoOp, ControlInv
  <2>2. At(cache, node, goal.via) \in Blocks /\ FreshIn(cache, generation, At(cache, node, goal.via))
    BY <2>1, Basics, Zenon DEF FreshInv, Fresh, Where, MemInv
  <2>3. CASE goal.via = x
    BY <2>1, <2>2, <2>3, <1>3 DEF TreeStep, NoOp
  <2>4. CASE goal.via # x
    BY <2>1, <2>2, <2>4, <1>3, Zenon DEF TreeStep
  <2> QED
    BY <2>3, <2>4, Zenon
<1>8. \A b \in Blocks : cache'[b].written \/ cache'[b].gen <= generation
  BY DEF TreeStep, FreshInv, TypeOK
<1>9. FreshInv'
  BY <1>1, <1>4, <1>6, <1>7, <1>8, Zenon DEF FreshInv, Fresh, Where, TreeStep
<1>10. DirtyInv'
  BY <1>1, <1>4, Zenon DEF DirtyInv, TreeStep
<1> QED
  BY <1>9, <1>10, Zenon

\* What is left to show for an action that is a tree step.
LEMMA TreeStepInv ==
    ASSUME TypeOK, ControlInv, SuperInv, DiskInv, MemInv, SpaceInv, FreshInv,
           DirtyInv, RootInv, Changing, NEW x, NEW n, TreeStep(x, n),
           cont' = NoOp \/ (cont' = cont /\ goal' = goal),
           pc' \in {"dirty_roots", "write_bgs", "root_item"}
             => pc \in {"dirty_roots", "write_bgs", "root_item"} \/ Fresh(node["root_tree"]),
           \/ goal' = NoOp
           \/ goal' = goal /\ x # goal.pos /\ (n = NoBlock => x # goal.via)
           \/ goal' = goal /\ n # NoBlock /\ At(cache, node, x) # NoBlock
           \/ /\ n = At(cache, node, x)
              /\ goal'.op # "none" => At(cache, node, goal'.via) # NoBlock
              /\ goal'.op = "new" => At(cache, node, goal'.pos) = NoBlock,
           (\A p \in Places : Where(p) # NoBlock => Covered(Where(p)))',
           (cont.op # "none" => Covered(cont.blk))',
           TypeOK', ControlInv', SpaceInv', RootInv'
    PROVE  IInv'
<1>1. SuperInv' /\ DiskInv'
  BY DiskFrame, Zenon DEF TreeStep
<1>2. FreshInv' /\ DirtyInv'
  BY TreeStepFresh, Zenon
<1>3. goal'.op # "none" => At(cache', node', goal'.via) # NoBlock
  BY SMTT(30) DEF TreeStep, MemInv, Where, NoOp, TypeOK, Ops
<1>4. goal'.op = "new" => At(cache', node', goal'.pos) = NoBlock
  BY DEF TreeStep, MemInv, Where, NoOp, TypeOK, Ops
<1>5. MemInv'
  BY <1>3, <1>4, TreeStepMem, Zenon DEF MemInv, Where
<1> QED
  BY <1>1, <1>2, <1>5, Zenon DEF IInv

\* Steps that neither move a place nor touch the allocator's sets.
LEMMA QuietStep ==
    ASSUME TypeOK, ControlInv, SuperInv, DiskInv, MemInv, SpaceInv, FreshInv,
           DirtyInv, RootInv, Changing,
           TreeStep("root_tree", node["root_tree"]),
           \A p \in Places : At(cache', node', p) = At(cache, node, p),
           \A b \in Blocks : Listed(cache', node', b) <=> Listed(cache, node, b),
           UNCHANGED <<free_space_cache, pinned_extents, extent_ins, pending_del, cont>>,
           item' = item \/ (item.op \notin {"ins", "del"} /\ item'.op \notin {"ins", "del"}),
           cont = NoOp \/ goal' = goal,
           goal'.op # "none" => At(cache, node, goal'.via) # NoBlock,
           goal'.op = "new" => At(cache, node, goal'.pos) = NoBlock,
           pc' \in {"dirty_roots", "write_bgs", "root_item"}
             => pc \in {"dirty_roots", "write_bgs", "root_item"} \/ Fresh(node["root_tree"]),
           TypeOK', ControlInv', RootInv'
    PROVE  IInv'
<1>1. (\A p \in Places : Where(p) # NoBlock => Covered(Where(p)))'
  <2> SUFFICES ASSUME NEW p \in Places, At(cache', node', p) # NoBlock
               PROVE  Covered(Where(p))'
    BY Zenon DEF Where
  <2>1. At(cache', node', p) = At(cache, node, p) /\ At(cache, node, p) \in Blocks
    BY Basics, Zenon
  <2>2. Covered(At(cache, node, p))
    BY <2>1, PlaceFacts, Zenon DEF MemInv, Where
  <2> QED
    BY <2>1, <2>2, Zenon DEF Covered, Where
<1>2. (cont.op # "none" => Covered(cont.blk))'
  BY Zenon DEF Covered, ControlInv, MemInv
<1>3. SpaceInv'
  <2>1. Durable' = Durable
    BY DiskFrame, Zenon DEF TreeStep
  <2>2. item'.op = "del" => item' = item
    BY Zenon
  <2> QED
    BY <2>1, <2>2, Zenon DEF SpaceInv, Where
<1>4. node["root_tree"] = At(cache, node, "root_tree")
  BY Basics, PlaceFacts, Zenon
<1> QED
  BY <1>1, <1>2, <1>3, <1>4, TreeStepInv, Zenon

\* Steps that leave the trees alone.
LEMMA NoTreeStep ==
    ASSUME TypeOK, ControlInv, MemInv, SpaceInv,
           UNCHANGED <<disk, super, cache, node, dirty, generation>>
    PROVE  /\ TreeStep("root_tree", node["root_tree"])
           /\ \A p \in Places : At(cache', node', p) = At(cache, node, p)
           /\ \A b \in Blocks : Listed(cache', node', b) <=> Listed(cache, node, b)
<1>1. /\ "root_tree" \in Places /\ node["root_tree"] \in Blocks
      /\ \A p \in Places : p # "root_tree" => At(cache, node, p) # node["root_tree"]
      /\ node["root_tree"] = At(cache, node, "root_tree") /\ node["root_tree"] # NoBlock
  BY Basics, PlaceFacts DEF MemInv, Where
<1> QED
  BY <1>1, Zenon DEF TreeStep, TypeOK

\* Steps that touch neither trees, device nor queues.
LEMMA MemFrame ==
    ASSUME UNCHANGED <<disk, cache, node, dirty, extent_ins, item, cont, goal>>, MemInv
    PROVE  MemInv'
<1>1. \A p : At(cache', node', p) = At(cache, node, p)
  BY Zenon
<1> QED
  BY Zenon DEF MemInv, Where, Covered

\* The space invariant depends on the trees, the allocator and the durable blocks only.
LEMMA SpaceFrame ==
    ASSUME UNCHANGED <<cache, node, free_space_cache, pinned_extents, pending_del, item, cont>>,
           Durable' = Durable, SpaceInv
    PROVE  SpaceInv'
BY Zenon DEF SpaceInv, Where

-----------------------------------------------------------------------------
(* Well-formed trees stay well formed *)

\* Place x, below the root block m, is held by n of generation g afterwards.
LinkedAt(c, d, nd, x, n, g) ==
    LET m == nd[RootOf(x)] IN
    /\ c \in [Blocks -> Images] /\ d \in [Blocks -> Images] /\ nd \in [Roots -> Blocks]
    /\ x \in Places \ Roots /\ n \in Blocks
    /\ \A p \in Places : At(c, nd, p) # n
    /\ \A p \in Places : At(d, nd, p) = IF p = x THEN n ELSE At(c, nd, p)
    /\ d[n].gen = g /\ \A q \in Places : d[n].kid[q] = NoPtr
    /\ d[n].items = IF At(c, nd, x) = NoBlock THEN {} ELSE c[At(c, nd, x)].items
    /\ d[m].gen = c[m].gen /\ d[m].items = c[m].items
    /\ d[m].kid = [c[m].kid EXCEPT ![x] = [blk |-> n, gen |-> g]]
    /\ \A b \in Blocks \ {n, m} : d[b] = c[b]

\* Blocks of the places other than x and its root do not change.
LEMMA LinkedFrame ==
    ASSUME NEW c, NEW d, NEW nd, NEW x, NEW n, NEW g,
           LinkedAt(c, d, nd, x, n, g), Apart(c, nd)
    PROVE  /\ RootOf(x) \in Roots /\ RootOf(x) # "root_tree"
           /\ \A p \in Places : At(c, nd, p) \in Blocks \cup {NoBlock}
           /\ \A r \in Roots : At(c, nd, r) = nd[r] /\ nd[r] \in Blocks /\ nd[r] # n
           /\ \A p \in Places \ {x, RootOf(x)} : At(c, nd, p) # NoBlock
                 => d[At(c, nd, p)] = c[At(c, nd, p)]
           /\ \A q \in Places \ {x} : d[nd[RootOf(x)]].kid[q] = c[nd[RootOf(x)]].kid[q]
           /\ d[nd[RootOf(x)]].kid[x] = [blk |-> n, gen |-> g]
<1> USE DEF LinkedAt
<1>1. RootOf(x) \in Roots /\ RootOf(x) # "root_tree" /\ x \in Places
  BY PlaceFacts, Zenon DEF Places
<1>2. \A p \in Places : At(c, nd, p) \in Blocks \cup {NoBlock}
  BY AtType, Zenon
<1>3. \A r \in Roots : At(c, nd, r) = nd[r] /\ nd[r] \in Blocks /\ nd[r] # n /\ r \in Places
  BY PlaceFacts, Zenon DEF At
<1>4. ASSUME NEW p \in Places \ {x, RootOf(x)}, At(c, nd, p) # NoBlock
      PROVE  d[At(c, nd, p)] = c[At(c, nd, p)]
  <2>1. At(c, nd, p) \in Blocks /\ At(c, nd, p) # n
    BY <1>2, <1>4, Zenon
  <2>2. At(c, nd, p) # nd[RootOf(x)]
    BY <1>1, <1>3, <1>4, Zenon DEF Apart
  <2> QED
    BY <2>1, <2>2, Zenon
<1>5. c[nd[RootOf(x)]].kid \in [Places -> Ptrs]
  BY <1>1, Zenon DEF Images
<1> QED
  BY <1>1, <1>2, <1>3, <1>4, <1>5, Zenon

\* The block of a leaf other than x does not change.
LEMMA LinkedLeaf ==
    ASSUME NEW c, NEW d, NEW nd, NEW x, NEW n, NEW g,
           LinkedAt(c, d, nd, x, n, g), Apart(c, nd),
           NEW p \in Places \ Roots, p # x, At(c, nd, p) # NoBlock
    PROVE  d[At(c, nd, p)] = c[At(c, nd, p)]
<1>1. RootOf(x) \in Roots /\ RootOf(x) \in Places
  BY PlaceFacts, Zenon DEF LinkedAt
<1>2. At(c, nd, p) \in Blocks /\ At(c, nd, p) # n
  BY AtType, Zenon DEF LinkedAt
<1>3. At(c, nd, p) # nd[RootOf(x)]
  BY <1>1, Zenon DEF Apart, At
<1> QED
  BY <1>2, <1>3, Zenon DEF LinkedAt

\* Linking a copy or a new leaf below its root keeps the trees well formed.
LEMMA LinkedTree ==
    ASSUME NEW c, NEW d, NEW nd, NEW x, NEW n, NEW g,
           LinkedAt(c, d, nd, x, n, g), Apart(c, nd), TreeOK(c, nd)
    PROVE  TreeOK(d, nd)
<1> DEFINE m == nd[RootOf(x)]
<1>1. /\ RootOf(x) \in Roots /\ RootOf(x) # "root_tree" /\ x \in Places /\ x \notin Roots
      /\ \A p \in Places : At(d, nd, p) = IF p = x THEN n ELSE At(c, nd, p)
      /\ \A r \in Roots : At(c, nd, r) = nd[r] /\ nd[r] \in Blocks /\ nd[r] # n
      /\ \A p \in Places \ {x, RootOf(x)} : At(c, nd, p) # NoBlock
                 => d[At(c, nd, p)] = c[At(c, nd, p)]
      /\ \A q \in Places \ {x} : d[m].kid[q] = c[m].kid[q]
      /\ d[m].kid[x] = [blk |-> n, gen |-> g]
      /\ d[m].gen = c[m].gen /\ d[n].gen = g /\ \A q \in Places : d[n].kid[q] = NoPtr
  <2>1. /\ x \in Places /\ x \notin Roots
        /\ \A p \in Places : At(d, nd, p) = IF p = x THEN n ELSE At(c, nd, p)
        /\ d[m].gen = c[m].gen /\ d[n].gen = g /\ \A q \in Places : d[n].kid[q] = NoPtr
    BY Zenon DEF LinkedAt
  <2> QED
    BY <2>1, LinkedFrame
<1>2. NoBlock \notin Blocks /\ \A r \in Roots : r \in Places
  BY PlaceFacts, Zenon
<1>3. ASSUME NEW p \in Places, NEW q \in Places, At(d, nd, p) # NoBlock, ~ChildOf(p, q)
      PROVE  d[At(d, nd, p)].kid[q] = NoPtr
  <2>1. CASE p = x
    BY <2>1, <1>1, Zenon
  <2>2. CASE p = RootOf(x)
    <3>1. q # x
      BY <1>1, <1>3, <2>2, Zenon DEF ChildOf
    <3>2. At(c, nd, p) = m /\ At(d, nd, p) = m /\ p # x
      BY <1>1, <2>2, Zenon
    <3>3. c[m].kid[q] = NoPtr
      BY <1>3, <3>2, Zenon DEF TreeOK
    <3> QED
      BY <1>1, <3>1, <3>2, <3>3, Zenon
  <2>3. CASE p \notin {x, RootOf(x)}
    BY <1>1, <1>3, <2>3 DEF TreeOK
  <2> QED
    BY <2>1, <2>2, <2>3, Zenon
<1>4. ASSUME NEW q \in Places \ Roots, At(d, nd, q) # NoBlock
      PROVE  d[nd[RootOf(q)]].kid[q].gen = d[At(d, nd, q)].gen
  <2>1. CASE q = x
    BY <2>1, <1>1
  <2>2. CASE q # x
    <3>1. q # RootOf(x) /\ At(d, nd, q) = At(c, nd, q) /\ RootOf(q) \in Roots
      BY <1>1, <2>2, PlaceFacts, Zenon
    <3>2. d[At(d, nd, q)].gen = c[At(c, nd, q)].gen
      BY <1>1, <1>4, <2>2, <3>1, Zenon
    <3>3. d[nd[RootOf(q)]].kid[q] = c[nd[RootOf(q)]].kid[q]
      <4>1. CASE RootOf(q) = RootOf(x)
        BY <4>1, <1>1, <2>2, Zenon
      <4>2. CASE RootOf(q) # RootOf(x)
        <5>1. /\ RootOf(q) \in Places \ {x, RootOf(x)}
              /\ At(c, nd, RootOf(q)) = nd[RootOf(q)] /\ nd[RootOf(q)] # NoBlock
          BY <4>2, <1>1, <1>2, <3>1, Zenon
        <5> QED
          BY <5>1, <1>1, Zenon
      <4> QED
        BY <4>1, <4>2, Zenon
    <3> QED
      BY <3>1, <3>2, <3>3, <1>4, Zenon DEF TreeOK
  <2> QED
    BY <2>1, <2>2, Zenon
<1>5. ASSUME NEW r \in Roots \ {"root_tree"}, d[nd["root_tree"]].kid[r].blk = nd[r]
      PROVE  d[nd["root_tree"]].kid[r].gen = d[nd[r]].gen
  <2>1. d[nd["root_tree"]] = c[nd["root_tree"]]
    <3>1. /\ "root_tree" \in Places \ {x, RootOf(x)}
          /\ At(c, nd, "root_tree") = nd["root_tree"] /\ nd["root_tree"] # NoBlock
      BY <1>1, <1>2, PlaceFacts
    <3> QED
      BY <3>1, <1>1, Zenon
  <2>2. d[nd[r]].gen = c[nd[r]].gen
    <3>1. CASE r = RootOf(x)
      BY <3>1, <1>1, Zenon
    <3>2. CASE r # RootOf(x)
      <4>1. r \in Places \ {x, RootOf(x)} /\ At(c, nd, r) = nd[r] /\ nd[r] # NoBlock
        BY <3>2, <1>1, <1>2, Zenon
      <4> QED
        BY <4>1, <1>1, Zenon
    <3> QED
      BY <3>1, <3>2, Zenon
  <2> QED
    BY <1>5, <2>1, <2>2, Zenon DEF TreeOK
<1>6. ASSUME NEW q \in ExtLeaves, At(d, nd, q) # NoBlock,
             NEW b \in d[At(d, nd, q)].items
      PROVE  LeafOf[b] = q
  <2>1. q \in Places /\ q \notin Roots
    BY PlaceFacts, Zenon
  <2>2. CASE q = x
    <3>1. At(d, nd, q) = n /\ b \in d[n].items
      BY <1>1, <1>6, <2>1, <2>2, Zenon
    <3>2. d[n].items = IF At(c, nd, x) = NoBlock THEN {} ELSE c[At(c, nd, x)].items
      BY Zenon DEF LinkedAt
    <3>3. At(c, nd, q) # NoBlock /\ b \in c[At(c, nd, q)].items
      BY <2>2, <3>1, <3>2, Zenon
    <3> QED
      BY <3>3, Zenon DEF TreeOK
  <2>3. CASE q # x
    BY <1>1, <1>6, <2>1, <2>3 DEF TreeOK
  <2> QED
    BY <2>2, <2>3, Zenon
<1> QED
  BY <1>3, <1>4, <1>5, <1>6, Zenon DEF TreeOK

\* The root of tree r is held by n afterwards, with the pointers it had.
RootMovedAt(c, d, nd, ne, r, n) ==
    /\ c \in [Blocks -> Images] /\ d \in [Blocks -> Images]
    /\ nd \in [Roots -> Blocks] /\ ne \in [Roots -> Blocks]
    /\ r \in Roots /\ n \in Blocks
    /\ \A p \in Places : At(c, nd, p) # n
    /\ \A p \in Places : At(d, ne, p) = IF p = r THEN n ELSE At(c, nd, p)
    /\ ne[r] = n /\ \A q \in Roots : q # r => ne[q] = nd[q]
    /\ d[n].kid = c[nd[r]].kid
    /\ \A b \in Blocks \ {n} : d[b] = c[b]
    /\ r # "root_tree" => c[nd["root_tree"]].kid[r].blk # n

\* Copying a root keeps the trees well formed.
LEMMA RootMovedTree ==
    ASSUME NEW c, NEW d, NEW nd, NEW ne, NEW r, NEW n,
           RootMovedAt(c, d, nd, ne, r, n), TreeOK(c, nd)
    PROVE  TreeOK(d, ne)
<1>1. /\ r \in Roots /\ n \in Blocks /\ NoBlock \notin Blocks
      /\ \A p \in Places : At(c, nd, p) # n /\ At(c, nd, p) \in Blocks \cup {NoBlock}
      /\ \A p \in Places : At(d, ne, p) = IF p = r THEN n ELSE At(c, nd, p)
      /\ \A q \in Roots : At(c, nd, q) = nd[q] /\ q \in Places /\ nd[q] \in Blocks
                          /\ At(d, ne, q) = ne[q]
      /\ ne[r] = n /\ \A q \in Roots : q # r => ne[q] = nd[q]
  BY AtType, PlaceFacts, Zenon DEF RootMovedAt, At
<1>2. \A q \in Roots : d[ne[q]].kid = c[nd[q]].kid
  BY <1>1 DEF RootMovedAt
<1>3. \A p \in Places : p # r /\ At(c, nd, p) # NoBlock
          => At(d, ne, p) = At(c, nd, p) /\ d[At(d, ne, p)] = c[At(c, nd, p)]
  BY <1>1, Zenon DEF RootMovedAt
<1>4. ASSUME NEW p \in Places, NEW q \in Places, At(d, ne, p) # NoBlock, ~ChildOf(p, q)
      PROVE  d[At(d, ne, p)].kid[q] = NoPtr
  <2>1. CASE p = r
    <3>1. At(d, ne, p) = ne[r] /\ At(c, nd, p) = nd[r] /\ nd[r] # NoBlock
      BY <1>1, <2>1, Zenon
    <3>2. c[nd[r]].kid[q] = NoPtr
      BY <1>4, <3>1, Zenon DEF TreeOK
    <3> QED
      BY <1>1, <1>2, <3>1, <3>2, Zenon
  <2>2. CASE p # r
    BY <1>1, <1>3, <1>4, <2>2 DEF TreeOK
  <2> QED
    BY <2>1, <2>2, Zenon
<1>5. ASSUME NEW q \in Places \ Roots, At(d, ne, q) # NoBlock
      PROVE  d[ne[RootOf(q)]].kid[q].gen = d[At(d, ne, q)].gen
  <2>1. q # r /\ RootOf(q) \in Roots
    BY <1>1, PlaceFacts, Zenon
  <2>2. At(c, nd, q) # NoBlock /\ d[At(d, ne, q)] = c[At(c, nd, q)]
    BY <1>1, <1>3, <1>5, <2>1, Zenon
  <2> QED
    BY <1>2, <2>1, <2>2, Zenon DEF TreeOK
<1>6. ASSUME NEW s \in Roots \ {"root_tree"}, d[ne["root_tree"]].kid[s].blk = ne[s]
      PROVE  d[ne["root_tree"]].kid[s].gen = d[ne[s]].gen
  <2>1. d[ne["root_tree"]].kid = c[nd["root_tree"]].kid
    BY <1>2, PlaceFacts, Zenon
  <2>2. s # r
    BY <1>1, <1>6, <2>1, Zenon DEF RootMovedAt
  <2>3. ne[s] = nd[s] /\ d[ne[s]] = c[nd[s]]
    BY <1>1, <1>3, <2>2
  <2> QED
    BY <1>6, <2>1, <2>3, Zenon DEF TreeOK
<1>7. ASSUME NEW q \in ExtLeaves, At(d, ne, q) # NoBlock
      PROVE  \A b \in d[At(d, ne, q)].items : LeafOf[b] = q
  BY <1>1, <1>3, <1>7, PlaceFacts DEF TreeOK
<1> QED
  BY <1>4, <1>5, <1>6, <1>7, Zenon DEF TreeOK

\* Headers keep their generation, and pointers change at most at x below m.
PointerStep(c, d, nd, m, x, k) ==
    /\ c \in [Blocks -> Images] /\ d \in [Blocks -> Images] /\ nd \in [Roots -> Blocks]
    /\ m \in Blocks /\ x \in Places /\ k \in Ptrs
    /\ \A b \in Blocks : d[b].gen = c[b].gen
    /\ \A b \in Blocks : d[b].kid = IF b = m THEN [c[b].kid EXCEPT ![x] = k] ELSE c[b].kid
    /\ \A q \in ExtLeaves : At(d, nd, q) # NoBlock
          => \A b \in d[At(d, nd, q)].items : LeafOf[b] = q

\* What such a step leaves of the pointers.
LEMMA PointerStepKids ==
    ASSUME NEW c, NEW d, NEW nd, NEW m, NEW x, NEW k, PointerStep(c, d, nd, m, x, k)
    PROVE  \A b \in Blocks : \A q \in Places :
              d[b].kid[q] = IF b = m /\ q = x THEN k ELSE c[b].kid[q]
<1> TAKE b \in Blocks
<1> TAKE q \in Places
<1>1. c[b].kid \in [Places -> Ptrs]
  BY Zenon DEF PointerStep, Images
<1> QED
  BY <1>1, Zenon DEF PointerStep

\* Dropping the pointer to a leaf, or changing no pointer, keeps the trees well
\* formed.
LEMMA UnlinkedTree ==
    ASSUME NEW c, NEW d, NEW nd, NEW m, NEW x, NEW k, PointerStep(c, d, nd, m, x, k),
           TreeOK(c, nd), x \notin Roots, k \in {NoPtr, c[m].kid[x]}
    PROVE  TreeOK(d, nd)
<1> DEFINE K(b, q) == d[b].kid[q] = c[b].kid[q] \/ (d[b].kid[q] = NoPtr /\ q \notin Roots)
<1>1. \A b \in Blocks : \A q \in Places : K(b, q)
  BY PointerStepKids
<1>2. \A p \in Places : At(c, nd, p) \in Blocks \cup {NoBlock} /\ At(d, nd, p) \in Blocks \cup {NoBlock}
  BY AtType, Zenon DEF PointerStep
<1>3. NoPtr.blk = NoBlock /\ NoBlock \notin Blocks
      /\ \A r \in Roots : nd[r] \in Blocks /\ r \in Places
  BY PlaceFacts, Zenon DEF NoPtr, PointerStep
<1>4. \A p \in Places : At(d, nd, p) # NoBlock => At(d, nd, p) = At(c, nd, p)
  <2> TAKE p \in Places
  <2>1. CASE p \in Roots
    BY <2>1, Zenon DEF At
  <2>2. CASE p \notin Roots
    <3>1. nd[RootOf(p)] \in Blocks
      BY <1>3, PlaceFacts, Zenon
    <3> QED
      BY <2>2, <3>1, <1>1, <1>3, Zenon DEF At
  <2> QED
    BY <2>1, <2>2, Zenon
<1>5. \A b \in Blocks : d[b].gen = c[b].gen
  BY Zenon DEF PointerStep
<1>6. ASSUME NEW p \in Places, NEW q \in Places, At(d, nd, p) # NoBlock, ~ChildOf(p, q)
      PROVE  d[At(d, nd, p)].kid[q] = NoPtr
  BY <1>1, <1>2, <1>4, <1>6 DEF TreeOK
<1>7. ASSUME NEW q \in Places \ Roots, At(d, nd, q) # NoBlock
      PROVE  d[nd[RootOf(q)]].kid[q].gen = d[At(d, nd, q)].gen
  <2>1. nd[RootOf(q)] \in Blocks /\ At(d, nd, q) = d[nd[RootOf(q)]].kid[q].blk
    BY <1>3, PlaceFacts, Zenon DEF At
  <2>2. d[nd[RootOf(q)]].kid[q] = c[nd[RootOf(q)]].kid[q]
    BY <1>1, <1>3, <1>7, <2>1, Zenon
  <2>3. At(d, nd, q) = At(c, nd, q) /\ At(c, nd, q) \in Blocks
    BY <1>2, <1>4, <1>7, Zenon
  <2> QED
    BY <1>5, <1>7, <2>2, <2>3, Zenon DEF TreeOK
<1>8. ASSUME NEW r \in Roots \ {"root_tree"}, d[nd["root_tree"]].kid[r].blk = nd[r]
      PROVE  d[nd["root_tree"]].kid[r].gen = d[nd[r]].gen
  <2>1. d[nd["root_tree"]].kid[r] = c[nd["root_tree"]].kid[r]
    BY <1>1, <1>3, PlaceFacts, Zenon
  <2> QED
    BY <1>3, <1>5, <1>8, <2>1, Zenon DEF TreeOK
<1> QED
  BY <1>6, <1>7, <1>8, Zenon DEF TreeOK, PointerStep

\* Linking the copy of a leaf, or a new leaf, keeps trees and root items in order.
LEMMA LinkStepTree ==
    ASSUME IInv, TreeOK(cache, node), RootItemInv,
           NEW x, NEW n, NEW i, NEW S, LinkStep(x, n, i, S),
           \A q \in Places : i.kid[q] = NoPtr, pc' = pc,
           x = BgLeaf => i.used = cache[At(cache, node, x)].used
    PROVE  /\ TreeOK(cache', node') /\ RootItemInv'
           /\ cache'[At(cache', node', BgLeaf)].used = cache[At(cache, node, BgLeaf)].used
<1>1. /\ TypeOK /\ ControlInv /\ MemInv /\ SpaceInv /\ Apart(cache, node)
  BY Parts, Zenon
<1>2. /\ TreeStep(x, n)
      /\ \A p \in Places : At(cache', node', p) = IF p = x THEN n ELSE At(cache, node, p)
      /\ cache'[node["root_tree"]].kid = cache[node["root_tree"]].kid /\ node' = node
  BY <1>1, LinkStepIsTreeStep, Zenon DEF LinkStep
<1>3. RootItemInv'
  BY <1>2, RootItemsKept, Zenon
<1> DEFINE m == node[RootOf(x)]
<1>4. /\ x \in Places \ Roots /\ n \in Blocks /\ m \in Blocks /\ n # m /\ i \in Images
      /\ cache \in [Blocks -> Images] /\ node \in [Roots -> Blocks]
      /\ \A p \in Places : At(cache, node, p) # n
      /\ i.gen = generation
      /\ i.items = IF At(cache, node, x) = NoBlock THEN {} ELSE cache[At(cache, node, x)].items
      /\ ptr_to(n) = [blk |-> n, gen |-> generation] /\ ptr_to(n) \in Ptrs
  <2>1. /\ x \in Places \ Roots /\ n \in Blocks /\ i \in Images
        /\ \A p \in Places : At(cache, node, p) # n
        /\ i.gen = generation
        /\ i.items = IF At(cache, node, x) = NoBlock THEN {} ELSE cache[At(cache, node, x)].items
    BY Zenon DEF LinkStep
  <2>2. RootOf(x) \in Roots /\ RootOf(x) \in Places
    BY <2>1, PlaceFacts, Zenon
  <2>3. m \in Blocks /\ At(cache, node, RootOf(x)) = m
    BY <1>1, <2>2, Basics, Zenon
  <2>4. ptr_to(n) = [blk |-> n, gen |-> generation] /\ ptr_to(n) \in Ptrs
    BY <1>1, <2>1, CopyOf, Zenon DEF ptr_to
  <2> QED
    BY <1>1, <2>1, <2>2, <2>3, <2>4, Zenon DEF TypeOK
<1>5. cache' = CopyLink(cache, n, i, m, x, ptr_to(n)) /\ x \in Places
  BY <1>4, Zenon DEF LinkStep
<1>6. /\ cache' \in [Blocks -> Images]
      /\ cache'[n] = i
      /\ cache'[m].gen = cache[m].gen /\ cache'[m].items = cache[m].items
      /\ cache'[m].kid = [cache[m].kid EXCEPT ![x] = ptr_to(n)]
      /\ \A b \in Blocks \ {n, m} : cache'[b] = cache[b]
  <2>1. /\ cache \in [Blocks -> Images] /\ n \in Blocks /\ m \in Blocks /\ n # m
        /\ i \in Images /\ x \in Places /\ ptr_to(n) \in Ptrs
    BY <1>4, Zenon
  <2> HIDE DEF m
  <2> QED
    BY <1>5, <2>1, CopyLinkCache
<1>7. LinkedAt(cache, cache', node, x, n, generation)
  BY <1>2, <1>4, <1>6, Zenon DEF LinkedAt
<1>8. TreeOK(cache', node')
  BY <1>1, <1>2, <1>7, LinkedTree, Zenon
<1>9. cache'[At(cache', node', BgLeaf)].used = cache[At(cache, node, BgLeaf)].used
  <2>1. BgLeaf \in Places /\ BgLeaf \notin Roots /\ At(cache, node, BgLeaf) # NoBlock
    BY <1>1, PlaceFacts, Zenon DEF MemInv, Where
  <2>2. CASE x = BgLeaf
    BY <1>2, <1>6, <2>1, <2>2, Zenon
  <2>3. CASE x # BgLeaf
    <3>1. cache'[At(cache, node, BgLeaf)] = cache[At(cache, node, BgLeaf)]
      BY <1>1, <1>7, <2>1, <2>3, LinkedLeaf
    <3> QED
      BY <1>2, <2>1, <2>3, <3>1, Zenon
  <2> QED
    BY <2>2, <2>3, Zenon
<1> QED
  BY <1>3, <1>8, <1>9, Zenon

\* Copying a root keeps trees and root items in order.
LEMMA RootStepTree ==
    ASSUME IInv, TreeOK(cache, node), RootItemInv,
           NEW r, NEW n, RootStep(r, n), pc' = pc,
           r # "root_tree" => cache[node["root_tree"]].kid[r].blk = DiskNode[r]
    PROVE  /\ TreeOK(cache', node') /\ RootItemInv'
           /\ cache'[At(cache', node', BgLeaf)].used = cache[At(cache, node, BgLeaf)].used
<1>1. /\ TypeOK /\ ControlInv /\ MemInv /\ SpaceInv /\ DiskInv
  BY Parts, Zenon
<1>2. /\ TreeStep(r, n)
      /\ \A p \in Places : At(cache', node', p) = IF p = r THEN n ELSE At(cache, node, p)
      /\ cache'[node'["root_tree"]].kid = cache[node["root_tree"]].kid
  BY <1>1, RootStepIsTreeStep, Zenon
<1>3. /\ cache \in [Blocks -> Images] /\ node \in [Roots -> Blocks]
      /\ r \in Roots /\ n \in Blocks /\ n \notin Durable
      /\ \A p \in Places : At(cache, node, p) # n
      /\ node' = [node EXCEPT ![r] = n] /\ node[r] \in Blocks
      /\ cache' = [cache EXCEPT ![n] = copy_of(node[r])]
      /\ copy_of(node[r]) \in Images /\ copy_of(node[r]).kid = cache[node[r]].kid
  BY <1>1, Basics, CopyOf, Zenon DEF RootStep
<1>4. /\ node' \in [Roots -> Blocks] /\ node'[r] = n /\ \A q \in Roots : q # r => node'[q] = node[q]
      /\ cache' \in [Blocks -> Images] /\ cache'[n].kid = cache[node[r]].kid
      /\ \A b \in Blocks \ {n} : cache'[b] = cache[b]
  BY <1>3, Zenon
<1>5. RootItemInv'
  BY <1>2, <1>4, RootItemsKept, Zenon
<1>6. r # "root_tree" => cache[node["root_tree"]].kid[r].blk # n
  BY <1>1, <1>3, DurableRoots, Zenon
<1>7. RootMovedAt(cache, cache', node, node', r, n)
  BY <1>2, <1>3, <1>4, <1>6, Zenon DEF RootMovedAt
<1>8. TreeOK(cache', node')
  BY <1>7, RootMovedTree, Zenon
<1>9. cache'[At(cache', node', BgLeaf)].used = cache[At(cache, node, BgLeaf)].used
  <2>1. /\ BgLeaf \in Places /\ BgLeaf # r /\ At(cache, node, BgLeaf) # NoBlock
        /\ At(cache, node, BgLeaf) \in Blocks /\ At(cache, node, BgLeaf) # n
    <3>1. BgLeaf \in Places /\ BgLeaf \notin Roots
      BY PlaceFacts, Zenon
    <3>2. At(cache, node, BgLeaf) # NoBlock
      BY <1>1, Zenon DEF MemInv, Where
    <3>3. At(cache, node, BgLeaf) \in Blocks \cup {NoBlock}
      BY <1>1, <3>1, Basics, Zenon
    <3> QED
      BY <1>3, <3>1, <3>2, <3>3, Zenon
  <2> QED
    BY <1>2, <1>4, <2>1, Zenon
<1> QED
  BY <1>5, <1>8, <1>9, Zenon

\* The copy of a leaf has its block group item and, like every leaf, no pointers.
LEMMA LeafCopy ==
    ASSUME TypeOK, TreeOK(cache, node), NEW x \in Places \ Roots,
           At(cache, node, x) # NoBlock
    PROVE  /\ copy_of(At(cache, node, x)).used = cache[At(cache, node, x)].used
           /\ \A q \in Places : copy_of(At(cache, node, x)).kid[q] = NoPtr
<1> DEFINE old == At(cache, node, x)
<1>1. old \in Blocks /\ generation \in 0 .. MaxGen /\ cache[old] \in Images
  BY AtType DEF TypeOK
<1>2. \A q \in Places : cache[old].kid[q] = NoPtr
  BY Zenon DEF TreeOK, ChildOf, Roots
<1> HIDE DEF old
<1>3. copy_of(old).used = cache[old].used /\ copy_of(old).kid = cache[old].kid
  BY <1>1, CopyImage, Zenon DEF copy_of
<1> QED
  BY <1>2, <1>3, Zenon DEF old

\* Trees stay well formed when no header, no pointer and no item changes.
LEMMA SameTree ==
    ASSUME NEW c \in [Blocks -> Images], NEW d \in [Blocks -> Images],
           NEW nd \in [Roots -> Blocks], TreeOK(c, nd),
           \A b \in Blocks : d[b].gen = c[b].gen /\ d[b].kid = c[b].kid /\ d[b].items = c[b].items
    PROVE  TreeOK(d, nd)
<1>1. \A r \in Roots : nd[r] \in Blocks
  BY Zenon
<1>2. \A p \in Places : At(d, nd, p) = At(c, nd, p) /\ At(c, nd, p) \in Blocks \cup {NoBlock}
  BY <1>1, AtType, PlaceFacts, Zenon DEF At
<1>3. \A p, q \in Places : At(d, nd, p) # NoBlock /\ ~ChildOf(p, q)
                               => d[At(d, nd, p)].kid[q] = NoPtr
  BY <1>2 DEF TreeOK
<1>4. \A q \in Places \ Roots : At(d, nd, q) # NoBlock
          => d[nd[RootOf(q)]].kid[q].gen = d[At(d, nd, q)].gen
  BY <1>1, <1>2, PlaceFacts DEF TreeOK
<1>5. \A r \in Roots \ {"root_tree"} : d[nd["root_tree"]].kid[r].blk = nd[r]
          => d[nd["root_tree"]].kid[r].gen = d[nd[r]].gen
  BY <1>1, PlaceFacts DEF TreeOK
<1>6. \A q \in ExtLeaves : At(d, nd, q) # NoBlock
          => \A b \in d[At(d, nd, q)].items : LeafOf[b] = q
  BY <1>2, PlaceFacts, Zenon DEF TreeOK
<1> QED
  BY <1>3, <1>4, <1>5, <1>6, Zenon DEF TreeOK

\* A change of a block group item or a value leaves trees and root items alone.
LEMMA LeafStepTree ==
    ASSUME IInv, TreeOK(cache, node), RootItemInv, NEW leaf, NEW u, LeafStep(leaf, u)
    PROVE  /\ TreeOK(cache', node') /\ RootItemInv' /\ TreeStep("root_tree", node["root_tree"])
           /\ \A p \in Places : At(cache', node', p) = At(cache, node, p)
           /\ \A b \in Blocks : Listed(cache', node', b) <=> Listed(cache, node, b)
<1>1. TypeOK /\ ControlInv /\ MemInv /\ SpaceInv
  BY Parts, Zenon
<1>2. /\ TreeStep("root_tree", node["root_tree"])
      /\ \A p \in Places : At(cache', node', p) = At(cache, node, p)
      /\ \A b \in Blocks : Listed(cache', node', b) <=> Listed(cache, node, b)
  BY <1>1, InPlaceIsTreeStep, InPlaceLists, Zenon DEF LeafStep
<1>3. /\ \A b \in Blocks : /\ cache'[b].gen = cache[b].gen /\ cache'[b].kid = cache[b].kid
                           /\ cache'[b].items = cache[b].items
      /\ cache' \in [Blocks -> Images] /\ node' = node /\ pc' = pc
  BY Zenon DEF LeafStep, InPlace
<1>4. TreeOK(cache', node')
  BY <1>1, <1>3, SameTree, Zenon DEF TypeOK
<1>5. cache'[node'["root_tree"]].kid = cache[node["root_tree"]].kid
  BY <1>1, <1>3, Basics, PlaceFacts, Zenon
<1>6. RootItemInv'
  BY <1>2, <1>3, <1>5, RootItemsKept, Zenon
<1> QED
  BY <1>2, <1>4, <1>6, Zenon

-----------------------------------------------------------------------------
(* What the store of AtomicStore sees *)

\* Value of file leaf l in the trees with roots nd and block contents c.
FsVal(c, nd, l) == IF At(c, nd, l) = NoBlock THEN NoValue ELSE c[At(c, nd, l)].val

\* Contents of the file tree in memory and on the device.
Staged == [l \in FsLeaves |-> FsVal(cache, node, l)]

Committed == [l \in FsLeaves |-> FsVal(disk, DiskNode, l)]

\* Where the file tree lies: its root node and leaves are blocks of their own.
LEMMA FsPlaces ==
    ASSUME TypeOK, ControlInv, MemInv, SpaceInv
    PROVE  /\ node["fs_root"] = At(cache, node, "fs_root") /\ node["fs_root"] \in Blocks
           /\ \A l \in FsLeaves :
                 /\ l \in Places /\ l \notin Roots /\ l \notin ExtLeaves
                 /\ At(cache, node, l) = cache[node["fs_root"]].kid[l].blk
                 /\ At(cache, node, l) \in Blocks \cup {NoBlock}
           /\ \A p, q \in Places : At(cache, node, p) = At(cache, node, q)
                                      => p = q \/ At(cache, node, p) = NoBlock
<1>1. \A l \in FsLeaves : l \notin ExtLeaves
  BY CowAssumption, Zenon
<1>2. \A l \in FsLeaves : At(cache, node, l) = cache[node["fs_root"]].kid[l].blk
  BY PlaceFacts, Zenon DEF At
<1> QED
  BY <1>1, <1>2, PlaceFacts, Basics, Zenon DEF MemInv, Where

\* A step that leaves the blocks of the file tree alone leaves its contents.
LEMMA StagedKept ==
    ASSUME TypeOK, ControlInv, MemInv, SpaceInv, NEW T,
           node'["fs_root"] = node["fs_root"],
           \A b \in Blocks : b \notin T => cache'[b] = cache[b],
           \A p \in FsLeaves \cup {"fs_root"} : At(cache, node, p) \notin T
    PROVE  Staged' = Staged
<1>1. cache'[node["fs_root"]] = cache[node["fs_root"]]
  BY FsPlaces, Zenon
<1>2. ASSUME NEW l \in FsLeaves
      PROVE  FsVal(cache', node', l) = FsVal(cache, node, l)
  <2>1. At(cache', node', l) = At(cache, node, l)
    BY <1>1, PlaceFacts, Zenon DEF At
  <2>2. At(cache, node, l) # NoBlock
          => cache'[At(cache, node, l)] = cache[At(cache, node, l)]
    BY FsPlaces, Zenon
  <2> QED
    BY <2>1, <2>2, Zenon DEF FsVal
<1> QED
  BY <1>2, Zenon DEF Staged

\* Steps that write nothing to the device leave what a later open finds.
LEMMA CommittedKept ==
    ASSUME UNCHANGED <<disk, super>>
    PROVE  Committed' = Committed
<1>1. DiskNode' = DiskNode
  BY DiskFrame, Zenon
<1> QED
  BY <1>1, Zenon DEF Committed, FsVal

\* Place x of the file tree is held by block n afterwards, with value v; the
\* other leaves stay where they are.
LEMMA Moved ==
    ASSUME NEW x, NEW n, NEW v,
           \A l \in FsLeaves : At(cache', node', l) = IF l = x THEN n ELSE At(cache, node, l),
           \A l \in FsLeaves : l # x /\ At(cache, node, l) # NoBlock
              => cache'[At(cache, node, l)].val = cache[At(cache, node, l)].val,
           x \in FsLeaves => v = IF n = NoBlock THEN NoValue ELSE cache'[n].val
    PROVE  /\ x \in FsLeaves => Staged' = [Staged EXCEPT ![x] = v]
           /\ (x \in FsLeaves => v = FsVal(cache, node, x)) => Staged' = Staged
<1>1. \A l \in FsLeaves : FsVal(cache', node', l) = IF l = x THEN v ELSE FsVal(cache, node, l)
  BY Zenon DEF FsVal
<1> HIDE DEF FsVal
<1>2. /\ Staged = [l \in FsLeaves |-> FsVal(cache, node, l)]
      /\ Staged' = [l \in FsLeaves |-> FsVal(cache', node', l)]
  BY Zenon DEF Staged, FsVal
<1> QED
  BY <1>1, <1>2, Zenon

Open == pc # "idle"

Silent == Committed' = Committed /\ Staged' = Staged /\ Open' = Open

-----------------------------------------------------------------------------
(* The actions, by what they work on *)

ExtentTreeStep == \/ CowExtentNode \/ CowExtentLeaf \/ AddExtentLeaf
                  \/ InsertExtentItem \/ DeleteExtentItem \/ WriteBlockGroupItem
FileTreeStep == AttachCow \/ PutValue \/ LinkLeaf \/ DelLeaf
CommitStep == \/ FinishCurrentInsert \/ DelPendingExtents \/ CowBlock \/ AllocLeaf
              \/ UpdateRoot \/ CowTreeRoot \/ NextDirtyRoot \/ WriteDirtyBlockGroups
              \/ UpdateCowonlyRoot \/ AllWritten
DeviceStep == WriteTreeBlock \/ WriteSuper \/ FinishExtentCommit \/ NoSpace \/ Crash
=============================================================================

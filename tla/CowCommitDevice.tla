-------------------------- MODULE CowCommitDevice ---------------------------
(***************************************************************************)
(* mkfs, the writes to the device and reopening.  They keep IInv and FsckInv, *)
(* and the first super block of a commit makes durable what the process    *)
(* sees.  What the invariants say of committed and of free blocks.         *)
(***************************************************************************)
EXTENDS CowCommitFacts

-----------------------------------------------------------------------------
(* What the actions do *)

\* Writing a block sets WRITTEN and changes nothing else in it.
LEMMA WrittenImage ==
    ASSUME NEW i \in Images
    PROVE  LET j == [i EXCEPT !.written = TRUE]
           IN /\ j \in Images /\ j.gen = i.gen /\ j.written = TRUE
              /\ j.kid = i.kid /\ j.items = i.items /\ j.used = i.used
BY Zenon DEF Images

\* A write outside the committed trees leaves them as they are.
LEMMA DiskFrameOutside ==
    ASSUME TypeOK, DiskInv, UNCHANGED super, NEW w \in Blocks, w \notin Durable,
           disk' \in [Blocks -> Images], \A c \in Blocks : c # w => disk'[c] = disk[c]
    PROVE  DiskNode' = DiskNode /\ Durable' = Durable /\ DiskInv'
<1>1. Newest' = Newest
  BY Zenon DEF Newest, BestMirror
<1>2. /\ DiskNode["root_tree"] = Newest.root /\ Newest.root \in Blocks
      /\ \A r \in Roots : DiskNode[r] \in Blocks /\ DiskNode[r] # w
  BY DurableRoots, PlaceFacts DEF DiskNode
<1>3. DiskNode' = DiskNode
  <2>1. disk'[Newest.root] = disk[Newest.root]
    BY <1>2, PlaceFacts, Zenon
  <2> QED
    BY <1>1, <2>1, Zenon DEF DiskNode
<1>4. \A p \in Places : At(disk', DiskNode, p) = At(disk, DiskNode, p)
  BY <1>2, PlaceFacts, Zenon DEF At
<1>5. Durable' = Durable
  BY <1>3, <1>4, Zenon DEF Durable, DiskPlaces, DiskWhere
<1>6. \A p \in Places : At(disk, DiskNode, p) # NoBlock =>
         At(disk, DiskNode, p) \in Blocks /\ At(disk, DiskNode, p) # w
  <2>1. \A p \in Places : At(disk, DiskNode, p) \in Blocks \cup {NoBlock}
    BY AtType, Zenon DEF TypeOK, DiskInv
  <2> QED
    BY <2>1, Zenon DEF Durable, DiskPlaces, DiskWhere
<1>7. \A b \in Durable : b \in Blocks
  BY <1>6, Zenon DEF Durable, DiskPlaces, DiskWhere
<1>8. \A b \in Blocks : Listed(disk, DiskNode, b) => Listed(disk', DiskNode, b)
  <2> TAKE b \in Blocks
  <2>1. /\ LeafOf[b] \in Places
        /\ At(disk', DiskNode, LeafOf[b]) = At(disk, DiskNode, LeafOf[b])
    BY <1>4, PlaceFacts, Zenon
  <2>2. At(disk, DiskNode, LeafOf[b]) # NoBlock =>
           disk'[At(disk, DiskNode, LeafOf[b])] = disk[At(disk, DiskNode, LeafOf[b])]
    BY <1>6, <2>1, Zenon
  <2> QED
    BY <2>1, <2>2, Zenon DEF Listed
<1>9. DiskInv'
  BY <1>3, <1>4, <1>5, <1>7, <1>8, PlaceFacts, SMTT(30) DEF DiskInv, DiskWhere
<1> QED
  BY <1>3, <1>5, <1>9, Zenon

\* The mirror btrfs_read_dev_super keeps is mirror 0 when no other is newer.
BestOf(s) == CHOOSE m \in Mirrors :
                 /\ \A k \in Mirrors : s[k].generation <= s[m].generation
                 /\ \A k \in 0 .. m - 1 : s[k].generation < s[m].generation

\* Mirror 0 is chosen when none is newer.
LEMMA BestOfFirst ==
    ASSUME NEW s, \A k \in Mirrors : s[k].generation \in Int,
           \A k \in Mirrors : s[k].generation <= s[0].generation
    PROVE  BestOf(s) = 0 /\ 0 \in Mirrors
<1>1. /\ 0 \in Mirrors /\ \A k \in Mirrors : k \in Nat
      /\ \A k \in 0 .. 0 - 1 : s[k].generation < s[0].generation
  BY CowAssumption DEF Mirrors
<1>2. \A m \in Mirrors :
         (\A k \in 0 .. m - 1 : s[k].generation < s[m].generation) => m = 0
  BY <1>1
<1> QED
  BY <1>1, <1>2, Zenon DEF BestOf

\* So a reopened file system starts from mirror 0.
LEMMA FirstIsBest ==
    ASSUME TypeOK, SuperInv
    PROVE  Newest = super[0] /\ 0 \in Mirrors
<1>1. BestOf(super) = 0 /\ 0 \in Mirrors
  BY BestOfFirst DEF TypeOK, SuperInv
<1> QED
  BY <1>1, Zenon DEF Newest, BestMirror, BestOf

\* With no dirty buffer the trees in memory are those under the same roots on
\* the device.
LEMMA CleanTrees ==
    ASSUME TypeOK, ControlInv, MemInv, SpaceInv, dirty = {}
    PROVE  /\ \A p \in Places : At(disk, node, p) = At(cache, node, p)
           /\ \A b \in Blocks : Listed(disk, node, b) <=> Listed(cache, node, b)
           /\ \A r \in Roots : disk[node[r]] = cache[node[r]]
<1>1. \A p \in Places : At(cache, node, p) # NoBlock
                           => cache[At(cache, node, p)] = disk[At(cache, node, p)]
  BY Zenon DEF MemInv, Where
<1>2. \A r \in Roots : disk[node[r]] = cache[node[r]]
  BY <1>1, Basics, PlaceFacts
<1>3. \A p \in Places : At(disk, node, p) = At(cache, node, p)
  BY <1>2, PlaceFacts, Zenon DEF At
<1>4. \A b \in Blocks : Listed(disk, node, b) <=> Listed(cache, node, b)
  BY <1>1, <1>3, PlaceFacts DEF Listed
<1> QED
  BY <1>2, <1>3, <1>4, Zenon

\* write_dev_supers: the first mirror switches to the trees in memory, the
\* others follow.
LEMMA WriteSuperStep ==
    ASSUME TypeOK, ControlInv, SuperInv, DiskInv, MemInv, SpaceInv, FreshInv,
           DirtyInv, RootInv, WriteSuper
    PROVE  /\ pc = "write_super" /\ dirty = {} /\ NothingPending /\ dirty_roots = {}
           /\ mirror \in 0 .. NumMirrors - 1 /\ mirror' = mirror + 1 /\ mirror \in Mirrors
           /\ pc' = IF mirror + 1 = NumMirrors THEN "finish" ELSE "write_super"
           /\ UNCHANGED <<disk, memory, item, cont, goal, calls, crashes>>
           /\ super' \in [Mirrors -> [generation : 1 .. MaxGen, root : Blocks, bytes_used : Int]]
           /\ SuperInv' /\ super'[0].generation = generation /\ DiskNode' = node
           /\ Newest'.generation = generation
           /\ IF mirror = 0 THEN Newest'.bytes_used = used
                            ELSE Newest' = Newest /\ DiskNode = node
<1>1. /\ pc = "write_super" /\ dirty = {} /\ NothingPending /\ dirty_roots = {}
      /\ mirror \in 0 .. NumMirrors - 1 /\ mirror' = mirror + 1 /\ mirror \in Mirrors
      /\ pc' = IF mirror + 1 = NumMirrors THEN "finish" ELSE "write_super"
      /\ UNCHANGED <<disk, memory, item, cont, goal, calls, crashes>>
  <2>1. /\ pc = "write_super" /\ mirror' = mirror + 1
        /\ pc' = IF mirror + 1 = NumMirrors THEN "finish" ELSE "write_super"
        /\ UNCHANGED <<disk, memory, item, cont, goal, calls, crashes>>
    BY Zenon DEF WriteSuper
  <2>2. dirty = {} /\ NothingPending /\ dirty_roots = {} /\ mirror < NumMirrors
    BY <2>1, Zenon DEF ControlInv
  <2>3. mirror \in 0 .. NumMirrors
    BY Zenon DEF TypeOK
  <2>4. mirror \in 0 .. NumMirrors - 1 /\ mirror \in Mirrors
    BY <2>2, <2>3, CowAssumption DEF Mirrors
  <2> QED
    BY <2>1, <2>2, <2>4, Zenon
<1> DEFINE s == [generation |-> generation, root |-> node["root_tree"], bytes_used |-> used]
<1>2. super' = [super EXCEPT ![mirror] = s]
  BY Zenon DEF WriteSuper
<1>3. /\ s \in [generation : 1 .. MaxGen, root : Blocks, bytes_used : Int]
      /\ s.generation = generation /\ s.root = node["root_tree"] /\ s.bytes_used = used
  BY Basics, PlaceFacts, Zenon DEF TypeOK
<1> HIDE DEF s
<1>4. /\ super' \in [Mirrors -> [generation : 1 .. MaxGen, root : Blocks, bytes_used : Int]]
      /\ super'[mirror] = s /\ \A m \in Mirrors : m # mirror => super'[m] = super[m]
  <2>1. super \in [Mirrors -> [generation : 1 .. MaxGen, root : Blocks, bytes_used : Int]]
    BY Zenon DEF TypeOK
  <2> QED
    BY <1>1, <1>2, <1>3, <2>1, Zenon
<1>5. SuperInv' /\ super'[0].generation = generation
  <2>1. 0 \in Mirrors /\ \A m \in Mirrors : m \in Nat /\ super[m].generation \in Int
    BY CowAssumption, SMTT(30) DEF Mirrors, TypeOK
  <2>2. CASE mirror = 0
    BY <2>1, <2>2, <1>1, <1>3, <1>4, SMTT(30) DEF SuperInv, TypeOK, memory
  <2>3. CASE mirror # 0
    <3>1. super[0].generation = generation /\ super'[0] = super[0]
      BY <2>1, <2>3, <1>1, <1>4 DEF RootInv, Synced
    <3> QED
      BY <2>1, <3>1, <1>1, <1>3, <1>4, SMTT(30) DEF SuperInv, TypeOK, memory
  <2> QED
    BY <2>2, <2>3, Zenon
<1>6. Newest' = super'[0]
  <2>1. /\ \A k \in Mirrors : super'[k].generation \in Int
        /\ \A k \in Mirrors : super'[k].generation <= super'[0].generation
    BY <1>4, <1>5 DEF SuperInv
  <2>2. BestOf(super') = 0
    BY <2>1, BestOfFirst, Zenon
  <2> QED
    BY <2>2, Zenon DEF Newest, BestMirror, BestOf
<1>7. DiskNode' = node
  <2>1. CASE mirror = 0
    <3>1. Newest'.root = node["root_tree"]
      BY <2>1, <1>3, <1>4, <1>6, SMTT(30)
    <3>2. /\ cache[node["root_tree"]].kid["fs_root"].blk = node["fs_root"]
          /\ cache[node["root_tree"]].kid["extent_root"].blk = node["extent_root"]
      BY <1>1, Zenon DEF RootInv
    <3>3. disk'[node["root_tree"]] = cache[node["root_tree"]]
      BY <1>1, CleanTrees, PlaceFacts, Zenon
    <3> QED
      BY <3>1, <3>2, <3>3, Basics, Zenon DEF DiskNode, Roots
  <2>2. CASE mirror # 0
    <3>1. Newest' = Newest /\ node = DiskNode
      BY <2>2, <1>1, <1>4, <1>6, FirstIsBest, SMTT(30) DEF RootInv, Synced
    <3> QED
      BY <3>1, <1>1, Zenon DEF DiskNode
  <2> QED
    BY <2>1, <2>2, Zenon
<1>8. mirror = 0 => Newest'.bytes_used = used
  BY <1>1, <1>3, <1>4, <1>6, Zenon
<1>9. mirror # 0 => Newest' = Newest /\ DiskNode = node
  BY <1>1, <1>4, <1>6, FirstIsBest, SMTT(30) DEF RootInv, Synced
<1>10. Newest'.generation = generation
  BY <1>5, <1>6, Zenon
<1> QED
  BY <1>1, <1>4, <1>5, <1>7, <1>8, <1>9, <1>10, Zenon

\* The blocks mkfs wrote and their contents.
LEMMA FirstFacts ==
    ASSUME Counting
    PROVE  /\ FirstBlocks \subseteq Blocks /\ Cardinality(FirstBlocks) \in Int
           /\ \A p \in DOMAIN FirstLayout :
                 /\ FirstLayout[p] \in Blocks /\ FirstLayout[p] \in FirstBlocks /\ p \in Places
                 /\ FirstPlace(FirstLayout[p]) = p
           /\ \A b \in FirstBlocks : /\ FirstPlace(b) \in DOMAIN FirstLayout
                                     /\ FirstPlace(b) \in Places
           /\ \A p \in Places : FirstImage(p) \in Images
           /\ BlankImage \in Images
<1>1. FirstBlocks \subseteq Blocks
  BY CowAssumption DEF FirstBlocks
<1>2. Cardinality(FirstBlocks) \in Int
  <2>1. Cardinality(FirstBlocks) \in Nat
    BY <1>1, Zenon DEF Counting
  <2> QED
    BY <2>1
<1>3. \A p \in DOMAIN FirstLayout : /\ FirstLayout[p] \in Blocks
                                    /\ FirstLayout[p] \in FirstBlocks /\ p \in Places
  BY CowAssumption, Zenon DEF FirstBlocks, Places
<1>4. \A p \in DOMAIN FirstLayout : FirstPlace(FirstLayout[p]) = p
  <2> TAKE p \in DOMAIN FirstLayout
  <2>1. \A q \in DOMAIN FirstLayout : FirstLayout[q] = FirstLayout[p] => q = p
    BY CowAssumption, Zenon
  <2> QED
    BY <2>1, Zenon DEF FirstPlace
<1>5. \A b \in FirstBlocks : FirstPlace(b) \in DOMAIN FirstLayout
  BY <1>4, Zenon DEF FirstBlocks
<1>6. /\ \A p \in Places : FirstPtr(p) \in Ptrs
      /\ NoPtr \in Ptrs
  BY <1>3, CowAssumption DEF FirstPtr, Ptrs
<1>7. ASSUME NEW p \in Places PROVE FirstImage(p) \in Images
  <2> DEFINE K == [q \in Places |->
                IF (p = "root_tree" /\ q \in Roots \ {"root_tree"})
                   \/ (p \in Roots /\ q \notin Roots /\ RootOf(q) = p)
                THEN FirstPtr(q) ELSE NoPtr]
             I == IF p \in ExtLeaves THEN {b \in FirstBlocks : LeafOf[b] = p} ELSE {}
             U == IF p = BgLeaf THEN Cardinality(FirstBlocks) ELSE 0
             V == IF p \in FsLeaves THEN CHOOSE v \in Values : TRUE ELSE NoValue
  <2>1. K \in [Places -> Ptrs]
    BY <1>6, Zenon
  <2>2. I \in SUBSET Blocks /\ U \in Int
    BY <1>1, <1>2
  <2>3. V \in Values \cup {NoValue}
    BY CowAssumption, Zenon
  <2>4. 1 \in 0 .. MaxGen
    BY CowAssumption
  <2>5. FirstImage(p) = [gen |-> 1, written |-> TRUE, kid |-> K, items |-> I,
                         used |-> U, val |-> V]
    BY Zenon DEF FirstImage
  <2> HIDE DEF K, I, U, V
  <2> QED
    BY <2>1, <2>2, <2>3, <2>4, <2>5 DEF Images
<1>8. BlankImage \in Images
  <2>1. [p \in Places |-> NoPtr] \in [Places -> Ptrs] /\ 0 \in 0 .. MaxGen
    BY <1>6, CowAssumption
  <2> QED
    BY <2>1 DEF BlankImage, Images
<1> QED
  BY <1>1, <1>2, <1>3, <1>4, <1>5, <1>7, <1>8, Zenon

\* Pointers and items of the blocks mkfs wrote.
LEMMA FirstImageParts ==
    /\ \A r \in Roots \ {"root_tree"} : FirstImage("root_tree").kid[r] = FirstPtr(r)
    /\ \A p \in Places \ Roots : FirstImage(RootOf(p)).kid[p] = FirstPtr(p)
    /\ \A p \in ExtLeaves : FirstImage(p).items = {b \in FirstBlocks : LeafOf[b] = p}
<1>1. \A r \in Roots \ {"root_tree"} : FirstImage("root_tree").kid[r] = FirstPtr(r)
  BY PlaceFacts, Zenon DEF FirstImage
<1>2. ASSUME NEW p \in Places \ Roots PROVE FirstImage(RootOf(p)).kid[p] = FirstPtr(p)
  BY PlaceFacts, Zenon DEF FirstImage
<1>3. \A p \in ExtLeaves : FirstImage(p).items = {b \in FirstBlocks : LeafOf[b] = p}
  BY Zenon DEF FirstImage
<1> QED
  BY <1>1, <1>2, <1>3, Zenon

\* The trees of a freshly made file system, in memory and on the device.
LEMMA InitShape ==
    ASSUME Counting, Init
    PROVE  /\ disk \in [Blocks -> Images] /\ cache = disk
           /\ \A p \in DOMAIN FirstLayout : disk[FirstLayout[p]] = FirstImage(p)
           /\ \A r \in Roots : r \in DOMAIN FirstLayout /\ node[r] = FirstLayout[r]
           /\ BgLeaf \in DOMAIN FirstLayout
           /\ node \in [Roots -> Blocks]
           /\ TypeOK
           /\ \A m \in Mirrors : super[m].generation = 1 /\ super[m].root = FirstLayout["root_tree"]
           /\ 0 \in Mirrors /\ SuperInv
           /\ Newest = super[0]
           /\ \A r \in Roots \ {"root_tree"} : disk[FirstLayout["root_tree"]].kid[r] = FirstPtr(r)
           /\ \A p \in Places \ Roots : disk[FirstLayout[RootOf(p)]].kid[p] = FirstPtr(p)
           /\ \A p \in Places : FirstPtr(p).blk = IF p \in DOMAIN FirstLayout THEN FirstLayout[p] ELSE NoBlock
           /\ DiskNode = node
           /\ \A p \in Places : At(disk, node, p) = IF p \in DOMAIN FirstLayout THEN FirstLayout[p] ELSE NoBlock
<1> USE DEF Init
<1>1. disk \in [Blocks -> Images] /\ cache = disk
  BY FirstFacts, Zenon
<1>2. /\ \A p \in DOMAIN FirstLayout : disk[FirstLayout[p]] = FirstImage(p)
      /\ \A r \in Roots : r \in DOMAIN FirstLayout /\ node[r] = FirstLayout[r]
      /\ BgLeaf \in DOMAIN FirstLayout
  BY FirstFacts, CowAssumption, Zenon
<1>3. node \in [Roots -> Blocks]
  BY <1>2, FirstFacts, Zenon
<1>4. super \in [Mirrors -> [generation : 1 .. MaxGen, root : Blocks, bytes_used : Int]]
  BY <1>2, FirstFacts, PlaceFacts, CowAssumption
<1>5. TypeOK
  <2>1. mirror \in 0 .. NumMirrors /\ calls \in 0 .. MaxCalls /\ crashes \in 0 .. MaxCrashes
        /\ generation \in 1 .. MaxGen /\ used \in Int
    BY FirstFacts, CowAssumption
  <2>2. item \in Ops /\ cont \in Ops /\ goal \in Ops
    BY OpFacts, Zenon
  <2>3. disk \in [Blocks -> Images] /\ cache \in [Blocks -> Images]
    BY <1>1, Zenon
  <2>4. /\ dirty = {} /\ dirty_roots = {} /\ commit_root = NoBlock /\ pc = "idle"
        /\ free_space_cache \subseteq Blocks /\ pinned_extents = {} /\ extent_ins = {}
        /\ pending_del = {} /\ bg_dirty = FALSE
    BY Zenon
  <2> QED
    BY <1>3, <1>4, <2>1, <2>2, <2>3, <2>4, Zenon DEF TypeOK
<1>6. \A m \in Mirrors : super[m].generation = 1 /\ super[m].root = FirstLayout["root_tree"]
  BY Zenon
<1>7. 0 \in Mirrors /\ SuperInv
  BY CowAssumption, <1>6, SMTT(30) DEF SuperInv, Mirrors
<1>8. Newest = super[0]
  BY <1>5, <1>7, FirstIsBest, Zenon
<1>9. /\ \A r \in Roots \ {"root_tree"} : disk[FirstLayout["root_tree"]].kid[r] = FirstPtr(r)
      /\ \A p \in Places \ Roots : disk[FirstLayout[RootOf(p)]].kid[p] = FirstPtr(p)
  <2> HIDE DEF Init
  <2> QED
    BY <1>2, PlaceFacts, FirstImageParts, Zenon
<1>10. \A p \in Places : FirstPtr(p).blk = IF p \in DOMAIN FirstLayout THEN FirstLayout[p] ELSE NoBlock
  BY Zenon DEF FirstPtr, NoPtr
<1>11. DiskNode = node
  <2>1. Newest.root = FirstLayout["root_tree"]
    BY <1>6, <1>7, <1>8, Zenon
  <2>2. \A r \in Roots \ {"root_tree"} : disk[FirstLayout["root_tree"]].kid[r].blk = FirstLayout[r]
    <3> HIDE DEF Init
    <3> QED
      BY <1>2, <1>9, <1>10, PlaceFacts, Zenon
  <2> QED
    BY <2>1, <2>2, Zenon DEF DiskNode
<1>12. \A p \in Places : At(disk, node, p) = IF p \in DOMAIN FirstLayout THEN FirstLayout[p] ELSE NoBlock
  <2> TAKE p \in Places
  <2>1. CASE p \in Roots
    BY <2>1, <1>2, Zenon DEF At
  <2>2. CASE p \notin Roots
    <3>1. p \in Places \ Roots
      BY <2>2, Zenon
    <3>2. node[RootOf(p)] = FirstLayout[RootOf(p)]
      <4> HIDE DEF Init
      <4> QED
        BY <3>1, <1>2, PlaceFacts, Zenon
    <3>3. disk[node[RootOf(p)]].kid[p] = FirstPtr(p)
      <4> HIDE DEF Init
      <4> QED
        BY <3>1, <3>2, <1>9, Zenon
    <3>4. At(disk, node, p) = disk[node[RootOf(p)]].kid[p].blk
      BY <2>2, Zenon DEF At
    <3> QED
      <4> HIDE DEF Init
      <4> QED
        BY <3>3, <3>4, <1>10, Zenon
  <2> QED
    BY <2>1, <2>2, Zenon
<1> QED
  BY <1>1, <1>2, <1>3, <1>5, <1>6, <1>7, <1>8, <1>9, <1>10, <1>11, <1>12, Zenon

-----------------------------------------------------------------------------
(* They keep IInv *)

\* __commit_transaction writes a dirty buffer, which is no committed block.
LEMMA WriteTreeBlockInv ==
    ASSUME TypeOK, ControlInv, SuperInv, DiskInv, MemInv, SpaceInv, FreshInv,
           DirtyInv, RootInv, WriteTreeBlock
    PROVE  IInv'
<1>1. PICK b \in dirty :
         /\ cache' = [cache EXCEPT ![b].written = TRUE]
         /\ disk' = [disk EXCEPT ![b] = [cache[b] EXCEPT !.written = TRUE]]
         /\ dirty' = dirty \ {b}
  BY Zenon DEF WriteTreeBlock, First
<1> DEFINE i == [cache[b] EXCEPT !.written = TRUE]
<1>2. /\ pc = "write_blocks" /\ NothingPending /\ dirty_roots = {}
      /\ UNCHANGED <<super, node, commit_root, dirty_roots, free_space_cache,
                   pinned_extents, extent_ins, pending_del, generation, used,
                   bg_dirty, item, cont, goal, pc, mirror, calls, crashes>>
  BY Zenon DEF WriteTreeBlock, ControlInv, control
<1>3. /\ b \in Blocks /\ b \notin Durable /\ cache[b] \in Images
      /\ cache \in [Blocks -> Images] /\ disk \in [Blocks -> Images]
  BY Zenon DEF TypeOK, DirtyInv
<1>4. cache' = [cache EXCEPT ![b] = i] /\ disk' = [disk EXCEPT ![b] = i]
  BY <1>1, Zenon
<1>5. /\ i \in Images /\ i.gen = cache[b].gen /\ i.written = TRUE
      /\ i.kid = cache[b].kid /\ i.items = cache[b].items
  BY <1>3, WrittenImage, Zenon
<1> HIDE DEF i
<1>6. /\ cache' \in [Blocks -> Images] /\ disk' \in [Blocks -> Images]
      /\ cache'[b] = i /\ disk'[b] = i
      /\ \A c \in Blocks : c # b => cache'[c] = cache[c] /\ disk'[c] = disk[c]
  BY <1>3, <1>4, <1>5, Zenon
<1>7. DiskNode' = DiskNode /\ Durable' = Durable /\ DiskInv'
  BY <1>2, <1>3, <1>6, DiskFrameOutside, Zenon
<1>8. SuperInv'
  BY <1>2, Zenon DEF SuperInv
<1>9. dirty' = dirty \ {b}
  BY <1>1, Zenon
<1>10. TypeOK'
  BY <1>2, <1>6, <1>9, Zenon DEF TypeOK
<1>11. cont.op = "none" /\ item.op = "none" /\ goal.op = "none"
  BY <1>2, OpFacts, Zenon DEF NothingPending
<1>12. ControlInv'
  BY <1>2, <1>9, <1>11, Zenon DEF ControlInv, NothingPending
<1>13. \A c \in Blocks : cache'[c].kid = cache[c].kid /\ cache'[c].items = cache[c].items
  BY <1>5, <1>6, Zenon
<1>14. \A p \in Places : At(cache', node', p) = At(cache, node, p)
  BY <1>2, <1>13, Basics, PlaceFacts, Zenon DEF At
<1>15. \A c \in Blocks : Listed(cache', node', c) <=> Listed(cache, node, c)
  BY <1>13, <1>14, Basics, PlaceFacts, Zenon DEF Listed
<1>16. MemInv'
  <2> USE DEF MemInv, Where
  <2>1. \A p \in Places : At(cache, node, p) # NoBlock => Listed(cache, node, At(cache, node, p))
    BY <1>2, <1>11, Zenon DEF Covered, NothingPending
  <2>2. (\A p \in Places : Where(p) # NoBlock => Covered(Where(p)))'
    <3> SUFFICES ASSUME NEW p \in Places, At(cache', node', p) # NoBlock
                 PROVE  Listed(cache', node', At(cache', node', p))
      BY Zenon DEF Covered
    <3>1. At(cache', node', p) = At(cache, node, p)
      BY <1>14, Zenon
    <3>2. At(cache, node, p) \in Blocks
      BY <3>1, Basics, Zenon
    <3> QED
      BY <2>1, <3>1, <3>2, <1>15, Zenon
  <2>3. \A p \in Places : At(cache', node', p) \notin dirty' \cup {NoBlock}
           => cache'[At(cache', node', p)] = disk'[At(cache', node', p)]
    <3>1. \A c \in Blocks : (c \notin dirty => cache[c] = disk[c]) /\ c \notin dirty'
             => cache'[c] = disk'[c]
      BY <1>6, <1>9, Zenon
    <3>2. ASSUME NEW p \in Places, At(cache, node, p) \notin dirty \cup {NoBlock}
          PROVE  cache[At(cache, node, p)] = disk[At(cache, node, p)]
      BY <3>2, Zenon
    <3> TAKE p \in Places
    <3>3. At(cache', node', p) = At(cache, node, p) /\ At(cache, node, p) \in Blocks \cup {NoBlock}
      BY <1>14, Basics, Zenon
    <3>4. At(cache, node, p) \notin dirty \cup {NoBlock}
            => cache[At(cache, node, p)] = disk[At(cache, node, p)]
      BY <3>2, Zenon
    <3> QED
      BY <3>1, <3>3, <3>4, Zenon
  <2>4. (\A p, q \in Places : Where(p) = Where(q) => p = q \/ Where(p) = NoBlock)'
    BY <1>14, Zenon
  <2>5. Where(BgLeaf)' # NoBlock
    BY <1>14, PlaceFacts, Zenon
  <2> QED
    BY <1>2, <1>11, <2>2, <2>3, <2>4, <2>5, SMTT(30)
<1>17. SpaceInv'
  BY <1>2, <1>7, <1>14, Zenon DEF SpaceInv, Where
<1>18. FreshInv'
  <2>1. \A c \in Blocks : FreshIn(cache', generation', c) => FreshIn(cache, generation, c)
    BY <1>2, <1>5, <1>6, Zenon DEF FreshIn
  <2>2. \A c \in Blocks : cache'[c].written \/ cache'[c].gen <= generation'
    BY <1>2, <1>5, <1>6, Zenon DEF FreshInv
  <2>3. \A c \in Blocks : disk'[c].written \/ disk'[c].gen = 0
    BY <1>5, <1>6, Zenon DEF FreshInv
  <2> QED
    BY <1>2, <1>7, <1>11, <2>1, <2>2, <2>3, SMTT(30) DEF FreshInv, Fresh, Changing
<1>19. RootInv'
  BY <1>2, <1>7, <1>13, Basics, PlaceFacts, Zenon DEF RootInv, Synced
<1> QED
  BY <1>7, <1>8, <1>9, <1>10, <1>12, <1>16, <1>17, <1>18, <1>19, SMTT(30) DEF IInv, DirtyInv

\* So the write of a super block preserves the invariant.
LEMMA WriteSuperInv ==
    ASSUME TypeOK, ControlInv, SuperInv, DiskInv, MemInv, SpaceInv, FreshInv,
           DirtyInv, RootInv, WriteSuper
    PROVE  IInv'
<1>1. /\ pc = "write_super" /\ dirty = {} /\ NothingPending /\ dirty_roots = {}
      /\ mirror \in 0 .. NumMirrors - 1 /\ mirror' = mirror + 1 /\ mirror \in Mirrors
      /\ pc' = IF mirror + 1 = NumMirrors THEN "finish" ELSE "write_super"
      /\ UNCHANGED <<disk, memory, item, cont, goal, calls, crashes>>
  BY WriteSuperStep, Zenon
<1>2. super' \in [Mirrors -> [generation : 1 .. MaxGen, root : Blocks, bytes_used : Int]]
  BY WriteSuperStep, Zenon
<1>3. TypeOK'
  BY <1>1, <1>2, CowAssumption, SMTT(30) DEF TypeOK, memory
<1>4. cont.op = "none" /\ item.op = "none" /\ goal.op = "none" /\ cont.blk = NoBlock
  BY <1>1, OpFacts, SMTT(30) DEF NothingPending
<1>5. ControlInv'
  BY <1>1, <1>4, CowAssumption, SMTT(30) DEF ControlInv, NothingPending, memory
<1>6. SuperInv' /\ super'[0].generation = generation
  BY WriteSuperStep, Zenon
<1>7. DiskNode' = node
  BY WriteSuperStep, Zenon
<1>8. /\ \A p \in Places : At(disk', DiskNode', p) = At(cache, node, p)
      /\ \A b \in Blocks : Listed(disk', DiskNode', b) <=> Listed(cache, node, b)
  BY <1>1, <1>7, CleanTrees, Zenon
<1>9. Durable' = Live
  BY <1>8, Zenon DEF Durable, DiskPlaces, DiskWhere, Live, MemPlaces, Where
<1>10. DiskInv'
  <2>1. \A b \in Live : b \in Blocks /\ Listed(cache, node, b)
    <3>1. ~(item.op = "ins") /\ extent_ins = {}
      BY <1>1, <1>4, Basics, SMTT(30) DEF NothingPending
    <3>2. \A p \in Places : Where(p) # NoBlock => Listed(cache, node, Where(p))
      BY <3>1, <1>1, Zenon DEF MemInv, Covered
    <3>3. \A p \in Places : Where(p) # NoBlock => Where(p) \in Blocks
      BY <1>1, Basics, SMTT(30) DEF Where
    <3> QED
      BY <3>2, <3>3, Zenon DEF Live, MemPlaces
  <2>2. DiskNode' \in [Roots -> Blocks]
    BY <1>7, Basics, Zenon
  <2>3. (\A b \in Durable : Listed(disk, DiskNode, b))'
    <3> SUFFICES ASSUME NEW b \in Durable' PROVE Listed(disk', DiskNode', b)
      BY Zenon
    <3>1. b \in Live
      BY <1>9, Zenon
    <3>2. b \in Blocks /\ Listed(cache, node, b)
      BY <2>1, <3>1, Zenon
    <3> QED
      BY <1>8, <3>2, Zenon
  <2> QED
    BY <1>8, <2>2, <2>3, PlaceFacts, SMTT(30) DEF DiskInv, DiskWhere, MemInv, Where
<1>11. MemInv'
  BY <1>1, MemFrame, SMTT(30) DEF memory
<1>12. SpaceInv'
  <2>1. \A b \in free_space_cache : b \notin Live
    BY Zenon DEF SpaceInv, Live, MemPlaces
  <2> QED
    BY <1>1, <1>4, <1>9, <2>1, SMTT(30) DEF SpaceInv, Where, memory
<1>13. FreshInv'
  BY <1>1, <1>4, Zenon DEF FreshInv, memory, Changing
<1>14. RootInv'
  BY <1>1, <1>6, <1>7, SMTT(30) DEF RootInv, Synced, memory
<1> QED
  BY <1>1, <1>3, <1>5, <1>6, <1>10, <1>11, <1>12, <1>13, <1>14, SMTT(30) DEF IInv, DirtyInv, memory

\* btrfs_finish_extent_commit gives pinned extents back: by then no committed
\* tree uses them.
LEMMA FinishExtentCommitInv ==
    ASSUME TypeOK, ControlInv, SuperInv, DiskInv, MemInv, SpaceInv, FreshInv,
           DirtyInv, RootInv, FinishExtentCommit
    PROVE  IInv'
<1>1. /\ pc = "finish" /\ dirty = {} /\ NothingPending /\ dirty_roots = {} /\ Synced
      /\ free_space_cache' = free_space_cache \cup pinned_extents
      /\ pinned_extents' = {} /\ commit_root' = NoBlock
      /\ pc' = "idle" /\ mirror' = 0 /\ calls' = 0
      /\ UNCHANGED <<disk, super, cache, dirty, node, dirty_roots, extent_ins,
                   pending_del, generation, used, bg_dirty, item, cont, goal, crashes>>
  BY Zenon DEF FinishExtentCommit, ControlInv, Synced
<1>2. DiskNode' = DiskNode /\ Durable' = Durable /\ DiskInv' /\ SuperInv'
  BY <1>1, DiskFrame, Zenon
<1>3. cont.op = "none" /\ item.op = "none" /\ goal.op = "none" /\ cont.blk = NoBlock
  BY <1>1, OpFacts, SMTT(30) DEF NothingPending
<1>4. TypeOK'
  BY <1>1, CowAssumption, SMTT(30) DEF TypeOK
<1>5. ControlInv'
  BY <1>1, <1>3, Zenon DEF ControlInv, NothingPending
<1>6. MemInv'
  BY <1>1, MemFrame, Zenon
<1>7. Durable = Live
  <2>1. \A p \in Places : At(disk, DiskNode, p) = At(cache, node, p)
    BY <1>1, CleanTrees, SMTT(30) DEF RootInv
  <2> QED
    BY <2>1, Zenon DEF Durable, DiskPlaces, DiskWhere, Live, MemPlaces, Where
<1>8. SpaceInv'
  <2>1. \A b \in free_space_cache' : b \notin Live /\ b \in Blocks
    BY <1>1, Zenon DEF SpaceInv, Live, MemPlaces, TypeOK
  <2>2. \A p \in Places : Where(p) \notin free_space_cache'
    BY <1>1, Zenon DEF SpaceInv
  <2>3. pending_del' = {} /\ cont' = cont /\ item' = item /\ \A p \in Places : Where(p)' = Where(p)
    BY <1>1, Zenon DEF NothingPending, Where
  <2>4. \A b \in free_space_cache' : b \notin Durable' \cup pending_del' /\ b # cont'.blk
    <3>1. NoBlock \notin Blocks
      BY PlaceFacts, Zenon
    <3> QED
      BY <1>2, <1>3, <1>7, <2>1, <2>3, <3>1, SMTT(30)
  <2>5. \A p \in Places :
           /\ Where(p)' \notin free_space_cache' \cup pinned_extents' \cup pending_del'
           /\ Where(p)' # NoBlock => Where(p)' # cont'.blk
    BY <1>1, <1>3, <2>2, <2>3, SMTT(30)
  <2>6. ~(cont'.op # "none") /\ ~(item'.op = "del")
    BY <1>3, <2>3, Zenon
  <2> QED
    BY <2>4, <2>5, <2>6, Zenon DEF SpaceInv
<1>9. FreshInv'
  BY <1>1, <1>3, Zenon DEF FreshInv, Changing
<1>10. RootInv'
  BY <1>1, <1>2, Zenon DEF RootInv, Synced
<1> QED
  BY <1>1, <1>2, <1>4, <1>5, <1>6, <1>8, <1>9, <1>10, SMTT(30) DEF IInv, DirtyInv

\* open_ctree after any interruption rebuilds memory from the newest super
\* block; the free space it finds is disjoint from the committed trees.
LEMMA ReopenInv ==
    ASSUME TypeOK, ControlInv, SuperInv, DiskInv, MemInv, SpaceInv, FreshInv,
           DirtyInv, RootInv, Reopen, crashes' \in 0 .. MaxCrashes
    PROVE  IInv'
<1>1. /\ cache' = disk /\ dirty' = {} /\ node' = DiskNode /\ commit_root' = NoBlock
      /\ dirty_roots' = {} /\ free_space_cache' = Blocks \ DiskItems
      /\ pinned_extents' = {} /\ extent_ins' = {} /\ pending_del' = {}
      /\ generation' = Newest.generation /\ used' = disk[DiskWhere(BgLeaf)].used
      /\ bg_dirty' = FALSE /\ item' = NoOp /\ cont' = NoOp /\ goal' = NoOp
      /\ pc' = "idle" /\ mirror' = 0 /\ calls' = 0 /\ UNCHANGED <<disk, super>>
  BY Zenon DEF Reopen
<1>2. DiskNode' = DiskNode /\ Durable' = Durable /\ DiskInv'
  BY <1>1, DiskFrame, SMTT(30)
<1>3. /\ Newest = super[0] /\ 0 \in Mirrors /\ generation' = super[0].generation
      /\ generation' \in 1 .. MaxGen
  BY <1>1, FirstIsBest, Zenon DEF TypeOK
<1>4. /\ \A p \in Places : At(disk, DiskNode, p) \in Blocks \cup {NoBlock}
      /\ DiskNode \in [Roots -> Blocks] /\ disk \in [Blocks -> Images]
  BY AtType, Zenon DEF TypeOK, DiskInv
<1>5. used' \in Int
  <2>1. DiskWhere(BgLeaf) \in Blocks
    BY <1>4, PlaceFacts, SMTT(30) DEF DiskInv, DiskWhere
  <2> QED
    BY <2>1, <1>1, <1>4, Zenon DEF Images
<1>6. TypeOK'
  <2>1. mirror' \in 0 .. NumMirrors /\ calls' \in 0 .. MaxCalls
    BY <1>1, CowAssumption
  <2>2. free_space_cache' \subseteq Blocks /\ bg_dirty' \in BOOLEAN
    BY <1>1, Zenon
  <2>3. item' \in Ops /\ cont' \in Ops /\ goal' \in Ops
    BY <1>1, OpFacts, Zenon
  <2>4. /\ disk' \in [Blocks -> Images] /\ cache' \in [Blocks -> Images]
        /\ node' \in [Roots -> Blocks] /\ commit_root' \in Blocks \cup {NoBlock}
        /\ super' = super
    BY <1>1, <1>4, Zenon
  <2>5. pc' = "idle" /\ dirty' = {} /\ dirty_roots' = {}
        /\ pinned_extents' = {} /\ extent_ins' = {} /\ pending_del' = {}
    BY <1>1, Zenon
  <2> QED
    BY <1>3, <1>5, <2>1, <2>2, <2>3, <2>4, <2>5, SMTT(30) DEF TypeOK
<1>7. ControlInv'
  BY <1>1, OpFacts, SMTT(30) DEF ControlInv, NothingPending
<1>8. SuperInv'
  BY <1>1, <1>3, CowAssumption DEF SuperInv, TypeOK
<1>9. \A p \in Places : At(disk, DiskNode, p) # NoBlock
         => At(disk, DiskNode, p) \in Durable /\ At(disk, DiskNode, p) \in Blocks
  BY <1>4, Zenon DEF Durable, DiskPlaces, DiskWhere
<1>10. MemInv'
  <2> USE DEF MemInv, Where
  <2>1. (\A p \in Places : Where(p) # NoBlock => Covered(Where(p)))'
    <3> SUFFICES ASSUME NEW p \in Places, At(cache', node', p) # NoBlock
                 PROVE  Listed(cache', node', At(cache', node', p))
      BY Zenon DEF Covered
    <3> QED
      BY <1>1, <1>9, Zenon DEF DiskInv
  <2>2. /\ Where(BgLeaf)' # NoBlock
        /\ (\A p, q \in Places : Where(p) = Where(q) => p = q \/ Where(p) = NoBlock)'
    BY <1>1, Zenon DEF DiskInv, DiskWhere
  <2> QED
    BY <1>1, <2>1, <2>2, OpFacts, Zenon
<1>11. Durable \subseteq DiskItems
  <2> SUFFICES ASSUME NEW b \in Durable PROVE b \in DiskItems
    BY Zenon
  <2>1. b \in Blocks /\ Listed(disk, DiskNode, b)
    BY <1>4, Zenon DEF DiskInv, Durable, DiskPlaces, DiskWhere
  <2>2. /\ LeafOf[b] \in DiskPlaces \cap ExtLeaves
        /\ b \in disk[DiskWhere(LeafOf[b])].items
    BY <2>1, PlaceFacts, Zenon DEF Listed, DiskPlaces, DiskWhere
  <2> QED
    BY <2>2, Zenon DEF DiskItems
<1>12. SpaceInv'
  <2>1. \A b \in free_space_cache' : b \in Blocks /\ b \notin Durable
    BY <1>1, <1>11, Zenon
  <2>2. \A p \in Places : At(cache', node', p) \notin free_space_cache'
    BY <1>1, <1>4, <1>9, <2>1, PlaceFacts, Zenon
  <2> QED
    BY <1>1, <1>2, <2>1, <2>2, OpFacts, PlaceFacts, Zenon DEF SpaceInv, Where
<1>13. FreshInv'
  <2>1. \A b \in Blocks : cache'[b].written \/ cache'[b].gen <= generation'
    BY <1>1, <1>3, SMTT(30) DEF FreshInv
  <2> QED
    BY <1>1, <2>1, OpFacts, Zenon DEF FreshInv, Changing
<1>14. RootInv'
  <2>1. /\ disk[DiskNode["root_tree"]].kid["fs_root"].blk = DiskNode["fs_root"]
        /\ disk[DiskNode["root_tree"]].kid["extent_root"].blk = DiskNode["extent_root"]
    BY Zenon DEF DiskNode, Roots
  <2> QED
    BY <1>1, <1>2, <1>3, <2>1, SMTT(30) DEF RootInv, Synced
<1> QED
  BY <1>1, <1>2, <1>6, <1>7, <1>8, <1>10, <1>12, <1>13, <1>14, SMTT(30) DEF IInv, DirtyInv

\* A freshly made file system satisfies the invariant.
LEMMA InitInv ==
    ASSUME Counting, Init
    PROVE  IInv
<1>1. disk \in [Blocks -> Images] /\ cache = disk
  BY InitShape, Zenon
<1>2. /\ \A p \in DOMAIN FirstLayout : disk[FirstLayout[p]] = FirstImage(p)
      /\ \A r \in Roots : r \in DOMAIN FirstLayout /\ node[r] = FirstLayout[r]
      /\ BgLeaf \in DOMAIN FirstLayout
  BY InitShape, Zenon
<1>3. node \in [Roots -> Blocks]
  BY InitShape, Zenon
<1>4. TypeOK
  BY InitShape, Zenon
<1>5. ControlInv
  BY OpFacts, Zenon DEF Init, ControlInv, NothingPending
<1>6. \A m \in Mirrors : super[m].generation = 1 /\ super[m].root = FirstLayout["root_tree"]
  BY InitShape, Zenon
<1>7. 0 \in Mirrors /\ SuperInv
  BY InitShape, Zenon
<1>8. Newest = super[0]
  BY InitShape, Zenon
<1>9. /\ \A r \in Roots \ {"root_tree"} : disk[FirstLayout["root_tree"]].kid[r] = FirstPtr(r)
      /\ \A p \in Places \ Roots : disk[FirstLayout[RootOf(p)]].kid[p] = FirstPtr(p)
  BY InitShape, Zenon
<1>10. \A p \in Places : FirstPtr(p).blk = IF p \in DOMAIN FirstLayout THEN FirstLayout[p] ELSE NoBlock
  BY InitShape, Zenon
<1>11. DiskNode = node
  BY InitShape, Zenon
<1>12. \A p \in Places : At(disk, node, p) = IF p \in DOMAIN FirstLayout THEN FirstLayout[p] ELSE NoBlock
  BY InitShape, Zenon
<1> USE DEF Init
<1>13. Durable = FirstBlocks
  <2>1. \A p \in Places : DiskWhere(p) = IF p \in DOMAIN FirstLayout THEN FirstLayout[p] ELSE NoBlock
    BY <1>11, <1>12, Zenon DEF DiskWhere
  <2> QED
    BY <2>1, FirstFacts, PlaceFacts DEF Durable, DiskPlaces, FirstBlocks
<1>14. \A b \in FirstBlocks : Listed(disk, node, b)
  <2> TAKE b \in FirstBlocks
  <2>1. PICK p \in DOMAIN FirstLayout : b = FirstLayout[p]
    BY Zenon DEF FirstBlocks
  <2>2. /\ LeafOf[b] \in DOMAIN FirstLayout /\ LeafOf[b] \in ExtLeaves /\ LeafOf[b] \in Places
        /\ At(disk, node, LeafOf[b]) = FirstLayout[LeafOf[b]]
        /\ FirstLayout[LeafOf[b]] \in Blocks
    BY <2>1, <1>12, FirstFacts, PlaceFacts, CowAssumption, Zenon
  <2>3. disk[FirstLayout[LeafOf[b]]].items = {c \in FirstBlocks : LeafOf[c] = LeafOf[b]}
    <3> HIDE DEF Init
    <3> QED
      BY <2>2, <1>2, FirstImageParts, Zenon
  <2> QED
    BY <2>2, <2>3, PlaceFacts, Zenon DEF Listed
<1>15. /\ \A p, q \in Places : At(disk, node, p) = At(disk, node, q)
                                  => p = q \/ At(disk, node, p) = NoBlock
       /\ At(disk, node, BgLeaf) # NoBlock
  <2>1. \A p \in DOMAIN FirstLayout : FirstLayout[p] # NoBlock
    BY FirstFacts, PlaceFacts, Zenon
  <2>2. \A p, q \in DOMAIN FirstLayout : FirstLayout[p] = FirstLayout[q] => p = q
    BY FirstFacts, Zenon
  <2>3. BgLeaf \in Places
    BY PlaceFacts, Zenon
  <2> QED
    BY <1>2, <1>12, <2>1, <2>2, <2>3
<1>16. DiskInv
  BY <1>3, <1>11, <1>13, <1>14, <1>15, Zenon DEF DiskInv, DiskWhere
<1>17. \A p \in Places : At(disk, node, p) # NoBlock => At(disk, node, p) \in FirstBlocks
  BY <1>12, FirstFacts, Zenon
<1>18. MemInv
  <2>1. \A p \in Places : Where(p) # NoBlock => Covered(Where(p))
    BY <1>14, <1>17, Zenon DEF Where, Covered
  <2> QED
    BY <1>15, <2>1, OpFacts DEF MemInv, Where
<1>19. SpaceInv
  <2>1. \A p \in Places : Where(p) \notin free_space_cache
    BY <1>17, PlaceFacts, SMTT(30) DEF Where
  <2> QED
    BY <1>13, <2>1, OpFacts, PlaceFacts, Zenon DEF SpaceInv
<1>20. FreshInv
  <2>1. \A b \in Blocks : (disk[b].written /\ disk[b].gen = 1) \/ disk[b].gen = 0
    BY Zenon DEF FirstImage, BlankImage
  <2> QED
    <3>1. /\ cache = disk /\ pc = "idle" /\ generation = 1 /\ cont = NoOp
      BY Zenon
    <3> HIDE DEF Init
    <3>2. /\ \A b \in Blocks : cache[b].written \/ cache[b].gen <= generation
          /\ \A b \in Blocks : disk[b].written \/ disk[b].gen = 0
      BY <2>1, <3>1
    <3>3. /\ ~Changing /\ pc \notin {"dirty_roots", "write_bgs", "root_item"}
          /\ cont.op # "attach" /\ cont.op # "link"
      BY <3>1, OpFacts, Zenon DEF Changing
    <3> QED
      BY <3>2, <3>3, Zenon DEF FreshInv
<1>21. RootInv
  <2>1. /\ cache = disk /\ pc = "idle" /\ generation = 1 /\ super[0].generation = 1
    BY <1>6, <1>7, Zenon
  <2> HIDE DEF Init
  <2>2. \A r \in {"fs_root", "extent_root"} : disk[node["root_tree"]].kid[r].blk = node[r]
    BY <1>2, <1>9, <1>10, PlaceFacts DEF Roots
  <2> QED
    BY <1>11, <2>1, <2>2, Zenon DEF RootInv
<1> QED
  BY <1>4, <1>5, <1>7, <1>16, <1>18, <1>19, <1>20, <1>21, SMTT(30) DEF IInv, DirtyInv

\* What find_free_extent offers is neither committed nor in use.
LEMMA FreeIsFree == IInv => NeverHandedOutTwice
<1> SUFFICES ASSUME IInv, NEW b \in find_free_extent
             PROVE  b \notin Durable /\ b \notin Live /\ b \notin pending_del
  BY Zenon DEF NeverHandedOutTwice
<1>1. b \in free_space_cache
  BY Zenon DEF find_free_extent, First
<1> QED
  BY <1>1, Zenon DEF IInv, SpaceInv, Live, MemPlaces

\* A step leaves the blocks of the committed trees on the device alone.
LEMMA CommittedStays == IInv /\ [Next]_vars => [\A b \in Durable : disk'[b] = disk[b]]_vars
<1> SUFFICES ASSUME IInv, Next PROVE \A b \in Durable : disk'[b] = disk[b]
  BY Zenon
<1>1. CASE WriteTreeBlock
  <2>1. PICK w \in dirty : disk' = [disk EXCEPT ![w] = [cache[w] EXCEPT !.written = TRUE]]
    BY <1>1, Zenon DEF WriteTreeBlock, First
  <2>2. w \notin Durable /\ DOMAIN disk = Blocks
    BY Zenon DEF IInv, DirtyInv, TypeOK
  <2>3. \A b \in Durable : b \in Blocks
    <3>1. disk \in [Blocks -> Images] /\ DiskNode \in [Roots -> Blocks]
      BY Zenon DEF IInv, TypeOK, DiskInv
    <3>2. \A p \in Places : At(disk, DiskNode, p) \in Blocks \cup {NoBlock}
      BY <3>1, AtType, Zenon
    <3> QED
      BY <3>2, Zenon DEF Durable, DiskPlaces, DiskWhere
  <2> QED
    BY <2>1, <2>2, <2>3, Zenon
<1>2. CASE ~WriteTreeBlock
  <2>1. disk' = disk
    BY <1>2, Zenon DEF Next, Step, Call, Crash, Reopen, NoSpace, CowExtentNode, CowExtentLeaf,
       AddExtentLeaf, InsertExtentItem, DeleteExtentItem, WriteBlockGroupItem,
       FinishCurrentInsert, DelPendingExtents, CowBlock, AttachCow, PutValue, AllocLeaf,
       Allocate, LinkLeaf, DelLeaf, UpdateRoot, CowTreeRoot, NextDirtyRoot,
       WriteDirtyBlockGroups, UpdateCowonlyRoot, AllWritten, WriteSuper,
       FinishExtentCommit, StartTransaction, CommitTransaction, Put, New, Del, SetGoal
  <2> QED
    BY <2>1, Zenon
<1> QED
  BY <1>1, <1>2, Zenon

-----------------------------------------------------------------------------
(* They keep FsckInv *)

\* Images that agree on the blocks of a tree show the same tree.
LEMMA SameView ==
    ASSUME NEW c \in [Blocks -> Images], NEW d \in [Blocks -> Images],
           NEW nd \in [Roots -> Blocks],
           \A p \in Places : At(c, nd, p) # NoBlock =>
              /\ d[At(c, nd, p)].gen = c[At(c, nd, p)].gen
              /\ d[At(c, nd, p)].kid = c[At(c, nd, p)].kid
              /\ d[At(c, nd, p)].items = c[At(c, nd, p)].items
              /\ d[At(c, nd, p)].used = c[At(c, nd, p)].used
    PROVE  /\ \A p \in Places : At(d, nd, p) = At(c, nd, p)
           /\ \A b \in Blocks : Listed(d, nd, b) <=> Listed(c, nd, b)
           /\ TreeOK(c, nd) => TreeOK(d, nd)
           /\ At(c, nd, BgLeaf) # NoBlock
                 => d[At(d, nd, BgLeaf)].used = c[At(c, nd, BgLeaf)].used
<1>1. \A r \in Roots : /\ nd[r] \in Blocks /\ nd[r] # NoBlock /\ At(c, nd, r) = nd[r]
                       /\ d[nd[r]].gen = c[nd[r]].gen /\ d[nd[r]].kid = c[nd[r]].kid
  <2> TAKE r \in Roots
  <2>1. nd[r] \in Blocks /\ At(c, nd, r) = nd[r]
    BY Zenon DEF At
  <2>2. r \in Places /\ nd[r] # NoBlock
    BY <2>1, PlaceFacts, Zenon
  <2> QED
    BY <2>1, <2>2, Zenon
<1>2. \A p \in Places : At(d, nd, p) = At(c, nd, p)
  BY <1>1, PlaceFacts, Zenon DEF At
<1>3. \A b \in Blocks : Listed(d, nd, b) <=> Listed(c, nd, b)
  BY <1>2, PlaceFacts, Zenon DEF Listed
<1>4. ASSUME TreeOK(c, nd) PROVE TreeOK(d, nd)
  <2>1. \A p, q \in Places : At(d, nd, p) # NoBlock /\ ~ChildOf(p, q)
                                => d[At(d, nd, p)].kid[q] = NoPtr
    BY <1>2, <1>4 DEF TreeOK
  <2>2. \A q \in Places \ Roots : At(d, nd, q) # NoBlock
           => d[nd[RootOf(q)]].kid[q].gen = d[At(d, nd, q)].gen
    BY <1>1, <1>2, <1>4, PlaceFacts DEF TreeOK
  <2>3. \A r \in Roots \ {"root_tree"} : d[nd["root_tree"]].kid[r].blk = nd[r]
           => d[nd["root_tree"]].kid[r].gen = d[nd[r]].gen
    BY <1>1, <1>4, PlaceFacts, Zenon DEF TreeOK
  <2>4. \A q \in ExtLeaves : At(d, nd, q) # NoBlock
           => \A b \in d[At(d, nd, q)].items : LeafOf[b] = q
    <3>1. \A q \in ExtLeaves : q \in Places /\ At(d, nd, q) = At(c, nd, q)
      BY <1>2, PlaceFacts, Zenon
    <3>2. \A q \in ExtLeaves : At(c, nd, q) # NoBlock
             => \A b \in c[At(c, nd, q)].items : LeafOf[b] = q
      BY <1>4, Zenon DEF TreeOK
    <3> QED
      BY <3>1, <3>2, Zenon
  <2> QED
    BY <2>1, <2>2, <2>3, <2>4, Zenon DEF TreeOK
<1>5. At(c, nd, BgLeaf) # NoBlock => d[At(d, nd, BgLeaf)].used = c[At(c, nd, BgLeaf)].used
  BY <1>2, PlaceFacts, Zenon
<1> QED
  BY <1>2, <1>3, <1>4, <1>5, Zenon

\* Trees in order stay so.
LEMMA SameClean ==
    ASSUME NEW c \in [Blocks -> Images], NEW d \in [Blocks -> Images],
           NEW nd \in [Roots -> Blocks], NEW g, NEW u, CleanAt(c, nd, g, u),
           At(c, nd, BgLeaf) # NoBlock,
           \A p \in Places : At(c, nd, p) # NoBlock => d[At(c, nd, p)] = c[At(c, nd, p)]
    PROVE  CleanAt(d, nd, g, u)
<1>1. /\ \A p \in Places : At(d, nd, p) = At(c, nd, p)
      /\ \A b \in Blocks : Listed(d, nd, b) <=> Listed(c, nd, b)
      /\ TreeOK(d, nd)
      /\ d[At(d, nd, BgLeaf)].used = c[At(c, nd, BgLeaf)].used
  BY SameView DEF CleanAt
<1>2. ListedBlocks(d, nd) = ListedBlocks(c, nd)
  BY <1>1, Zenon DEF ListedBlocks
<1>3. d[nd["root_tree"]].gen = c[nd["root_tree"]].gen
  <2>1. "root_tree" \in Places /\ At(c, nd, "root_tree") = nd["root_tree"]
    BY PlaceFacts, Zenon DEF At
  <2>2. nd["root_tree"] # NoBlock
    <3>1. nd["root_tree"] \in Blocks
      BY PlaceFacts, Zenon
    <3> QED
      BY <3>1, CowAssumption, Zenon
  <2> QED
    BY <2>1, <2>2, Zenon
<1>4. \A b \in Blocks : Listed(d, nd, b) <=> \E p \in Places : At(d, nd, p) = b
  BY <1>1, Zenon DEF CleanAt
<1> QED
  BY <1>1, <1>2, <1>3, <1>4, Zenon DEF CleanAt

\* The write of a dirty buffer changes neither the trees in memory nor the
\* committed ones.
LEMMA WriteTreeBlockFsck ==
    ASSUME FsckInv, IInv', WriteTreeBlock
    PROVE  FsckInv'
<1>1. /\ IInv /\ TreeOK(cache, node) /\ RootItemInv /\ ItemInv /\ CountInv /\ DiskOK
      /\ TypeOK /\ ControlInv /\ MemInv /\ SpaceInv /\ DiskInv /\ DirtyInv
  BY Parts, Zenon DEF FsckInv
<1>2. IInv'
  BY Zenon
<1>3. PICK b \in dirty :
         /\ cache' = [cache EXCEPT ![b].written = TRUE]
         /\ disk' = [disk EXCEPT ![b] = [cache[b] EXCEPT !.written = TRUE]]
  BY Zenon DEF WriteTreeBlock, First
<1> DEFINE i == [cache[b] EXCEPT !.written = TRUE]
<1>4. /\ pc = "write_blocks"
      /\ UNCHANGED <<super, node, dirty_roots, free_space_cache, pinned_extents, extent_ins,
                     pending_del, generation, used, bg_dirty, item, cont, pc>>
  BY Zenon DEF WriteTreeBlock, control
<1>5. /\ b \in Blocks /\ b \notin Durable /\ cache[b] \in Images
      /\ cache \in [Blocks -> Images] /\ disk \in [Blocks -> Images]
      /\ node \in [Roots -> Blocks]
  BY <1>1, Zenon DEF TypeOK, DirtyInv
<1>6. cache' = [cache EXCEPT ![b] = i] /\ disk' = [disk EXCEPT ![b] = i]
  BY <1>3, Zenon
<1>7. /\ i \in Images /\ i.gen = cache[b].gen
      /\ i.kid = cache[b].kid /\ i.items = cache[b].items /\ i.used = cache[b].used
  BY <1>5, WrittenImage, Zenon
<1> HIDE DEF i
<1>8. /\ cache' \in [Blocks -> Images] /\ disk' \in [Blocks -> Images]
      /\ cache'[b] = i /\ \A c \in Blocks : c # b => cache'[c] = cache[c] /\ disk'[c] = disk[c]
  BY <1>5, <1>6, <1>7, Zenon
<1>9. \A c \in Blocks : /\ cache'[c].gen = cache[c].gen /\ cache'[c].kid = cache[c].kid
                        /\ cache'[c].items = cache[c].items /\ cache'[c].used = cache[c].used
  BY <1>7, <1>8, Zenon
<1>10. /\ \A p \in Places : At(cache', node, p) = At(cache, node, p)
       /\ \A c \in Blocks : Listed(cache', node, c) <=> Listed(cache, node, c)
       /\ TreeOK(cache', node)
       /\ cache'[At(cache', node, BgLeaf)].used = cache[At(cache, node, BgLeaf)].used
  <2>1. \A p \in Places : At(cache, node, p) # NoBlock => At(cache, node, p) \in Blocks
    BY <1>1, Basics, Zenon
  <2>2. At(cache, node, BgLeaf) # NoBlock
    BY <1>1, Zenon DEF MemInv, Where
  <2> QED
    <3>1. \A p \in Places : At(cache, node, p) # NoBlock =>
             /\ cache'[At(cache, node, p)].gen = cache[At(cache, node, p)].gen
             /\ cache'[At(cache, node, p)].kid = cache[At(cache, node, p)].kid
             /\ cache'[At(cache, node, p)].items = cache[At(cache, node, p)].items
             /\ cache'[At(cache, node, p)].used = cache[At(cache, node, p)].used
      BY <1>9, <2>1, Zenon
    <3> QED
      BY <1>1, <1>5, <1>8, <2>2, <3>1, SameView
<1>11. DiskNode' = DiskNode /\ Newest' = Newest
  <2>1. DiskNode' = DiskNode
    BY <1>1, <1>4, <1>5, <1>8, DiskFrameOutside, Zenon
  <2> QED
    BY <1>4, <2>1, Zenon DEF Newest, BestMirror
<1>12. RootItemInv'
  <2>1. \A r \in Roots : node[r] \in Blocks
    BY <1>5, Zenon
  <2> QED
    <3>1. \A r \in Roots : /\ cache'[node[r]].gen = cache[node[r]].gen
                            /\ cache'[node[r]].kid = cache[node[r]].kid
      BY <1>9, <2>1, Zenon
    <3>2. "root_tree" \in Roots /\ "fs_root" \in Roots
      BY PlaceFacts, Zenon
    <3> QED
      BY <1>1, <1>4, <1>11, <3>1, <3>2, Zenon DEF RootItemInv, Fresh
<1>13. ItemInv'
  BY <1>1, <1>4, <1>10, ItemsKept, Zenon
<1>14. CountInv'
  <2>1. ListedBlocks(cache', node') = ListedBlocks(cache, node)
    BY <1>4, <1>10, Zenon DEF ListedBlocks
  <2> QED
    BY <1>1, <1>4, <1>10, <2>1, Zenon DEF CountInv, Where
<1>15. DiskOK'
  <2>1. \A p \in Places : At(disk, DiskNode, p) # NoBlock
           => disk'[At(disk, DiskNode, p)] = disk[At(disk, DiskNode, p)]
    <3>1. \A p \in Places : At(disk, DiskNode, p) # NoBlock
             => At(disk, DiskNode, p) \in Durable /\ At(disk, DiskNode, p) \in Blocks
      BY <1>1, AtType, Zenon DEF TypeOK, DiskInv, Durable, DiskPlaces, DiskWhere
    <3> QED
      BY <1>5, <1>8, <3>1, Zenon
  <2>2. DiskNode \in [Roots -> Blocks] /\ At(disk, DiskNode, BgLeaf) # NoBlock
    BY <1>1, Zenon DEF DiskInv, DiskWhere
  <2>3. CleanAt(disk', DiskNode, Newest.generation, Newest.bytes_used)
    BY <1>1, <1>5, <1>8, <2>1, <2>2, SameClean, Zenon DEF DiskOK
  <2> QED
    BY <1>11, <2>3, Zenon DEF DiskOK
<1> QED
  BY <1>2, <1>4, <1>10, <1>12, <1>13, <1>14, <1>15, Zenon DEF FsckInv

\* While nothing is queued the blocks with an item are the blocks of the trees.
LEMMA QuietItems ==
    ASSUME IInv, ItemInv, NothingPending
    PROVE  \A b \in Blocks : /\ Covered(b) <=> Listed(cache, node, b)
                             /\ Listed(cache, node, b) <=> \E p \in Places : At(cache, node, p) = b
<1>1. MemInv
  BY Parts, Zenon
<1>2. item.op = "none" /\ cont.op = "none" /\ extent_ins = {} /\ pending_del = {}
  BY OpFacts, Zenon DEF NothingPending
<1>3. \A b \in Blocks : Covered(b) <=> Listed(cache, node, b)
  BY <1>2, Zenon DEF Covered
<1>4. \A b \in Blocks : Covered(b) => \E p \in Places : At(cache, node, p) = b
  BY <1>2, Zenon DEF ItemInv, Owned, Where
<1>5. ASSUME NEW b \in Blocks, NEW p \in Places, At(cache, node, p) = b
      PROVE  Covered(b)
  BY <1>1, <1>5, PlaceFacts, Zenon DEF MemInv, Where
<1> QED
  BY <1>3, <1>4, <1>5, Zenon

\* The first super block written switches to trees that are in order, and the
\* others change nothing a reopening would see.
LEMMA WriteSuperFsck ==
    ASSUME FsckInv, IInv', WriteSuper
    PROVE  FsckInv'
<1>1. /\ IInv /\ TreeOK(cache, node) /\ RootItemInv /\ ItemInv /\ CountInv /\ DiskOK
      /\ TypeOK /\ ControlInv /\ MemInv /\ SpaceInv /\ DiskInv /\ RootInv
  BY Parts, Zenon DEF FsckInv
<1>2. IInv'
  BY Zenon
<1>3. /\ pc = "write_super" /\ dirty = {} /\ NothingPending /\ dirty_roots = {}
      /\ pc' = IF mirror + 1 = NumMirrors THEN "finish" ELSE "write_super"
      /\ UNCHANGED <<disk, memory, item, cont, goal, calls, crashes>>
      /\ DiskNode' = node /\ Newest'.generation = generation
      /\ IF mirror = 0 THEN Newest'.bytes_used = used
                       ELSE Newest' = Newest /\ DiskNode = node
  BY <1>1, Parts, WriteSuperStep, Zenon
<1>4. /\ UNCHANGED <<disk, cache, node, dirty_roots, free_space_cache, pinned_extents, extent_ins,
                     pending_del, generation, used, bg_dirty, item, cont, goal>>
      /\ pc' \in {"finish", "write_super"}
  BY <1>3, Zenon DEF memory
<1>5. RootItemInv'
  <2>1. \A r \in Roots \ {"root_tree"} : cache[node["root_tree"]].kid[r].blk = node[r]
    BY <1>1, <1>3, Zenon DEF RootInv, Roots
  <2>2. cache[node["root_tree"]].gen = generation
    BY <1>1, <1>3, Zenon DEF RootItemInv
  <2>3. \A r \in Roots \ {"root_tree"} : node'[r] = DiskNode'[r]
    BY <1>3, <1>4, Zenon
  <2>4. pc' # "run" /\ pc' # "update_root"
    BY <1>4, Zenon
  <2> QED
    BY <1>4, <2>1, <2>2, <2>3, <2>4, Zenon DEF RootItemInv
<1>6. ItemInv'
  BY <1>1, <1>4, ItemsKept, Zenon
<1>7. CountInv'
  <2>1. ~bg_dirty
    BY <1>1, <1>3, Zenon DEF CountInv
  <2> QED
    BY <1>1, <1>4, <2>1, Zenon DEF CountInv, Where
<1>8. CASE mirror = 0
  <2>1. item.op # "bg" /\ ~bg_dirty
    BY <1>1, <1>3, OpFacts, Zenon DEF NothingPending, CountInv
  <2>2. CleanAt(cache, node, generation, used)
    <3>1. \A b \in Blocks : Listed(cache, node, b) <=> \E p \in Places : At(cache, node, p) = b
      BY <1>1, <1>3, QuietItems, Zenon
    <3>2. cache[At(cache, node, BgLeaf)].used = used /\ used = Cardinality(ListedBlocks(cache, node))
      BY <1>1, <2>1, Zenon DEF CountInv, Where
    <3>3. cache[node["root_tree"]].gen = generation
      BY <1>1, <1>3, Zenon DEF RootItemInv
    <3> QED
      BY <1>1, <3>1, <3>2, <3>3, Zenon DEF CleanAt
  <2>3. /\ \A p \in Places : At(cache, node, p) # NoBlock
              => disk[At(cache, node, p)] = cache[At(cache, node, p)]
        /\ At(cache, node, BgLeaf) # NoBlock
    BY <1>1, <1>3, Zenon DEF MemInv, Where
  <2>4. CleanAt(disk, node, generation, used)
    BY <1>1, <2>2, <2>3, SameClean, Zenon DEF TypeOK
  <2> QED
    BY <1>2, <1>1, <1>3, <1>4, <1>5, <1>6, <1>7, <1>8, <2>4, Zenon DEF FsckInv, DiskOK
<1>9. CASE mirror # 0
  BY <1>1, <1>2, <1>3, <1>4, <1>5, <1>6, <1>7, <1>9, Zenon DEF FsckInv, DiskOK
<1> QED
  BY <1>8, <1>9, Zenon

\* Pinned extents that become free keep the books.
LEMMA FinishExtentCommitFsck ==
    ASSUME FsckInv, IInv', FinishExtentCommit
    PROVE  FsckInv'
<1>1. /\ IInv /\ TreeOK(cache, node) /\ RootItemInv /\ ItemInv /\ CountInv /\ DiskOK
      /\ TypeOK /\ ControlInv /\ RootInv
  BY Parts, Zenon DEF FsckInv
<1>2. IInv'
  BY Zenon
<1>3. /\ pc = "finish" /\ pc' = "idle" /\ pinned_extents' = {}
      /\ free_space_cache' = free_space_cache \cup pinned_extents
      /\ UNCHANGED <<disk, super, cache, node, dirty_roots, extent_ins,
                     pending_del, generation, used, bg_dirty, item, cont>>
  BY Zenon DEF FinishExtentCommit
<1>4. \A b \in Blocks : (Covered(b)' <=> Covered(b)) /\ (Owned(b)' <=> Owned(b))
  BY <1>3, Zenon DEF Covered, Owned, Where
<1>5. ItemInv'
  <2>1. (\A b \in Blocks : Covered(b) => Owned(b))'
    BY <1>1, <1>4, Zenon DEF ItemInv
  <2>2. pending_del \subseteq Blocks /\ \A b \in pending_del : Covered(b)
    BY <1>1, Zenon DEF ItemInv, TypeOK
  <2>3. (\A b \in pending_del : Covered(b))'
    BY <1>3, <1>4, <2>2, Zenon
  <2>4. (\A b \in Blocks : b \in free_space_cache \/ b \in pinned_extents \/ Covered(b))'
    BY <1>1, <1>3, <1>4, Zenon DEF ItemInv
  <2>5. /\ (item.op = "del" => Listed(cache, node, item.blk))'
        /\ (item.op = "ins" => ~Listed(cache, node, item.blk))'
        /\ (\A b \in extent_ins : ~Listed(cache, node, b))'
    BY <1>1, <1>3, Zenon DEF ItemInv
  <2> QED
    BY <1>3, <2>1, <2>3, <2>4, <2>5, Zenon DEF ItemInv
<1>6. RootItemInv'
  BY <1>1, <1>3, RootItemsControl, Zenon
<1>7. CountInv'
  BY <1>1, <1>3, Zenon DEF CountInv, Where
<1>8. DiskOK'
  BY <1>1, <1>3, DiskKept, Zenon
<1> QED
  BY <1>1, <1>2, <1>3, <1>5, <1>6, <1>7, <1>8, Zenon DEF FsckInv

\* Memory as open_ctree leaves it.
Opened ==
    /\ cache = disk /\ node = DiskNode /\ dirty_roots = {}
    /\ free_space_cache = Blocks \ DiskItems /\ pinned_extents = {} /\ extent_ins = {}
    /\ pending_del = {} /\ used = disk[DiskWhere(BgLeaf)].used /\ bg_dirty = FALSE
    /\ item = NoOp /\ cont = NoOp /\ pc = "idle"

\* The items on the device are those the leaves should hold.
LEMMA DiskItemsListed ==
    ASSUME TypeOK, DiskInv, TreeOK(disk, DiskNode)
    PROVE  DiskItems = ListedBlocks(disk, DiskNode)
<1>1. \A p \in Places : At(disk, DiskNode, p) \in Blocks \cup {NoBlock}
  BY AtType, Zenon DEF TypeOK, DiskInv
<1>2. \A b \in Blocks : disk[b].items \subseteq Blocks
  BY Zenon DEF TypeOK, Images
<1>3. ASSUME NEW b \in DiskItems PROVE b \in ListedBlocks(disk, DiskNode)
  <2>1. PICK p \in ExtLeaves : /\ p \in Places /\ At(disk, DiskNode, p) # NoBlock
                               /\ b \in disk[At(disk, DiskNode, p)].items
    BY <1>3, Zenon DEF DiskItems, DiskPlaces, DiskWhere
  <2>2. LeafOf[b] = p /\ b \in Blocks
    BY <1>1, <1>2, <2>1, Zenon DEF TreeOK
  <2> QED
    BY <2>1, <2>2, Zenon DEF ListedBlocks, Listed
<1>4. ASSUME NEW b \in ListedBlocks(disk, DiskNode) PROVE b \in DiskItems
  <2>1. /\ LeafOf[b] \in ExtLeaves /\ LeafOf[b] \in Places
        /\ At(disk, DiskNode, LeafOf[b]) # NoBlock
        /\ b \in disk[At(disk, DiskNode, LeafOf[b])].items
    BY <1>4, PlaceFacts, Zenon DEF ListedBlocks, Listed
  <2> QED
    BY <2>1, Zenon DEF DiskItems, DiskPlaces, DiskWhere
<1> QED
  BY <1>3, <1>4, Zenon

\* Opening a file system whose trees are in order yields books in order.
LEMMA OpenedFsck == IInv /\ Opened /\ DiskOK => FsckInv
<1> SUFFICES ASSUME IInv, Opened, DiskOK PROVE FsckInv
  BY Zenon
<1>1. TypeOK /\ DiskInv /\ TreeOK(disk, DiskNode)
  BY Parts, Zenon DEF DiskOK, CleanAt
<1>2. DiskItems = ListedBlocks(disk, DiskNode)
  BY <1>1, DiskItemsListed, Zenon
<1>3. /\ cache = disk /\ node = DiskNode /\ dirty_roots = {}
      /\ free_space_cache = Blocks \ DiskItems /\ pinned_extents = {} /\ extent_ins = {}
      /\ pending_del = {} /\ used = disk[DiskWhere(BgLeaf)].used /\ bg_dirty = FALSE
      /\ item.op = "none" /\ cont.op = "none" /\ pc = "idle"
  BY OpFacts, Zenon DEF Opened
<1>4. RootItemInv
  <2>1. \A r \in Roots \ {"root_tree"} : disk[DiskNode["root_tree"]].kid[r].blk = DiskNode[r]
    BY PlaceFacts, Zenon DEF DiskNode
  <2> QED
    BY <1>3, <2>1, Zenon DEF RootItemInv
<1>5. ItemInv
  <2>1. \A b \in Blocks : Covered(b) <=> Listed(disk, DiskNode, b)
    BY <1>3, Zenon DEF Covered
  <2>2. \A b \in Blocks : Listed(disk, DiskNode, b) => Owned(b)
    BY <1>3, Zenon DEF Owned, Where, DiskOK, CleanAt
  <2>3. \A b \in Blocks : b \in free_space_cache \/ Covered(b)
    BY <1>2, <1>3, <2>1, Zenon DEF ListedBlocks
  <2> QED
    BY <1>3, <2>1, <2>2, <2>3, Zenon DEF ItemInv
<1>6. CountInv
  <2>1. used = Cardinality(ListedBlocks(cache, node)) /\ cache[Where(BgLeaf)].used = used
    BY <1>3, Zenon DEF DiskOK, CleanAt, Where, DiskWhere
  <2> QED
    BY <1>3, <2>1, Zenon DEF CountInv
<1> QED
  BY <1>1, <1>3, <1>4, <1>5, <1>6, Zenon DEF FsckInv

\* The same of the state after a step.
LEMMA OpenedFsckNext == (IInv /\ Opened /\ DiskOK => FsckInv)'
<1>1. IInv /\ Opened /\ DiskOK => FsckInv
  BY OpenedFsck, Zenon
<1> QED
  BY <1>1, PTL

\* open_ctree after any interruption finds books in order.
LEMMA ReopenFsck ==
    ASSUME FsckInv, IInv', Reopen, crashes' \in 0 .. MaxCrashes
    PROVE  FsckInv'
<1>1. IInv /\ DiskOK
  BY Zenon DEF FsckInv
<1>2. IInv'
  BY Zenon
<1>3. UNCHANGED <<disk, super>>
  BY Zenon DEF Reopen
<1>4. DiskOK'
  BY <1>1, <1>3, DiskKept, Zenon
<1>5. DiskNode' = DiskNode
  BY <1>3, DiskFrame, Parts, <1>1, Zenon
<1>6. Opened'
  <2>1. DiskItems' = DiskItems /\ DiskWhere(BgLeaf)' = DiskWhere(BgLeaf)
    BY <1>3, <1>5, Zenon DEF DiskItems, DiskPlaces, DiskWhere
  <2> QED
    BY <1>3, <1>5, <2>1, Zenon DEF Opened, Reopen
<1> QED
  BY <1>2, <1>4, <1>6, OpenedFsckNext, Zenon

\* mkfs leaves trees that are in order.
LEMMA FirstClean ==
    ASSUME Counting, Init, IInv
    PROVE  DiskOK /\ Opened
<1>1. /\ disk \in [Blocks -> Images] /\ cache = disk /\ node \in [Roots -> Blocks]
      /\ \A p \in DOMAIN FirstLayout : disk[FirstLayout[p]] = FirstImage(p)
      /\ \A r \in Roots : r \in DOMAIN FirstLayout /\ node[r] = FirstLayout[r]
      /\ BgLeaf \in DOMAIN FirstLayout /\ TypeOK
  BY InitShape, Zenon
<1>2. /\ \A r \in Roots \ {"root_tree"} : disk[FirstLayout["root_tree"]].kid[r] = FirstPtr(r)
      /\ \A p \in Places \ Roots : disk[FirstLayout[RootOf(p)]].kid[p] = FirstPtr(p)
      /\ DiskNode = node /\ Newest = super[0] /\ 0 \in Mirrors
      /\ \A p \in Places : At(disk, node, p) = IF p \in DOMAIN FirstLayout THEN FirstLayout[p] ELSE NoBlock
  BY InitShape, Zenon
<1>3. \A p \in DOMAIN FirstLayout : /\ FirstLayout[p] \in Blocks /\ FirstLayout[p] \in FirstBlocks
                                    /\ FirstLayout[p] # NoBlock /\ p \in Places
                                    /\ FirstImage(p).gen = 1 /\ FirstPtr(p).gen = 1
  BY FirstFacts, PlaceFacts, Zenon DEF FirstImage, FirstPtr
<1>4. TreeOK(disk, node)
  <2>1. \A p, q \in Places : At(disk, node, p) # NoBlock /\ ~ChildOf(p, q)
                                => disk[At(disk, node, p)].kid[q] = NoPtr
    <3> TAKE p, q \in Places
    <3> HAVE At(disk, node, p) # NoBlock /\ ~ChildOf(p, q)
    <3>1. disk[At(disk, node, p)] = FirstImage(p)
      BY <1>1, <1>2, Zenon
    <3>2. FirstImage(p).kid[q] = NoPtr
      BY Zenon DEF FirstImage, ChildOf
    <3> QED
      BY <3>1, <3>2, Zenon
  <2>2. \A q \in Places \ Roots : At(disk, node, q) # NoBlock
           => disk[node[RootOf(q)]].kid[q].gen = disk[At(disk, node, q)].gen
    <3> TAKE q \in Places \ Roots
    <3> HAVE At(disk, node, q) # NoBlock
    <3>1. q \in DOMAIN FirstLayout /\ disk[At(disk, node, q)] = FirstImage(q)
      BY <1>1, <1>2, Zenon
    <3>2. disk[node[RootOf(q)]].kid[q] = FirstPtr(q)
      BY <1>1, <1>2, PlaceFacts, Zenon
    <3> QED
      BY <1>3, <3>1, <3>2, Zenon
  <2>3. \A r \in Roots \ {"root_tree"} : disk[node["root_tree"]].kid[r].blk = node[r]
           => disk[node["root_tree"]].kid[r].gen = disk[node[r]].gen
    <3> TAKE r \in Roots \ {"root_tree"}
    <3>1. disk[node["root_tree"]].kid[r] = FirstPtr(r) /\ disk[node[r]] = FirstImage(r)
          /\ r \in DOMAIN FirstLayout
      BY <1>1, <1>2, PlaceFacts, Zenon
    <3> QED
      BY <1>3, <3>1, Zenon
  <2>4. \A q \in ExtLeaves : At(disk, node, q) # NoBlock
           => \A b \in disk[At(disk, node, q)].items : LeafOf[b] = q
    <3> TAKE q \in ExtLeaves
    <3> HAVE At(disk, node, q) # NoBlock
    <3>1. disk[At(disk, node, q)] = FirstImage(q)
      BY <1>1, <1>2, PlaceFacts, Zenon
    <3> QED
      BY <3>1, FirstImageParts, Zenon
  <2> QED
    BY <2>1, <2>2, <2>3, <2>4, Zenon DEF TreeOK
<1>5. \A b \in Blocks : Listed(disk, node, b) <=> b \in FirstBlocks
  <2> TAKE b \in Blocks
  <2>1. LeafOf[b] \in ExtLeaves /\ LeafOf[b] \in Places
    BY PlaceFacts, Zenon
  <2>2. Listed(disk, node, b) => b \in FirstBlocks
    BY <1>1, <1>2, <2>1, FirstImageParts DEF Listed
  <2>3. ASSUME b \in FirstBlocks PROVE Listed(disk, node, b)
    <3>1. PICK p \in DOMAIN FirstLayout : b = FirstLayout[p]
      BY <2>3, Zenon DEF FirstBlocks
    <3>2. LeafOf[b] \in DOMAIN FirstLayout
      BY <3>1, CowAssumption, Zenon
    <3>3. /\ At(disk, node, LeafOf[b]) = FirstLayout[LeafOf[b]] /\ FirstLayout[LeafOf[b]] # NoBlock
          /\ disk[FirstLayout[LeafOf[b]]] = FirstImage(LeafOf[b])
      BY <1>1, <1>2, <1>3, <2>1, <3>2, Zenon
    <3>4. b \in FirstImage(LeafOf[b]).items
      BY <2>1, <2>3, FirstImageParts, Zenon
    <3> QED
      BY <3>3, <3>4, Zenon DEF Listed
  <2> QED
    BY <2>2, <2>3, Zenon
<1>6. \A b \in Blocks : b \in FirstBlocks <=> \E p \in Places : At(disk, node, p) = b
  BY <1>2, <1>3, PlaceFacts DEF FirstBlocks
<1>7. ListedBlocks(disk, node) = FirstBlocks
  BY <1>5, FirstFacts, Zenon DEF ListedBlocks
<1>8. /\ At(disk, node, BgLeaf) = FirstLayout[BgLeaf]
      /\ disk[FirstLayout[BgLeaf]].used = Cardinality(FirstBlocks)
  <2>1. FirstImage(BgLeaf).used = Cardinality(FirstBlocks)
    BY Zenon DEF FirstImage
  <2> QED
    BY <1>1, <1>2, <2>1, PlaceFacts, Zenon
<1>9. disk[node["root_tree"]].gen = 1
  BY <1>1, <1>3, PlaceFacts
<1>10. Newest.generation = 1 /\ Newest.bytes_used = Cardinality(FirstBlocks)
  BY <1>2, Zenon DEF Init
<1>11. DiskOK
  BY <1>2, <1>4, <1>5, <1>6, <1>7, <1>8, <1>9, <1>10, Zenon DEF DiskOK, CleanAt
<1>12. DiskItems = FirstBlocks
  BY <1>2, <1>4, <1>7, Parts, DiskItemsListed, Zenon
<1>13. Opened
  BY <1>1, <1>2, <1>8, <1>12, Zenon DEF Opened, Init, DiskWhere
<1> QED
  BY <1>11, <1>13, Zenon

\* A freshly made file system satisfies FsckInv.
LEMMA InitFsck ==
    ASSUME Counting, Init, IInv
    PROVE  FsckInv
BY FirstClean, OpenedFsck, Zenon

-----------------------------------------------------------------------------
(* What FsckInv says *)

\* The committed trees are what btrfs check accepts.
LEMMA BooksAreClean == FsckInv => FsckClean
<1> SUFFICES ASSUME FsckInv PROVE FsckClean
  BY Zenon
<1>1. IInv /\ DiskOK /\ TypeOK /\ DiskInv /\ TreeOK(disk, DiskNode)
  BY Parts, Zenon DEF FsckInv, DiskOK, CleanAt
<1>2. /\ \A p \in Places : At(disk, DiskNode, p) \in Blocks \cup {NoBlock}
      /\ disk \in [Blocks -> Images] /\ DiskNode \in [Roots -> Blocks]
  BY <1>1, AtType, Zenon DEF TypeOK, DiskInv
<1>3. DiskNode["root_tree"] = Newest.root
      /\ \A r \in Roots \ {"root_tree"} : disk[DiskNode["root_tree"]].kid[r].blk = DiskNode[r]
  BY PlaceFacts, Zenon DEF DiskNode
<1>4. disk[Newest.root].gen = Newest.generation
  BY <1>1, <1>3, Zenon DEF DiskOK, CleanAt
<1>5. ASSUME NEW p \in DiskPlaces, NEW q \in Places, disk[DiskWhere(p)].kid[q] # NoPtr
      PROVE  disk[disk[DiskWhere(p)].kid[q].blk].gen = disk[DiskWhere(p)].kid[q].gen
  <2>1. p \in Places /\ At(disk, DiskNode, p) # NoBlock /\ At(disk, DiskNode, p) \in Blocks
    BY <1>2, Zenon DEF DiskPlaces, DiskWhere
  <2>2. ChildOf(p, q)
    BY <1>1, <1>5, <2>1, Zenon DEF TreeOK, DiskWhere
  <2>3. CASE p = "root_tree" /\ q \in Roots \ {"root_tree"}
    <3>1. DiskWhere(p) = DiskNode["root_tree"]
      BY <2>3, PlaceFacts, Zenon DEF DiskWhere, At
    <3> QED
      BY <1>1, <1>3, <2>3, <3>1 DEF TreeOK
  <2>4. CASE p \in Roots /\ q \notin Roots /\ RootOf(q) = p
    <3>1. DiskWhere(p) = DiskNode[RootOf(q)]
          /\ At(disk, DiskNode, q) = disk[DiskNode[RootOf(q)]].kid[q].blk
      BY <2>4, PlaceFacts, Zenon DEF DiskWhere, At
    <3>2. disk[DiskWhere(p)].kid[q].blk # NoBlock
      <4>1. disk[DiskWhere(p)].kid[q] \in Ptrs
        BY <1>2, <2>1, Zenon DEF Images, DiskWhere
      <4> QED
        BY <1>5, <4>1, PlaceFacts, Zenon DEF Ptrs
    <3> QED
      <4>1. At(disk, DiskNode, q) # NoBlock
            => disk[DiskNode[RootOf(q)]].kid[q].gen = disk[At(disk, DiskNode, q)].gen
        BY <1>1, <2>4, Zenon DEF TreeOK
      <4> QED
        BY <3>1, <3>2, <4>1, Zenon
  <2> QED
    BY <2>2, <2>3, <2>4, Zenon DEF ChildOf
<1>6. \A p, q \in DiskPlaces : DiskWhere(p) = DiskWhere(q) => p = q
  BY <1>1, Zenon DEF DiskInv, DiskPlaces
<1>7. DiskItems = ListedBlocks(disk, DiskNode)
  BY <1>1, DiskItemsListed, Zenon
<1>8. DiskItems = Durable
  <2>1. \A b \in Blocks : b \in DiskItems <=> b \in Durable
    BY <1>1, <1>7, PlaceFacts, Zenon DEF ListedBlocks, DiskOK, CleanAt, Durable, DiskPlaces, DiskWhere
  <2>2. DiskItems \subseteq Blocks /\ Durable \subseteq Blocks
    BY <1>2, <1>7, Zenon DEF ListedBlocks, Durable, DiskPlaces, DiskWhere
  <2> QED
    BY <2>1, <2>2, Zenon
<1>9. disk[DiskWhere(BgLeaf)].used = Cardinality(DiskItems) /\ Newest.bytes_used = Cardinality(DiskItems)
  BY <1>1, <1>7, Zenon DEF DiskOK, CleanAt, DiskWhere
<1> QED
  BY <1>4, <1>5, <1>6, <1>8, <1>9, Zenon DEF FsckClean

\* The items in memory are those the leaves should hold.
LEMMA MemItemsListed ==
    ASSUME TypeOK, TreeOK(cache, node)
    PROVE  MemItems = ListedBlocks(cache, node)
<1>1. \A p \in Places : At(cache, node, p) \in Blocks \cup {NoBlock}
  BY AtType, Zenon DEF TypeOK
<1>2. \A b \in Blocks : cache[b].items \subseteq Blocks
  BY Zenon DEF TypeOK, Images
<1>3. ASSUME NEW b \in MemItems PROVE b \in ListedBlocks(cache, node)
  <2>1. PICK p \in ExtLeaves : /\ p \in Places /\ At(cache, node, p) # NoBlock
                               /\ b \in cache[At(cache, node, p)].items
    BY <1>3, Zenon DEF MemItems, MemPlaces, Where
  <2>2. LeafOf[b] = p /\ b \in Blocks
    BY <1>1, <1>2, <2>1, Zenon DEF TreeOK
  <2> QED
    BY <2>1, <2>2, Zenon DEF ListedBlocks, Listed
<1>4. ASSUME NEW b \in ListedBlocks(cache, node) PROVE b \in MemItems
  <2>1. /\ LeafOf[b] \in ExtLeaves /\ LeafOf[b] \in Places
        /\ At(cache, node, LeafOf[b]) # NoBlock
        /\ b \in cache[At(cache, node, LeafOf[b])].items
    BY <1>4, PlaceFacts, Zenon DEF ListedBlocks, Listed
  <2> QED
    BY <2>1, Zenon DEF MemItems, MemPlaces, Where
<1> QED
  BY <1>3, <1>4, Zenon

\* Between transactions the free space is what the committed trees leave.
LEMMA BooksAccount == FsckInv => SpaceAccounted
<1> SUFFICES ASSUME FsckInv PROVE SpaceAccounted
  BY Zenon
<1>1. IInv /\ TreeOK(cache, node) /\ ItemInv /\ CountInv /\ TypeOK /\ ControlInv /\ SpaceInv
  BY Parts, Zenon DEF FsckInv
<1>2. MemItems = ListedBlocks(cache, node)
  BY <1>1, MemItemsListed, Zenon
<1>3. ExtentItemOpsSucceed
  BY <1>1, <1>2, Zenon DEF ExtentItemOpsSucceed, ItemInv, ControlInv, ListedBlocks
<1>4. ASSUME pc = "idle"
      PROVE  free_space_cache = Blocks \ Live /\ MemItems = Live /\ used = Cardinality(Live)
  <2>1. NothingPending /\ pinned_extents = {}
    BY <1>1, <1>4, Zenon DEF ControlInv, ItemInv
  <2>2. \A b \in Blocks : /\ Covered(b) <=> Listed(cache, node, b)
                          /\ Listed(cache, node, b) <=> \E p \in Places : At(cache, node, p) = b
    BY <1>1, <2>1, QuietItems, Zenon
  <2>3. /\ Live \subseteq Blocks
        /\ \A b \in Blocks : b \in Live <=> \E p \in Places : At(cache, node, p) = b
    <3>1. \A p \in Places : At(cache, node, p) \in Blocks \cup {NoBlock}
      BY <1>1, AtType, Zenon DEF TypeOK
    <3> QED
      BY <3>1, PlaceFacts DEF Live, MemPlaces, Where
  <2>4. MemItems = Live
    BY <1>2, <2>2, <2>3, Zenon DEF ListedBlocks
  <2>5. \A b \in Blocks : b \in free_space_cache <=> b \notin Live
    <3> TAKE b \in Blocks
    <3>1. b \in free_space_cache \/ Listed(cache, node, b)
      BY <1>1, <2>1, <2>2, Zenon DEF ItemInv
    <3>2. b \in free_space_cache => \A p \in Places : At(cache, node, p) # b
      BY <1>1, Zenon DEF SpaceInv, Where
    <3> QED
      BY <3>1, <3>2, <2>2, <2>3, Zenon
  <2>6. free_space_cache \subseteq Blocks
    BY <1>1, Zenon DEF TypeOK
  <2>7. used = Cardinality(Live)
    BY <1>1, <1>2, <2>4, Zenon DEF CountInv
  <2> QED
    BY <2>3, <2>4, <2>5, <2>6, <2>7, Zenon
<1> QED
  BY <1>3, <1>4, Zenon DEF SpaceAccounted

\* The refinement mapping maps to these contents.
LEMMA Mapping ==
    /\ ContentsAt(disk, DiskWhere) = Committed /\ ContentsAt(cache, Where) = Staged
    /\ ContentsAt(disk, DiskWhere)' = Committed' /\ ContentsAt(cache, Where)' = Staged'
<1>1. ContentsAt(disk, DiskWhere) = Committed /\ ContentsAt(cache, Where) = Staged
  BY Zenon DEF ContentsAt, Committed, Staged, FsVal, DiskWhere, Where
<1>2. ContentsAt(disk, DiskWhere)' = Committed' /\ ContentsAt(cache, Where)' = Staged'
  BY Zenon DEF ContentsAt, Committed, Staged, FsVal, DiskWhere, Where
<1> QED
  BY <1>1, <1>2, Zenon

-----------------------------------------------------------------------------
(* What the store sees *)

\* While no tree block waits to be written and memory has the roots the
\* device has, both hold the same contents.
LEMMA SyncedContents ==
    ASSUME IInv, Synced
    PROVE  Committed = Staged
<1>1. TypeOK /\ ControlInv /\ MemInv /\ SpaceInv /\ RootInv
  BY Zenon DEF IInv
<1>2. node = DiskNode /\ dirty = {}
  BY <1>1, SMTT(30) DEF RootInv, Synced, ControlInv
<1>3. \A p \in Places : At(cache, node, p) # NoBlock
         => cache[At(cache, node, p)] = disk[At(cache, node, p)]
  BY <1>1, <1>2, Zenon DEF MemInv, Where
<1>4. cache[node["fs_root"]] = disk[node["fs_root"]]
  <2>1. "fs_root" \in Places /\ node["fs_root"] # NoBlock
    BY <1>1, FsPlaces, PlaceFacts, Zenon
  <2> QED
    BY <1>1, <1>3, <2>1, FsPlaces, Zenon
<1>5. ASSUME NEW l \in FsLeaves
      PROVE  FsVal(disk, DiskNode, l) = FsVal(cache, node, l)
  <2>1. At(disk, node, l) = At(cache, node, l)
    BY <1>4, PlaceFacts, Zenon DEF At
  <2> QED
    BY <1>1, <1>2, <1>3, <2>1, FsPlaces, Zenon DEF FsVal
<1> QED
  BY <1>5, Zenon DEF Committed, Staged

\* The same of the state after a step.
LEMMA SyncedContentsNext == (IInv /\ Synced => Committed = Staged)'
<1>1. IInv /\ Synced => Committed = Staged
  BY SyncedContents, Zenon
<1> QED
  BY <1>1, PTL

\* Writing a dirty tree block changes neither what the process sees nor what
\* a later open finds: no committed block is dirty.
LEMMA WriteTreeBlockKeeps ==
    ASSUME TypeOK, ControlInv, MemInv, SpaceInv, DiskInv, DirtyInv, WriteTreeBlock
    PROVE  Staged' = Staged /\ Committed' = Committed
<1>1. PICK w \in First(dirty) :
         /\ cache' = [cache EXCEPT ![w].written = TRUE]
         /\ disk' = [disk EXCEPT ![w] = [cache[w] EXCEPT !.written = TRUE]]
  BY Zenon DEF WriteTreeBlock
<1>2. UNCHANGED <<super, node>>
  BY Zenon DEF WriteTreeBlock
<1>3. /\ w \in Blocks /\ w \notin Durable /\ cache \in [Blocks -> Images]
      /\ disk \in [Blocks -> Images]
  BY Zenon DEF First, TypeOK, DirtyInv
<1>4. /\ \A b \in Blocks : cache'[b].kid = cache[b].kid /\ cache'[b].val = cache[b].val
      /\ \A b \in Blocks : b # w => disk'[b] = disk[b]
      /\ disk' \in [Blocks -> Images]
  <2>1. cache[w] \in Images
    BY <1>3, Zenon
  <2>2. [cache[w] EXCEPT !.written = TRUE] \in Images
    BY <2>1, WrittenImage, Zenon
  <2>3. /\ \A b \in Blocks : b # w => disk'[b] = disk[b]
        /\ disk' \in [Blocks -> Images]
    BY <1>1, <1>3, <2>2, Zenon
  <2>4. \A b \in Blocks : cache'[b].kid = cache[b].kid /\ cache'[b].val = cache[b].val
    BY <1>1, <1>3, <2>1, Zenon DEF Images
  <2> QED
    BY <2>3, <2>4, Zenon
<1>5. Staged' = Staged
  <2>1. \A l \in FsLeaves : At(cache', node', l) = At(cache, node, l)
    BY <1>2, <1>4, FsPlaces, PlaceFacts, Zenon DEF At
  <2>2. \A l \in FsLeaves : FsVal(cache', node', l) = FsVal(cache, node, l)
    BY <1>4, <2>1, FsPlaces, Zenon DEF FsVal
  <2> QED
    BY <2>2, Zenon DEF Staged
<1>6. Committed' = Committed
  <2>1. DiskNode' = DiskNode
    BY <1>2, <1>3, <1>4, DiskFrameOutside, Zenon
  <2>2. ASSUME NEW l \in FsLeaves
        PROVE  FsVal(disk', DiskNode, l) = FsVal(disk, DiskNode, l)
    <3>1. /\ l \in Places /\ l \notin Roots /\ RootOf(l) = "fs_root" /\ "fs_root" \in Places
          /\ "fs_root" \in Roots
      BY PlaceFacts, Zenon
    <3>2. /\ DiskNode["fs_root"] \in Durable /\ DiskNode["fs_root"] \in Blocks
          /\ DiskWhere(l) # NoBlock => DiskWhere(l) \in Durable /\ DiskWhere(l) \in Blocks
      <4>1. DiskNode["fs_root"] = DiskWhere("fs_root") /\ DiskNode["fs_root"] \in Blocks
        BY <3>1, Zenon DEF DiskInv, DiskWhere, At
      <4>2. DiskNode["fs_root"] # NoBlock
        BY <4>1, PlaceFacts, Zenon
      <4>3. DiskWhere(l) \in Blocks \cup {NoBlock}
        BY <1>3, <3>1, AtType, Zenon DEF DiskInv, DiskWhere
      <4> QED
        BY <3>1, <4>1, <4>2, <4>3, Zenon DEF Durable, DiskPlaces
    <3>3. disk'[DiskNode["fs_root"]] = disk[DiskNode["fs_root"]]
      BY <1>3, <1>4, <3>2, Zenon
    <3>4. At(disk', DiskNode, l) = At(disk, DiskNode, l)
      BY <3>1, <3>3, Zenon DEF At
    <3> QED
      BY <1>3, <1>4, <3>2, <3>4, Zenon DEF FsVal, DiskWhere
  <2>3. \A l \in FsLeaves : FsVal(disk, DiskNode, l)' = FsVal(disk, DiskNode, l)
    BY <2>1, <2>2, Zenon DEF FsVal, At
  <2> QED
    BY <2>3, Zenon DEF Committed
<1> QED
  BY <1>5, <1>6, Zenon

\* The first super block of a commit makes everything the process sees
\* durable; the later ones, and the return from the commit, find it so.
LEMMA CommitSteps ==
    ASSUME IInv, IInv', WriteSuper \/ FinishExtentCommit
    PROVE  /\ Open /\ Staged' = Staged
           /\ WriteSuper => Open' /\ Committed' = Staged
           /\ FinishExtentCommit => ~Open' /\ Committed = Staged /\ Committed' = Committed
<1>1. UNCHANGED <<cache, node>> /\ pc # "idle" /\ Staged' = Staged
  <2>1. UNCHANGED <<cache, node>>
    BY Zenon DEF WriteSuper, FinishExtentCommit, memory
  <2>2. pc # "idle"
    BY Zenon DEF WriteSuper, FinishExtentCommit
  <2> QED
    BY <2>1, <2>2, Zenon DEF Staged, FsVal, At
<1>2. CASE WriteSuper
  <2>1. mirror' > 0 /\ (pc' = "finish" \/ pc' = "write_super")
    BY <1>2 DEF WriteSuper, IInv, TypeOK
  <2>2. Synced'
    BY <2>1, Zenon DEF Synced
  <2>3. Committed' = Staged'
    BY <2>2, SyncedContentsNext, Zenon
  <2>4. pc' # "idle" /\ ~FinishExtentCommit
    BY <1>2, <2>1, Zenon DEF WriteSuper, FinishExtentCommit
  <2> QED
    BY <1>1, <2>3, <2>4, Zenon DEF Open
<1>3. CASE FinishExtentCommit
  <2>1. UNCHANGED <<disk, super>> /\ pc = "finish" /\ pc' = "idle"
    BY <1>3, Zenon DEF FinishExtentCommit
  <2>2. Synced /\ ~WriteSuper
    BY <2>1, Zenon DEF Synced, WriteSuper
  <2>3. Committed = Staged /\ Committed' = Committed
    BY <2>1, <2>2, SyncedContents, CommittedKept, Zenon
  <2> QED
    BY <1>1, <2>1, <2>2, <2>3, Zenon DEF Open
<1> QED
  BY <1>2, <1>3, Zenon

\* Ending the process, in whatever phase, loses what was not committed and
\* nothing else.
LEMMA LoseSteps ==
    ASSUME Reopen
    PROVE  Staged' = Committed /\ Committed' = Committed /\ ~Open'
<1>1. cache' = disk /\ node' = DiskNode /\ pc' = "idle" /\ UNCHANGED <<disk, super>>
  BY Zenon DEF Reopen
<1> QED
  BY <1>1, CommittedKept, Zenon DEF Staged, Committed, FsVal, At, Open

\* The first state maps to a first state of the store.
LEMMA InitRefines ==
    ASSUME Init, IInv
    PROVE  Atomic!Init
<1>1. IInv /\ pc = "idle"
  BY Zenon DEF Init
<1>2. TypeOK /\ DiskInv
  BY <1>1, Zenon DEF IInv
<1>3. Committed = Staged
  BY <1>1, SyncedContents, Zenon DEF Synced
<1>4. ASSUME NEW l \in FsLeaves PROVE FsVal(disk, DiskNode, l) \in Values \cup {NoValue}
  <2>1. At(disk, DiskNode, l) \in Blocks \cup {NoBlock}
    BY <1>2, AtType, PlaceFacts, Zenon DEF TypeOK, DiskInv
  <2>2. \A b \in Blocks : disk[b].val \in Values \cup {NoValue}
    BY <1>2, Zenon DEF TypeOK, Images
  <2> QED
    BY <2>1, <2>2, Zenon DEF FsVal
<1>5. Committed \in [FsLeaves -> Values \cup {NoValue}]
  BY <1>4, Zenon DEF Committed
<1> QED
  BY <1>1, <1>3, <1>5, Mapping, Zenon DEF Atomic!Init

\* NoSpace and Crash end the process.
LEMMA EndsReopen ==
    ASSUME TypeOK, NoSpace \/ Crash
    PROVE  Reopen /\ crashes' \in 0 .. MaxCrashes
  BY CowAssumption DEF NoSpace, Crash, TypeOK

\* Device writes and the end of the process keep the invariant.
LEMMA DeviceInv == ASSUME IInv, DeviceStep PROVE IInv'
<1>1. /\ TypeOK /\ ControlInv /\ SuperInv /\ DiskInv /\ MemInv /\ SpaceInv
      /\ FreshInv /\ DirtyInv /\ RootInv
  BY Parts, Zenon
<1>2. CASE WriteTreeBlock \/ WriteSuper \/ FinishExtentCommit
  BY <1>1, <1>2, WriteTreeBlockInv, WriteSuperInv, FinishExtentCommitInv, Zenon
<1>3. CASE NoSpace \/ Crash
  BY <1>1, <1>3, EndsReopen, ReopenInv, Zenon
<1> QED
  BY <1>2, <1>3, Zenon DEF DeviceStep

\* Device writes and the end of the process keep the books.
LEMMA DeviceFsck == ASSUME FsckInv, IInv', DeviceStep PROVE FsckInv'
<1>1. CASE WriteTreeBlock \/ WriteSuper \/ FinishExtentCommit
  BY <1>1, WriteTreeBlockFsck, WriteSuperFsck, FinishExtentCommitFsck, Zenon
<1>2. CASE NoSpace \/ Crash
  <2>1. TypeOK
    BY Parts, Zenon DEF FsckInv
  <2> QED
    BY <1>2, <2>1, EndsReopen, ReopenFsck, Zenon
<1> QED
  BY <1>1, <1>2, Zenon DEF DeviceStep

\* The store sees a commit become durable and return, or what was not
\* committed lost; a tree block that is written is not seen.
LEMMA DeviceRefines ==
    ASSUME IInv, IInv', DeviceStep
    PROVE  \/ Silent
           \/ Open /\ Open' /\ Committed' = Staged /\ Staged' = Staged
           \/ /\ Open /\ ~Open' /\ Committed = Staged
              /\ Committed' = Committed /\ Staged' = Staged
           \/ ~Open' /\ Staged' = Committed /\ Committed' = Committed
<1>1. TypeOK /\ ControlInv /\ MemInv /\ SpaceInv /\ DiskInv /\ DirtyInv
  BY Parts, Zenon
<1>2. CASE WriteTreeBlock
  <2>1. pc' = pc
    BY <1>2, Zenon DEF WriteTreeBlock, control
  <2> QED
    BY <1>1, <1>2, <2>1, WriteTreeBlockKeeps, Zenon DEF Silent, Open
<1>3. CASE WriteSuper \/ FinishExtentCommit
  BY <1>3, CommitSteps, Zenon
<1>4. CASE NoSpace \/ Crash
  BY <1>1, <1>4, EndsReopen, LoseSteps, Zenon
<1> QED
  BY <1>2, <1>3, <1>4, Zenon DEF DeviceStep
=============================================================================

----------------------------- MODULE SharedTrees -----------------------------
(***************************************************************************)
(* Trees that share blocks with their snapshots, and the references to     *)
(* blocks and file data that copying a block moves from one to the other   *)
(* (ctree.c: btrfs_copy_root, __btrfs_cow_block, update_ref_for_cow;       *)
(* extent-tree.c: __btrfs_mod_ref, btrfs_record_file_extent).              *)
(*                                                                         *)
(* A block is [owner, level, gen, ptrs]; a pointer is <<extent, owner,     *)
(* offset>>: to a block with its level and 0, to file data with its inode  *)
(* and file offset.  Freed blocks stay in the sequence blocks.             *)
(***************************************************************************)
EXTENDS Backrefs

CONSTANTS Worlds, MaxTransid, MaxBlocks, MaxWrites

VARIABLES world, roots, blocks, ext, transid, writes, bug
vars == <<world, roots, blocks, ext, transid, writes, bug>>
\* roots[r] = [node, last_snapshot]; ext[x] is the item of extent x.

\* The extents while an operation is under way: s = [ext, bug].
Put(s, x, it) ==
    IF it = BAD THEN [s EXCEPT !.bug = TRUE]
    ELSE IF it.refs = 0 THEN [s EXCEPT !.ext = [y \in DOMAIN s.ext \ {x} |-> s.ext[y]]]
    ELSE [s EXCEPT !.ext = [y \in DOMAIN s.ext \cup {x} |-> IF y = x THEN it ELSE s.ext[y]]]
btrfs_inc_extent_ref(s, x, ref) == IF x \in DOMAIN s.ext THEN Put(s, x, Inc(s.ext[x], ref)) ELSE [s EXCEPT !.bug = TRUE]
btrfs_free_extent(s, x, ref) == IF x \in DOMAIN s.ext THEN Put(s, x, Dec(s.ext[x], ref)) ELSE [s EXCEPT !.bug = TRUE]
\* alloc_reserved_tree_block, and the item btrfs_record_file_extent starts from.
alloc_tree_block(s, b, root) == Put(s, b, Inc(NewItem, Ref(0, root, 0, 0)))

\* __btrfs_mod_ref: every pointer of a block gains or loses a reference.
RECURSIVE ModRef(_, _, _, _, _)
ModRef(s, b, record_parent, inc, ptrs) ==
    IF ptrs = <<>> THEN s
    ELSE LET p == Head(ptrs)
             ref == Ref(IF record_parent THEN b.start ELSE 0, b.owner, p[2], p[3])
         IN  ModRef(IF inc THEN btrfs_inc_extent_ref(s, p[1], ref) ELSE btrfs_free_extent(s, p[1], ref),
                    b, record_parent, inc, Tail(ptrs))
btrfs_inc_ref(s, b, record_parent) == ModRef(s, b, record_parent, TRUE, b.ptrs)
btrfs_dec_ref(s, b, record_parent) == ModRef(s, b, record_parent, FALSE, b.ptrs)
btrfs_set_block_flags(s, b) == [s EXCEPT !.ext[b.start].full = TRUE]

\* A block older than the last snapshot may be shared; a root never is.
btrfs_block_can_be_shared(r, b) == b.start # roots[r].node /\ b.gen <= roots[r].last_snapshot

\* update_ref_for_cow.  A shared block its owner leaves takes the references of
\* its pointers with it, as full ones; the copy inherits those of the owner.
\* Mutant: every tree is taken for the owner.
OwnedBy_Any(r, b) == TRUE
OwnedBy(r, b) == b.owner = r
update_ref_for_cow(s, r, b, cow) ==
    LET shared == btrfs_block_can_be_shared(r, b)
        refs == IF shared THEN s.ext[b.start].refs ELSE 1
        full == shared /\ s.ext[b.start].full
    IN  IF refs > 1
        THEN IF OwnedBy(r, b) /\ ~full THEN btrfs_set_block_flags(btrfs_inc_ref(s, b, TRUE), b)
             ELSE btrfs_inc_ref(s, cow, FALSE)
        ELSE IF full THEN btrfs_dec_ref(btrfs_inc_ref(s, cow, FALSE), b, TRUE) ELSE s

-----------------------------------------------------------------------------
(* The trees *)

\* The blocks on the way to a slot path: <<>> the root, <<1>> its first child.
RECURSIVE BlockAt(_, _)
BlockAt(b, path) == IF path = <<>> THEN b ELSE BlockAt(blocks[b].ptrs[Head(path)][1], Tail(path))
RECURSIVE PathsFrom(_)
PathsFrom(b) == {<<>>} \cup
    (IF blocks[b].level = 0 THEN {}
     ELSE UNION {{<<i>> \o p : p \in PathsFrom(blocks[b].ptrs[i][1])} : i \in DOMAIN blocks[b].ptrs})
Front(p) == SubSeq(p, 1, Len(p) - 1)
At(r, path) == BlockAt(roots[r].node, path)
Use(s) == ext' = s.ext /\ bug' = s.bug
Now == [ext |-> ext, bug |-> bug]

\* btrfs_cow_block on the way down of btrfs_search_slot: the blocks above have
\* been copied in this transaction.
\* Mutant: the owner of a block writes to it in place.
should_cow_block_Owner(r, b) == b.gen # transid /\ b.owner # r
should_cow_block(r, b) == b.gen # transid
CowBlock(r, path) ==
    LET old == At(r, path)
        b == blocks[old]
        new == Len(blocks) + 1
        cow == [b EXCEPT !.start = new, !.owner = r, !.gen = transid]
        refs == update_ref_for_cow(alloc_tree_block(Now, new, r), r, b, cow)
    IN  /\ should_cow_block(r, b) /\ Len(blocks) < MaxBlocks
        /\ path # <<>> => ~should_cow_block(r, blocks[At(r, Front(path))])
        /\ Use(btrfs_free_extent(refs, old, Ref(0, r, b.level, 0)))
        /\ IF path = <<>>
           THEN blocks' = Append(blocks, cow) /\ roots' = [roots EXCEPT ![r].node = new]
           ELSE /\ blocks' = Append([blocks EXCEPT ![At(r, Front(path))].ptrs[path[Len(path)]][1] = new], cow)
                /\ UNCHANGED roots
        /\ UNCHANGED <<world, transid, writes>>
\* btrfs_copy_root; the kernel notes the snapshot in both roots and commits.
Snapshot(r, q) ==
    LET new == Len(blocks) + 1
        cow == [blocks[roots[r].node] EXCEPT !.start = new, !.owner = q, !.gen = transid]
    IN  /\ q \notin DOMAIN roots /\ Len(blocks) < MaxBlocks /\ transid < MaxTransid
        /\ Use(btrfs_inc_ref(alloc_tree_block(Now, new, q), cow, FALSE))
        /\ blocks' = Append(blocks, cow)
        /\ roots' = [o \in DOMAIN roots \cup {q} |->
                       IF o \notin {r, q} THEN roots[o]
                       ELSE [node |-> IF o = q THEN new ELSE roots[r].node, last_snapshot |-> transid]]
        /\ transid' = transid + 1
        /\ UNCHANGED <<world, writes>>
Commit == transid < MaxTransid /\ transid' = transid + 1 /\ UNCHANGED <<world, roots, blocks, ext, writes, bug>>

\* A leaf that is written to has been copied in this transaction.
Writable(r, path) == blocks[At(r, path)].level = 0 /\ ~should_cow_block(r, blocks[At(r, path)]) /\ writes < MaxWrites
\* btrfs_record_file_extent
RecordFileExtent(r, path, p) ==
    /\ Writable(r, path) /\ p \notin {blocks[At(r, path)].ptrs[i] : i \in DOMAIN blocks[At(r, path)].ptrs}
    /\ blocks' = [blocks EXCEPT ![At(r, path)].ptrs = Append(@, p)]
    /\ Use(Put(Now, p[1], Inc(IF p[1] \in DOMAIN ext THEN ext[p[1]] ELSE NewItem, Ref(0, r, p[2], p[3]))))
    /\ writes' = writes + 1 /\ UNCHANGED <<world, roots, transid>>
\* relocate_one_reference takes a file extent away.
RemoveFileExtent(r, path, i) ==
    /\ Writable(r, path) /\ i \in DOMAIN blocks[At(r, path)].ptrs
    /\ LET ptrs == blocks[At(r, path)].ptrs
           p == ptrs[i]
       IN  /\ blocks' = [blocks EXCEPT ![At(r, path)].ptrs = SubSeq(ptrs, 1, i - 1) \o SubSeq(ptrs, i + 1, Len(ptrs))]
           /\ Use(btrfs_free_extent(Now, p[1], Ref(0, r, p[2], p[3])))
    /\ writes' = writes + 1 /\ UNCHANGED <<world, roots, transid>>

RECURSIVE Built(_, _, _)
Built(s, bs, b) == IF b > Len(bs) THEN s ELSE Built(btrfs_inc_ref(s, bs[b], FALSE), bs, b + 1)
\* The extents of the first tree, as they were recorded when it was made.
InitialExt(bs, data) ==
    LET blank == [ext |-> [x \in DOMAIN bs \cup data |-> NewItem], bug |-> FALSE]
        first == [blank EXCEPT !.ext[1] = Inc(NewItem, Ref(0, bs[1].owner, bs[1].level, 0))]
    IN  Built(first, bs, 1).ext
Init ==
    /\ world \in Worlds
    /\ roots = [r \in {world.root} |-> [node |-> 1, last_snapshot |-> 0]]
    /\ blocks = world.blocks /\ ext = InitialExt(world.blocks, world.data)
    /\ transid = 2 /\ writes = 0 /\ bug = FALSE
Next ==
    \/ \E r \in DOMAIN roots : \E path \in PathsFrom(roots[r].node) : CowBlock(r, path)
    \/ \E r \in DOMAIN roots, q \in world.snapshots : Snapshot(r, q)
    \/ Commit
    \/ \E r \in DOMAIN roots : \E path \in PathsFrom(roots[r].node) :
         \/ \E p \in world.writes : RecordFileExtent(r, path, p)
         \/ \E i \in 1 .. 3 : RemoveFileExtent(r, path, i)
Spec == Init /\ [][Next]_vars

-----------------------------------------------------------------------------
(* Properties *)

RECURSIVE Under(_)
Under(b) == {b} \cup (IF blocks[b].level = 0 THEN {} ELSE UNION {Under(blocks[b].ptrs[i][1]) : i \in DOMAIN blocks[b].ptrs})
Live == UNION {Under(roots[r].node) : r \in DOMAIN roots}
\* The references there ought to be to an extent: one from each live pointer, by
\* the block when it has full ones and by its owner otherwise, one for each root.
Pointing(x) == {<<b, i>> \in {<<b, i>> : b \in Live, i \in 1 .. 4} : i \in DOMAIN blocks[b].ptrs /\ blocks[b].ptrs[i][1] = x}
RefOf(b, i) == LET p == blocks[b].ptrs[i] IN
    Ref(IF b \in DOMAIN ext /\ ext[b].full THEN b ELSE 0, blocks[b].owner, p[2], p[3])
Roots(x) == {r \in DOMAIN roots : roots[r].node = x}
Wanted(x) == [n \in {<<"ptr", y>> : y \in Pointing(x)} \cup {<<"root", <<r, 0>>>> : r \in Roots(x)} |->
                IF n[1] = "ptr" THEN RefOf(n[2][1], n[2][2]) ELSE Ref(0, n[2][1], 0, 0)]

\* However trees and snapshots have been copied and written to, what the extent
\* tree records is what the trees point to: each extent in use has an item, its
\* count is the number of pointers, and each pointer is found under the name
\* __free_extent will later look for.
BackrefsMatch ==
    /\ DOMAIN ext = Live \cup UNION {{blocks[b].ptrs[i][1] : i \in DOMAIN blocks[b].ptrs} : b \in Live}
    /\ \A x \in DOMAIN ext : \E w \in {Wanted(x)} :
         /\ ext[x].refs = Cardinality(DOMAIN w)
         /\ \A t \in RecordedIds(ext[x]) :
              Recorded(ext[x], t[1], t[2]) = Cardinality({n \in DOMAIN w : w[n].type = t[1] /\ w[n].id = t[2]})
\* No assertion on references fails and none is missed (BUG_ON in
\* btrfs_inc_extent_ref and __free_extent, "unable to find ref").
NoRefIsMissed == ~bug
\* What a tree reads as.
Files(r) == {<<path, blocks[At(r, path)].ptrs>> : path \in {q \in PathsFrom(roots[r].node) : blocks[At(r, q)].level = 0}}
SnapshotStep == \A r, q \in DOMAIN roots : r # q => Files(r)' = Files(r) \/ Files(q)' = Files(q)
\* A step changes the files of one tree at most: writing to a subvolume never
\* shows in its snapshots, whichever of them owns the shared blocks.
SnapshotsAreKept == [][SnapshotStep]_vars

-----------------------------------------------------------------------------
\* The instance TLC checks: a tree of three levels whose file extents are
\* shared, repeated and collide.

B(start, level, ptrs) == [start |-> start, owner |-> 5, level |-> level, gen |-> 1, ptrs |-> ptrs]
TreeOf(l1, l2) == <<B(1, 2, <<<<2, 1, 0>>>>), B(2, 1, <<<<3, 0, 0>>, <<4, 0, 0>>>>), B(3, 0, l1), B(4, 0, l2)>>
World(l1, l2, ws) == [root |-> 5, blocks |-> TreeOf(l1, l2), data |-> {101, 102}, snapshots |-> {300, 301}, writes |-> ws]
MCWorlds ==
    {World(<<<<101, 257, 0>>, <<101, 257, 0>>>>, <<<<101, 257, 1>>, <<102, 258, 0>>>>, {<<101, 257, 2>>, <<103, 258, 4>>}),
     World(<<<<101, 257, 0>>>>, <<<<101, 258, 0>>, <<102, 258, 4>>>>, {<<101, 259, 0>>})}
=============================================================================

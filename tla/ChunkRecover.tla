---------------------------- MODULE ChunkRecover ----------------------------
(***************************************************************************)
(* btrfs rescue chunk-recover (chunk-recover.c): the devices are scanned   *)
(* for tree blocks, chunk, block group and device extent items are         *)
(* collected from every leaf found, chunks without an item are rebuilt from*)
(* block groups and device extents, the file system is opened with what was*)
(* found, and the chunk tree is written anew.                              *)
(*                                                                         *)
(* Addresses are in units of the stripe length; a tree block is one unit.  *)
(* A world is                                                              *)
(*   blocks    - the tree blocks a scan meets, device after device:        *)
(*               [dev, phys, bytenr, gen, csum, leaf, owner, items], items *)
(*               a sequence of <<kind, record>>                            *)
(*   gen, cgen - generation and chunk_root_generation of the super block   *)
(*   devices   - the devices that are there                                *)
(*   groups, extents - the block groups and device extents in the trees    *)
(*               of the file system                                        *)
(*   chunks    - its true chunks                                           *)
(*   needed    - the tree blocks that opening reads                        *)
(*   items     - extent items [objectid, len] of the extent tree           *)
(* A record carries gen, the generation of the leaf it came from.          *)
(***************************************************************************)
EXTENDS ChunkRecords

CONSTANT Worlds

VARIABLES world,
          todo,       \* blocks not scanned yet
          pending,    \* items of the current leaf not processed yet
          found,      \* [chunks, groups, extents]: the record caches
          eb_cache,   \* tree blocks found: [start, gen, csum, copies]
          lists,      \* [good, bad, unrepaired]: chunks by verdict
          disk,       \* [chunks, sys_array, items, bytes_used], what is written
          pc
vars == <<world, todo, pending, found, eb_cache, lists, disk, pc>>

-----------------------------------------------------------------------------
(* Scanning *)

\* The records of a cache a new one meets.
ChunkMeets(r, S) == {x \in S : Meet(x.offset, x.length, r.offset, r.length)}
GroupMeets(r, S) == {x \in S : Meet(x.objectid, x.offset, r.objectid, r.offset)}
ExtentMeets(r, S) == {x \in S : x.objectid = r.objectid /\ Meet(x.offset, x.length, r.offset, r.length)}

\* A record replaces the older ones it meets and gives way to a newer one; two
\* of one generation must be equal.  Which of several records the lookup finds
\* first depends on the shape of the tree, so some older ones may be gone when
\* a newer one is met.
Replaced(S, meets, r) ==
    LET older == {x \in meets : x.gen < r.gen}
        others == meets \ older
    IN  IF others = {} THEN {[ret |-> 0, cache |-> (S \ older) \cup {r}]}
        ELSE {[ret |-> IF x.gen = r.gen /\ x # r THEN -17 ELSE 0, cache |-> S \ gone] :
                 x \in others, gone \in SUBSET older}

process_chunk_item(f, r) ==
    {[ret |-> o.ret, found |-> [f EXCEPT !.chunks = o.cache]] : o \in Replaced(f.chunks, ChunkMeets(r, f.chunks), r)}
process_block_group_item(f, r) ==
    {[ret |-> o.ret, found |-> [f EXCEPT !.groups = o.cache]] : o \in Replaced(f.groups, GroupMeets(r, f.groups), r)}
process_device_extent_item(f, r) ==
    {[ret |-> o.ret, found |-> [f EXCEPT !.extents = o.cache]] : o \in Replaced(f.extents, ExtentMeets(r, f.extents), r)}

\* process_extent_buffer: the newest copies of a tree block, at most two.
process_extent_buffer(cache, b) ==
    LET same == {x \in cache : x.start = b.bytenr}
        here == <<b.dev, b.phys>>
        new == [start |-> b.bytenr, gen |-> b.gen, csum |-> b.csum, copies |-> <<here>>]
    IN  IF same = {} THEN [ret |-> 0, cache |-> cache \cup {new}]
        ELSE LET x == CHOOSE x \in same : TRUE IN
             IF x.gen > b.gen THEN [ret |-> 0, cache |-> cache]
             ELSE IF x.gen < b.gen THEN [ret |-> 0, cache |-> (cache \ {x}) \cup {new}]
             ELSE IF x.csum # b.csum THEN [ret |-> -17, cache |-> cache]
             ELSE IF Len(x.copies) >= 2 THEN [ret |-> -99, cache |-> cache]
             ELSE [ret |-> 0, cache |-> (cache \ {x}) \cup {[x EXCEPT !.copies = Append(@, here)]}]

Eligible(b) == /\ b.leaf
               /\ \/ b.owner \in {"extent", "dev"} /\ b.gen <= world.gen
                  \/ b.owner = "chunk" /\ b.gen <= world.cgen

scan_one_device ==
    /\ pc = "scan" /\ pending = <<>> /\ todo # <<>>
    /\ LET b == Head(todo)
           r == process_extent_buffer(eb_cache, b)
       IN  /\ eb_cache' = r.cache
           /\ pending' = IF r.ret = 0 /\ Eligible(b) THEN b.items ELSE <<>>
           /\ pc' = IF r.ret = 0 THEN "scan" ELSE IF r.ret = -99 THEN "bug" ELSE "failed"
    /\ todo' = Tail(todo)
    /\ UNCHANGED <<world, found, lists, disk>>

extract_metadata_record ==
    /\ pc = "scan" /\ pending # <<>>
    /\ LET kind == Head(pending)[1]
           r == Head(pending)[2]
       IN  \E o \in CASE kind = "chunk" -> process_chunk_item(found, r)
                      [] kind = "group" -> process_block_group_item(found, r)
                      [] kind = "extent" -> process_device_extent_item(found, r) :
             /\ found' = o.found
             /\ pc' = IF o.ret = 0 THEN "scan" ELSE "failed"
    /\ pending' = Tail(pending)
    /\ UNCHANGED <<world, todo, eb_cache, lists, disk>>

-----------------------------------------------------------------------------
(* Rebuilding chunks *)

Ordered(flags) == flags \cap {"RAID0", "RAID10", "RAID5", "RAID6"} # {}
calc_num_stripes(flags) == IF Ordered(flags) THEN 0
                           ELSE IF flags \cap {"RAID1", "DUP"} # {} THEN 2 ELSE 1
calc_sub_nstripes(flags) == IF "RAID10" \in flags THEN 2 ELSE 1

\* btrfs_calc_stripe_index: the stripe a logical address of a chunk is on.
btrfs_calc_stripe_index(c, logical) ==
    LET nr == logical - c.offset
        n == Len(c.stripes)
        data == IF "RAID5" \in c.flags THEN n - 1 ELSE n - 2
    IN  IF "RAID0" \in c.flags THEN nr % n
        ELSE IF "RAID10" \in c.flags THEN (nr % (n \div calc_sub_nstripes(c.flags))) * calc_sub_nstripes(c.flags)
        ELSE ((nr % data) + nr \div data) % n

\* The device extents that hold a copy of a tree block.
is_extent_record_in_device_extent(er, d) ==
    \E i \in 1 .. Len(er.copies) :
       er.copies[i][1] = d.objectid /\ er.copies[i][2] \in d.offset .. d.offset + d.length - 1

Stripe(d) == [devid |-> d.objectid, offset |-> d.offset]
NoStripe == [devid |-> 0, offset |-> 0]

\* btrfs_rebuild_unordered_chunk_stripes: the device extents in any order.
btrfs_rebuild_unordered_chunk_stripes(c, exts) ==
    IF \E d \in exts : d.objectid \notin world.devices
    THEN [ret |-> -2, chunk |-> c]
    ELSE LET order == SetToSeq(exts) IN
         [ret |-> 0, chunk |-> [c EXCEPT !.stripes = [i \in 1 .. Len(order) |-> Stripe(order[i])]]]

\* The lookup of a range gives any record that meets it, as the shape of the
\* tree decides, not the first one.
Lookups(c, start) == {er \in eb_cache : er.start \in start .. c.offset + c.length - 1}

\* Device extents that hold the tree block take the stripes from its index on.
Placed(c, er, exts) ==
    LET index == btrfs_calc_stripe_index(c, er.start) + 1
        own == SetToSeq({d \in exts : is_extent_record_in_device_extent(er, d)})
    IN  IF c.stripes[index] # NoStripe THEN [chunk |-> c, exts |-> exts]
        ELSE [chunk |-> [c EXCEPT !.stripes = [i \in DOMAIN @ |->
                            IF i \in index .. index + Len(own) - 1 THEN Stripe(own[i - index + 1]) ELSE @[i]]],
              exts |-> exts \ ToSet(own)]

\* btrfs_rebuild_ordered_meta_chunk_stripes: the outcomes.
RECURSIVE OrderStripes(_, _, _)
OrderStripes(c, start, exts) ==
    LET ers == Lookups(c, start) IN
    IF start >= c.offset + c.length \/ ers = {}
    THEN {[chunk |-> c, exts |-> exts]}
    ELSE UNION {LET p == Placed(c, er, exts) IN OrderStripes(p.chunk, er.start + 1, p.exts) : er \in ers}
\* The stripes that are left get the device extents that are left, in the order
\* of the list, which is that of the scan.
FillStripes(c, exts) ==
    LET free == {i \in 1 .. Len(c.stripes) : c.stripes[i] = NoStripe} IN
    {[c EXCEPT !.stripes = [i \in DOMAIN @ |-> IF i \in free THEN Stripe(f[i]) ELSE @[i]]] :
        f \in {g \in [free -> exts] : \A i, j \in free : i # j => g[i] # g[j]}}
btrfs_rebuild_ordered_meta_chunk_stripes(c, exts) ==
    IF Lookups(c, c.offset) = {} THEN {btrfs_rebuild_unordered_chunk_stripes(c, exts)}
    ELSE UNION {IF o.exts = {} THEN {[ret |-> 0, chunk |-> o.chunk]}
                ELSE IF \/ c.flags \cap {"RAID5", "RAID6"} # {}
                        \/ \E d \in o.exts : d.objectid \notin world.devices
                THEN {[ret |-> -22, chunk |-> o.chunk]}
                ELSE {[ret |-> 0, chunk |-> f] : f \in FillStripes(o.chunk, o.exts)} :
                   o \in OrderStripes(c, c.offset, exts)}

btrfs_rebuild_chunk_stripes(c, exts) ==
    IF "METADATA" \in c.flags /\ Ordered(c.flags) THEN btrfs_rebuild_ordered_meta_chunk_stripes(c, exts)
    ELSE IF "DATA" \in c.flags /\ Ordered(c.flags) THEN {[ret |-> 1, chunk |-> c]}
    ELSE {btrfs_rebuild_unordered_chunk_stripes(c, exts)}

\* btrfs_verify_device_extents is called with a list that was just emptied, so
\* it looks at the number of device extents only.
btrfs_get_device_extents(objectid, orphans) == {d \in orphans : d.chunk_offset = objectid}
btrfs_verify_device_extents(flags, n) == calc_num_stripes(flags) \in {0, n}

\* btrfs_recover_chunks for one block group.
RecoverOne(bg, orphans) ==
    LET exts == btrfs_get_device_extents(bg.objectid, orphans)
        n == Cardinality(exts)
        c == [offset |-> bg.objectid, length |-> bg.offset, flags |-> bg.flags, gen |-> bg.gen,
              stripes |-> [i \in 1 .. n |-> NoStripe]]
    IN  IF n = 0 \/ ~btrfs_verify_device_extents(bg.flags, n) THEN {[ret |-> -1, chunk |-> [c EXCEPT !.stripes = <<>>]]}
        ELSE btrfs_rebuild_chunk_stripes(c, exts)

CheckChunks ==
    /\ pc = "scan" /\ todo = <<>> /\ pending = <<>>
    /\ LET r == check_chunks(found.chunks, found.groups, found.extents) IN
       /\ lists' = [good |-> r.good, bad |-> r.bad, unrepaired |-> {}]
       /\ pc' = IF found.chunks \cup found.groups \cup found.extents = {} THEN "failed"
                ELSE IF r.ret # 0 /\ (r.orphans # {} \/ r.no_chunk # {}) THEN "recover" ELSE "open"
    /\ UNCHANGED <<world, todo, pending, found, eb_cache, disk>>

\* The block groups that are left are turned into chunks one after another; a
\* chunk item that meets one of them is an assertion.
btrfs_recover_chunks ==
    /\ pc = "recover"
    /\ LET orphans == Orphans(found.chunks, found.groups)
           no_chunk == NoChunk(found.chunks, found.extents)
       IN  IF orphans = {} THEN pc' = "open" /\ UNCHANGED <<found, lists>>
           ELSE LET bg == CHOOSE b \in orphans : \A x \in orphans : b.objectid <= x.objectid IN
                \E o \in RecoverOne(bg, no_chunk) :
                  /\ pc' = IF ChunkMeets(o.chunk, found.chunks) # {} THEN "bug" ELSE "recover"
                  /\ found' = [found EXCEPT !.groups = @ \ {bg}]
                  /\ lists' = IF o.ret = 0 THEN [lists EXCEPT !.good = @ \cup {o.chunk}]
                              ELSE IF o.ret > 0 THEN [lists EXCEPT !.unrepaired = @ \cup {o.chunk}]
                              ELSE [lists EXCEPT !.bad = @ \cup {o.chunk}]
    /\ UNCHANGED <<world, todo, pending, eb_cache, disk>>

-----------------------------------------------------------------------------
(* Opening and writing *)

\* Where a chunk puts a logical address: device and offset of each copy.
Copies(c, a) ==
    LET n == Len(c.stripes)
        nr == a - c.offset
        k == btrfs_calc_stripe_index(c, a) + 1
        data == CASE "RAID0" \in c.flags -> n [] "RAID10" \in c.flags -> n \div 2
                  [] "RAID5" \in c.flags -> n - 1 [] OTHER -> n - 2
    IN  IF Ordered(c.flags)
        THEN {<<c.stripes[i].devid, c.stripes[i].offset + nr \div data>> :
                 i \in k .. k + calc_sub_nstripes(c.flags) - 1}
        ELSE {<<c.stripes[i].devid, c.stripes[i].offset + nr>> : i \in 1 .. n}
Covers(c, a) == a \in c.offset .. c.offset + c.length - 1
Reads(chunks, a) == \E c \in chunks, t \in world.chunks :
                       Covers(c, a) /\ Covers(t, a) /\ Copies(c, a) \cap Copies(t, a) # {}

build_device_map_by_chunk_record(c) ==
    \A i \in 1 .. Len(c.stripes) : c.stripes[i].devid \in world.devices

\* open_ctree_with_broken_chunk: every chunk has its devices, and the blocks
\* the roots need are read through the chunks found.
open_ctree_with_broken_chunk ==
    /\ pc = "open"
    /\ pc' = IF /\ \A c \in lists.good : build_device_map_by_chunk_record(c)
                /\ \A a \in world.needed : Reads(lists.good, a)
             THEN "match" ELSE "failed"
    /\ UNCHANGED <<world, todo, pending, found, eb_cache, lists, disk>>

\* check_chunk_by_metadata: the device tree and the extent tree know the chunk.
KnownGroup(c) == \E b \in world.groups : b.objectid = c.offset /\ b.offset = c.length /\ b.flags = c.flags
KnownExtents(c) == \A i \in 1 .. Len(c.stripes) : \E d \in world.extents :
                      /\ d.objectid = c.stripes[i].devid /\ d.offset = c.stripes[i].offset
                      /\ d.chunk_offset = c.offset
check_chunk_by_metadata(c, bg_only) == (bg_only \/ KnownExtents(c)) /\ KnownGroup(c)

\* check_all_chunks_by_metadata: chunks the trees do not know are dropped; a
\* chunk found bad that they do know ends the recovery.
check_all_chunks_by_metadata ==
    /\ pc = "match"
    /\ lists' = [good |-> {c \in lists.good : check_chunk_by_metadata(c, FALSE)},
                 unrepaired |-> {c \in lists.unrepaired : check_chunk_by_metadata(c, TRUE)},
                 bad |-> lists.bad \cup {c \in lists.good : ~check_chunk_by_metadata(c, FALSE)}
                            \cup {c \in lists.unrepaired : ~check_chunk_by_metadata(c, TRUE)}]
    /\ pc' = IF \E c \in lists.bad : check_chunk_by_metadata(c, TRUE) THEN "failed" ELSE "write"
    /\ UNCHANGED <<world, todo, pending, found, eb_cache, disk>>

\* One transaction: remove_chunk_extent_item, rebuild_chunk_tree,
\* rebuild_sys_array.  The sizes of the extent items removed from the system
\* block groups are added to bytes_used.
rebuild_sys_array == {c \in lists.good : "SYSTEM" \in c.flags}
remove_chunk_extent_item ==
    {e \in disk.items : \E c \in rebuild_sys_array : e.objectid \in c.offset .. c.offset + c.length - 1}
rebuild_chunk_tree ==
    /\ pc = "write"
    /\ disk' = [chunks |-> lists.good, sys_array |-> rebuild_sys_array,
                items |-> disk.items \ remove_chunk_extent_item,
                bytes_used |-> disk.bytes_used + FoldSet(LAMBDA e, n : e.len + n, 0, remove_chunk_extent_item)]
    /\ pc' = "done"
    /\ UNCHANGED <<world, todo, pending, found, eb_cache, lists>>

-----------------------------------------------------------------------------
NoLists == [good |-> {}, bad |-> {}, unrepaired |-> {}]
Init ==
    \E w \in Worlds :
       /\ world = w /\ todo = w.blocks
       /\ pending = <<>> /\ found = [chunks |-> {}, groups |-> {}, extents |-> {}]
       /\ eb_cache = {} /\ lists = NoLists
       /\ disk = [chunks |-> {}, sys_array |-> {}, items |-> w.items,
                  bytes_used |-> FoldSet(LAMBDA e, n : e.len + n, 0, w.items)]
       /\ pc = "scan"

Next == \/ scan_one_device \/ extract_metadata_record \/ CheckChunks \/ btrfs_recover_chunks
        \/ open_ctree_with_broken_chunk \/ check_all_chunks_by_metadata \/ rebuild_chunk_tree
Spec == Init /\ [][Next]_vars

-----------------------------------------------------------------------------
(* Properties *)

\* Whatever order the devices and leaves are scanned in, a record is kept only
\* if no eligible leaf scanned so far holds a newer record of the same space.
Seen(kind) == UNION {{world.blocks[i].items[j][2] : j \in {k \in DOMAIN world.blocks[i].items : world.blocks[i].items[k][1] = kind}} :
                        i \in {n \in 1 .. Len(world.blocks) - Len(todo) : Eligible(world.blocks[n])}}
NewestRecordWins ==
    pc = "scan" /\ pending = <<>> =>
       /\ \A r \in found.groups : \A x \in GroupMeets(r, Seen("group")) : x.gen <= r.gen
       /\ \A r \in found.chunks : \A x \in ChunkMeets(r, Seen("chunk")) : x.gen <= r.gen
       /\ \A r \in found.extents : \A x \in ExtentMeets(r, Seen("extent")) : x.gen <= r.gen

\* A chunk tree that is written maps every address of the file system as its own
\* chunks did: the same chunks, on the same device extents, and every tree block
\* that was found is read where it is.
Same(c, t) == c.offset = t.offset /\ c.length = t.length /\ c.flags = t.flags /\ ToSet(c.stripes) = ToSet(t.stripes)
RecoveredTreeIsTrue ==
    pc = "done" /\ lists.unrepaired = {} =>
       /\ \A t \in world.chunks : \E c \in disk.chunks : Same(c, t)
       /\ \A c \in disk.chunks : \E t \in world.chunks : Same(c, t)
       /\ \A er \in eb_cache : (\E t \in world.chunks : Covers(t, er.start)) => Reads(disk.chunks, er.start)

-----------------------------------------------------------------------------
\* The instance TLC checks: the blocks a scan finds on devices of file
\* systems whose chunk tree is whole, partly lost or stale, among leftovers of
\* older trees.

Ch(o, n, fl, st, g) == [offset |-> o, length |-> n, flags |-> fl, gen |-> g,
                        stripes |-> [i \in 1 .. Len(st) |-> [devid |-> st[i][1], offset |-> st[i][2]]]]
GroupOf(c, g) == [objectid |-> c.offset, offset |-> c.length, flags |-> c.flags, gen |-> g]
ExtsOf(c, g) == [i \in 1 .. Len(c.stripes) |->
   [objectid |-> c.stripes[i].devid, offset |-> c.stripes[i].offset, chunk_offset |-> c.offset, gen |-> g,
    length |-> calc_stripe_length(c.flags, c.length, Len(c.stripes))]]
Tag(kind, s) == [i \in 1 .. Len(s) |-> <<kind, s[i]>>]
Items(kind, cs, g) ==
   FlattenSeq([i \in 1 .. Len(cs) |->
     CASE kind = "chunk" -> << <<"chunk", [cs[i] EXCEPT !.gen = g]>> >>
       [] kind = "group" -> << <<"group", GroupOf(cs[i], g)>> >>
       [] kind = "extent" -> Tag("extent", ExtsOf(cs[i], g))])
Owner(kind) == CASE kind = "chunk" -> "chunk" [] kind = "group" -> "extent" [] kind = "extent" -> "dev" [] OTHER -> "other"
\* a leaf at a logical address, on every device that holds it
Leaf(cs, a, g, kind, list) ==
   LET t == CHOOSE i \in 1 .. Len(cs) : Covers(cs[i], a) IN
   {[dev |-> p[1], phys |-> p[2], bytenr |-> a, gen |-> g, csum |-> <<a, g>>, leaf |-> TRUE,
     owner |-> Owner(kind), items |-> IF kind = "fs" THEN <<>> ELSE Items(kind, list, g)] : p \in Copies(cs[t], a)}
Scan(B, devs) ==
   LET key(b) == 100 * (CHOOSE i \in 1 .. Len(devs) : devs[i] = b.dev) + b.phys
   IN [i \in 1 .. Cardinality(B) |-> CHOOSE b \in B : Cardinality({x \in B : key(x) < key(b)}) = i - 1]
S == Ch(0, 2, {"SYSTEM"}, <<<<1, 0>>>>, 3)
M0 == Ch(2, 4, {"METADATA", "RAID0"}, <<<<1, 2>>, <<2, 0>>>>, 3)
M1 == Ch(2, 4, {"METADATA", "RAID1"}, <<<<1, 2>>, <<2, 0>>>>, 3)
M10 == Ch(2, 4, {"METADATA", "RAID10"}, <<<<1, 2>>, <<2, 0>>, <<3, 0>>, <<4, 0>>>>, 3)
M5 == Ch(2, 4, {"METADATA", "RAID5"}, <<<<1, 2>>, <<2, 0>>, <<3, 0>>>>, 3)
D == Ch(6, 2, {"DATA"}, <<<<1, 8>>>>, 3)
D0 == Ch(6, 2, {"DATA", "RAID0"}, <<<<1, 8>>, <<2, 6>>>>, 3)
OldD == Ch(6, 3, {"DATA"}, <<<<1, 11>>>>, 1)
OldE == Ch(9, 2, {"DATA"}, <<<<2, 9>>>>, 1)
World(cs, blocks, devs) ==
   [blocks |-> Scan(blocks, devs), gen |-> 3, cgen |-> 2, devices |-> ToSet(devs),
    groups |-> {GroupOf(cs[i], 3) : i \in DOMAIN cs},
    extents |-> UNION {ToSet(ExtsOf(cs[i], 3)) : i \in DOMAIN cs},
    chunks |-> ToSet(cs), needed |-> {2, 3}, items |-> {[objectid |-> 0, len |-> 1], [objectid |-> 2, len |-> 1], [objectid |-> 3, len |-> 1]}]
Trees(cs, g) == Leaf(cs, 2, g, "extent", cs) \cup Leaf(cs, 3, g, "group", cs)
ChunkLeaves(cs) == {{}} \cup {Leaf(cs, 0, g, "chunk", l) : g \in {2, 3}, l \in {cs, SubSeq(cs, 1, 2), <<S, OldD>>, <<S, M1, D>>, <<S, OldE>>, SubSeq(cs, 2, 3)}}
Stale(cs) == {{}, Leaf(cs, 5, 1, "group", <<OldD, OldE>>), Leaf(cs, 5, 1, "extent", <<OldE>>) \cup Leaf(cs, 4, 1, "group", <<OldE>>),
              Leaf(cs, 4, 4, "group", <<OldD>>), Leaf(cs, 5, 2, "fs", <<>>) \cup Leaf(cs, 4, 1, "chunk", <<OldD>>)}
Devs(cs) == IF Len(cs[2].stripes) = 4 THEN {<<1, 2, 3, 4>>, <<4, 2, 1, 3>>} ELSE IF Len(cs[2].stripes) = 3 THEN {<<1, 2, 3>>, <<3, 2, 1>>} ELSE {<<1, 2>>, <<2, 1>>}
Sets == {<<S, M0, D>>, <<S, M1, D>>, <<S, M10, D>>, <<S, M0, D0>>, <<S, M5, D>>}
MCWorlds == UNION {{World(cs, Trees(cs, 3) \cup k \cup st, ds) : k \in ChunkLeaves(cs), st \in Stale(cs), ds \in Devs(cs)} : cs \in Sets}
=============================================================================

---------------------------- MODULE ImageRestore ----------------------------
(***************************************************************************)
(* btrfs-image, restoring an image (btrfs-image.c, -r and -m).  The main   *)
(* thread finds the chunk tree in the image, then reads cluster after      *)
(* cluster and queues its buffers; restore_worker threads unpack them,     *)
(* rewrite super block and chunk items for one device, and write them to   *)
(* where their chunk says.  With -m the blocks first go to their logical   *)
(* addresses on the first device, the other devices get super blocks, and  *)
(* the image is restored once more through the chunk mapping.              *)
(*                                                                         *)
(* A buffer of the image is [start, blocks, good]; a block is [kind, kids, *)
(* chunks, devid, copy], a chunk [logical, bytes, stripes, profile] with   *)
(* stripes a sequence of <<device, physical>>.                             *)
(***************************************************************************)
EXTENDS Integers, Sequences, FiniteSets

CONSTANT Worlds      \* images, options and devices

VARIABLES world, cur, mdres, worker, disk, pc, ret, round
vars == <<world, cur, mdres, worker, disk, pc, ret, round>>

BTRFS_SUPER_INFO_OFFSET == 1
btrfs_sb_offset == <<8, 12>>          \* of the backup super blocks
EIO == 5
Nowhere == [kind |-> "none", kids |-> <<>>, chunks |-> <<>>, devid |-> 0, copy |-> 0]
Junk == [Nowhere EXCEPT !.kind = "junk"]

-----------------------------------------------------------------------------
(* Finding the chunks in the image *)

Covers(it, b) == it.start <= b /\ b < it.start + Len(it.blocks)
BlockOf(it, b) == it.blocks[b - it.start + 1]

\* search_for_chunk_blocks and read_chunk_block: the block is looked for from
\* a cluster on, and from the first once more when it is not found; its
\* children are looked for from the cluster it was in.
RECURSIVE search_for_chunk_blocks(_, _, _)
RECURSIVE ReadKids(_, _, _)
FirstBad(w, c, b) == \E i \in 1 .. Len(w.image[c].items) :
    /\ ~w.image[c].items[i].good \/ w.cut = <<c, i>>
    /\ \A j \in 1 .. (i - 1) : ~Covers(w.image[c].items[j], b)
NotFound == [ret |-> EIO, chunks |-> {}]
fs_chunk(ch) == [logical |-> ch.logical, physical |-> ch.stripes[1][2], bytes |-> ch.bytes]
read_chunk_block(w, eb, c) ==
    IF eb.kind \notin {"chunk_node", "chunk_leaf"} THEN NotFound
    ELSE IF eb.kind = "chunk_node" THEN ReadKids(w, eb.kids, c)
    ELSE [ret |-> 0, chunks |-> {fs_chunk(eb.chunks[i]) : i \in DOMAIN eb.chunks}]
ReadKids(w, kids, c) ==
    IF kids = <<>> THEN [ret |-> 0, chunks |-> {}]
    ELSE LET one == search_for_chunk_blocks(w, Head(kids), c)
             rest == ReadKids(w, Tail(kids), c)
         IN  IF one.ret # 0 THEN one ELSE [rest EXCEPT !.chunks = @ \cup one.chunks]
Order(n, c) == [i \in 1 .. (n - c + 1) |-> c + i - 1] \o (IF c = 1 THEN <<>> ELSE [i \in 1 .. n |-> i])
search_for_chunk_blocks(w, b, c) ==
    LET order == Order(Len(w.image), c)
        stops == {k \in DOMAIN order : \/ FirstBad(w, order[k], b)
                                       \/ \E i \in DOMAIN w.image[order[k]].items : Covers(w.image[order[k]].items[i], b)}
    IN  IF stops = {} THEN NotFound
        ELSE LET k == CHOOSE x \in stops : \A y \in stops : x <= y
                 items == w.image[order[k]].items
             IN  IF FirstBad(w, order[k], b) THEN NotFound
                 ELSE LET i == CHOOSE x \in DOMAIN items :
                                  Covers(items[x], b) /\ \A y \in 1 .. (x - 1) : ~Covers(items[y], b)
                      IN  read_chunk_block(w, BlockOf(items[i], b), order[k])

\* build_chunk_tree: nothing is looked for in an image that cannot be sought.
Supers(w) == {i \in DOMAIN w.image[1].items : w.image[1].items[i].start = BTRFS_SUPER_INFO_OFFSET}
build_chunk_tree(w) ==
    IF ~w.seekable THEN [ret |-> 0, chunks |-> {}]
    ELSE IF \/ w.image = <<>> \/ w.image[1].bytenr # 0 \/ Supers(w) = {} THEN NotFound
    ELSE LET super == w.image[1].items[CHOOSE i \in Supers(w) : \A j \in Supers(w) : i <= j] IN
         IF ~super.good THEN NotFound
         ELSE search_for_chunk_blocks(w, super.blocks[1].kids[1], 1)

-----------------------------------------------------------------------------
(* Rewriting a buffer for one device *)

OneStripe(ch, devid) == [ch EXCEPT !.stripes = <<<<devid, ch.stripes[1][2]>>>>, !.profile = "single"]
Rewritten(b, devid) == [b EXCEPT !.chunks = [i \in DOMAIN @ |-> OneStripe(@[i], devid)]]
update_super(b) == Rewritten(b, b.devid)
\* update_super_old: one chunk that maps every address to itself.
update_super_old(b) ==
    [b EXCEPT !.chunks = <<[logical |-> 0, bytes |-> 99, stripes |-> <<<<b.devid, 0>>>>, profile |-> "single"]>>]
fixup_chunk_tree_block(b, devid) == IF b.kind = "chunk_leaf" THEN Rewritten(b, devid) ELSE b
Fixed(w, b, devid) ==
    IF w.multi THEN b
    ELSE IF b.kind = "super" THEN IF w.old_restore THEN update_super_old(b) ELSE update_super(b)
    ELSE IF w.old_restore THEN b ELSE fixup_chunk_tree_block(b, devid)
Unpacked(it) == IF it.good THEN it.blocks ELSE [i \in DOMAIN it.blocks |-> Junk]

\* logical_to_physical, block by block.
Containing(chunks, b) == {c \in chunks : c.logical <= b /\ b < c.logical + c.bytes}
logical_to_physical(chunks, b) ==
    IF b = BTRFS_SUPER_INFO_OFFSET \/ Containing(chunks, b) = {} THEN b
    ELSE LET c == CHOOSE x \in Containing(chunks, b) : TRUE IN c.physical + b - c.logical

-----------------------------------------------------------------------------
(* The main thread and the workers *)

Devices == 1 .. world.dev_cnt
\* mdrestore_init
NewRestore == [leafsize |-> FALSE, devid |-> 0, list |-> <<>>, num_items |-> 0, error |-> 0,
               chunk_tree |-> {}, done |-> FALSE]
Started(w) == [t \in w.threads |-> [state |-> "top", item |-> <<>>]]
Init ==
    /\ world \in Worlds
    /\ cur = [c |-> 1, i |-> 1] /\ mdres = NewRestore /\ worker = Started(world)
    /\ disk = [d \in 1 .. world.dev_cnt |-> [a \in 0 .. world.size |-> Nowhere]]
    /\ pc = "build" /\ ret = 0 /\ round = 1

Build ==
    /\ pc = "build"
    /\ \E r \in {IF world.multi THEN [ret |-> 0, chunks |-> {}] ELSE build_chunk_tree(world)} :
         LET known == ~world.multi /\ world.seekable /\ r.ret = 0 IN
         /\ ret' = r.ret /\ pc' = IF r.ret = 0 THEN "header" ELSE "destroy"
         /\ mdres' = [mdres EXCEPT !.chunk_tree = r.chunks, !.leafsize = known,
                        !.devid = IF known THEN world.image[1].items[1].blocks[1].devid ELSE @]
    /\ UNCHANGED <<world, cur, worker, disk, round>>

\* The loop of __restore_metadump; a file that ends here has been restored.
\* The header gives its own address.
Place(c) == world.image[c].bytenr = world.image[c].at
Header ==
    /\ pc = "header"
    /\ IF cur.c > Len(world.image) THEN pc' = "destroy" /\ UNCHANGED <<cur, ret>>
       ELSE IF ~Place(cur.c) THEN pc' = "destroy" /\ ret' = EIO /\ UNCHANGED cur
       ELSE IF mdres.num_items # 0 THEN pc' = "bug" /\ UNCHANGED <<cur, ret>>
       ELSE pc' = "item" /\ cur' = [cur EXCEPT !.i = 1] /\ UNCHANGED ret
    /\ UNCHANGED <<world, mdres, worker, disk, round>>

\* add_cluster, one buffer: it is read without the mutex; under it the super
\* block makes leafsize and device known (fill_mdres_info), and a thread is woken.
Waiting == {t \in world.threads : worker[t].state = "wait"}
Signal == IF Waiting # {} THEN \E t \in Waiting : worker' = [worker EXCEPT ![t].state = "top"]
          ELSE UNCHANGED worker
fill_mdres_info(m, it) ==
    IF m.leafsize \/ it.start # BTRFS_SUPER_INFO_OFFSET THEN m
    ELSE [m EXCEPT !.leafsize = TRUE, !.devid = it.blocks[1].devid]
add_cluster ==
    /\ pc = "item"
    /\ LET items == world.image[cur.c].items IN
       IF cur.i > Len(items) THEN pc' = "wait" /\ UNCHANGED <<cur, mdres, worker, ret>>
       ELSE LET it == items[cur.i] IN
            IF \/ world.cut = <<cur.c, cur.i>>
               \/ it.start = BTRFS_SUPER_INFO_OFFSET /\ ~mdres.leafsize /\ ~it.good
            THEN pc' = "destroy" /\ ret' = EIO /\ UNCHANGED <<cur, mdres, worker>>
            ELSE /\ mdres' = [fill_mdres_info(mdres, it) EXCEPT !.list = Append(@, it), !.num_items = @ + 1]
                 /\ Signal /\ cur' = [cur EXCEPT !.i = @ + 1] /\ UNCHANGED <<pc, ret>>
    /\ UNCHANGED <<world, disk, round>>

\* wait_for_worker
Drained(m) == m.num_items = 0
wait_for_worker ==
    /\ pc = "wait"
    /\ \/ mdres.error # 0 /\ pc' = "destroy" /\ ret' = mdres.error /\ UNCHANGED cur
       \/ mdres.error = 0 /\ Drained(mdres) /\ pc' = "header" /\ cur' = [cur EXCEPT !.c = @ + 1] /\ UNCHANGED ret
    /\ UNCHANGED <<world, mdres, worker, disk, round>>

\* mdrestore_destroy: the chunk tree is freed before the threads are told.
Destroy ==
    /\ pc = "destroy" /\ pc' = "stop"
    /\ mdres' = [mdres EXCEPT !.chunk_tree = {}]
    /\ UNCHANGED <<world, cur, worker, disk, ret, round>>
Stop ==
    /\ pc = "stop" /\ pc' = "join"
    /\ mdres' = [mdres EXCEPT !.done = TRUE]
    /\ worker' = [t \in world.threads |-> [worker[t] EXCEPT !.state = IF @ = "wait" THEN "top" ELSE @]]
    /\ UNCHANGED <<world, cur, disk, ret, round>>
JoinThreads ==
    /\ pc = "join" /\ \A t \in world.threads : worker[t].state = "exit"
    /\ pc' = IF ret = 0 /\ world.multi /\ round = 1 THEN "supers" ELSE "done"
    /\ UNCHANGED <<world, cur, mdres, worker, disk, ret, round>>

\* main with -m: the super block of every other device gets the device item
\* that the chunk tree holds of it (update_disk_super_on_device), backups too;
\* then fixup_metadump.  The wrong number of devices ends it without an error.
SuperOn(d, k) == [disk[1][BTRFS_SUPER_INFO_OFFSET] EXCEPT !.devid = d, !.copy = k]
Backups == {k \in DOMAIN btrfs_sb_offset : btrfs_sb_offset[k] < world.size}
WithSupers(f, s) == [a \in DOMAIN f |->
    IF a = BTRFS_SUPER_INFO_OFFSET THEN s
    ELSE IF \E k \in Backups : btrfs_sb_offset[k] = a
    THEN [s EXCEPT !.copy = CHOOSE k \in Backups : btrfs_sb_offset[k] = a] ELSE f[a]]
NumDevices == Len(disk[1][BTRFS_SUPER_INFO_OFFSET].kids) - 1
OtherSupers ==
    /\ pc = "supers"
    /\ IF NumDevices # world.dev_cnt THEN pc' = "done" /\ UNCHANGED <<disk, cur, mdres, worker, round>>
       ELSE /\ disk' = [d \in Devices |-> IF d = 1 THEN disk[1] ELSE WithSupers(disk[d], SuperOn(d, 0))]
            /\ pc' = "header" /\ round' = 2 /\ cur' = [c |-> 1, i |-> 1]
            /\ mdres' = NewRestore /\ worker' = Started(world)
    /\ UNCHANGED <<world, ret>>

\* restore_worker: a buffer is taken under the mutex once leafsize is known.
Take(t) ==
    /\ worker[t].state = "top"
    /\ IF mdres.leafsize /\ mdres.list # <<>>
       THEN /\ worker' = [worker EXCEPT ![t] = [state |-> "busy", item |-> <<Head(mdres.list)>>]]
            /\ mdres' = [mdres EXCEPT !.list = Tail(@)]
       ELSE worker' = [worker EXCEPT ![t].state = IF mdres.done THEN "exit" ELSE "wait"] /\ UNCHANGED mdres
    /\ UNCHANGED <<world, cur, disk, pc, ret, round>>

\* Where its blocks go, and what is there then.  The second round leaves the
\* super block alone and writes all stripes (write_data_to_disk).
Copies(c) == DOMAIN c.stripes
write_data_to_disk(b) ==
    UNION {{<<c.stripes[k][1], c.stripes[k][2] + b - c.logical>> : k \in Copies(c)} :
           c \in {x \in world.chunks : x.logical <= b /\ b < x.logical + x.bytes}}
Targets(b) ==
    IF round = 2 THEN IF b = BTRFS_SUPER_INFO_OFFSET THEN {} ELSE write_data_to_disk(b)
    ELSE IF world.multi THEN {<<1, b>>} ELSE {<<1, logical_to_physical(mdres.chunk_tree, b)>>}
Process(t) ==
    /\ worker[t].state = "busy"
    /\ LET it == worker[t].item[1]
           new == [i \in DOMAIN it.blocks |-> Fixed(world, Unpacked(it)[i], mdres.devid)]
           here(d, a) == {i \in DOMAIN it.blocks : <<d, a>> \in Targets(it.start + i - 1)}
           put == [d \in Devices |-> [a \in DOMAIN disk[d] |->
                     IF here(d, a) = {} THEN disk[d][a] ELSE new[CHOOSE i \in here(d, a) : TRUE]]]
       IN  \E ok \in {TRUE} \cup {~world.full} :
           /\ disk' = IF ~ok THEN disk
                      ELSE IF it.start = BTRFS_SUPER_INFO_OFFSET /\ ~world.multi
                      THEN [put EXCEPT ![1] = WithSupers(@, new[1])] ELSE put
           /\ worker' = [worker EXCEPT ![t].state = IF ok /\ it.good THEN "right" ELSE "wrong"]
           /\ IF ~ok /\ round = 2 THEN pc' = "done" /\ ret' = 1 ELSE UNCHANGED <<pc, ret>>
    /\ UNCHANGED <<world, cur, mdres, round>>
Noted(error, state) == IF error = 0 /\ state = "wrong" THEN EIO ELSE error
Count(t) ==
    /\ worker[t].state \in {"right", "wrong"}
    /\ mdres' = [mdres EXCEPT !.error = Noted(@, worker[t].state), !.num_items = @ - 1]
    /\ worker' = [worker EXCEPT ![t] = [state |-> "top", item |-> <<>>]]
    /\ UNCHANGED <<world, cur, disk, pc, ret, round>>

Threads == pc # "done" /\ \E t \in world.threads : Take(t) \/ Process(t) \/ Count(t)
Next == \/ Build \/ Header \/ add_cluster \/ wait_for_worker \/ Destroy \/ Stop \/ JoinThreads \/ OtherSupers
        \/ Threads
Spec == Init /\ [][Next]_vars

-----------------------------------------------------------------------------
(* Properties *)

Restored == pc = "done" /\ ret = 0
AllBlocks == UNION {{<<it.start + i - 1, it.blocks[i]>> : i \in DOMAIN it.blocks} :
    it \in UNION {{world.image[c].items[i] : i \in DOMAIN world.image[c].items} : c \in DOMAIN world.image}}
\* A restored file system can be read: the super block maps its chunks to the
\* device it is on, and every block of the image is where the chunk item that
\* was written for it says (build_chunk_tree, logical_to_physical and
\* fixup_chunk_tree_block agree), however the workers were scheduled.
RestoredIsReadable ==
    Restored /\ ~world.multi /\ ~world.old_restore /\ world.seekable =>
       LET written == UNION {{b.chunks[k] : k \in DOMAIN b.chunks} : b \in {disk[1][a] : a \in DOMAIN disk[1]}}
           devid == disk[1][BTRFS_SUPER_INFO_OFFSET].devid
       IN  \A x \in AllBlocks :
             /\ x[1] = BTRFS_SUPER_INFO_OFFSET => disk[1][x[1]].kind = "super"
             /\ x[1] # BTRFS_SUPER_INFO_OFFSET =>
                \E c \in written :
                   /\ c.logical <= x[1] /\ x[1] < c.logical + c.bytes
                   /\ Len(c.stripes) = 1 /\ c.stripes[1][1] = devid
                   /\ LET there == disk[1][c.stripes[1][2] + x[1] - c.logical] IN
                      there.kind = x[2].kind /\ there.copy = x[2].copy
\* With -m and the right number of devices every stripe of every block holds it,
\* and each device has the super block and the backups that name it.
DevicesAreRestored ==
    Restored /\ world.multi /\ NumDevices = world.dev_cnt =>
       /\ \A x \in AllBlocks : x[1] # BTRFS_SUPER_INFO_OFFSET =>
             \A c \in world.chunks : c.logical <= x[1] /\ x[1] < c.logical + c.bytes =>
                \A k \in DOMAIN c.stripes : disk[c.stripes[k][1]][c.stripes[k][2] + x[1] - c.logical] = x[2]
       /\ \A d \in Devices : disk[d][BTRFS_SUPER_INFO_OFFSET].devid = d
       /\ \A d \in Devices \ {1} : \A k \in Backups : disk[d][btrfs_sb_offset[k]].devid = d
\* The restore fails when, and only when, a buffer cannot be read or unpacked, a
\* header is wrong, or a write failed.
Faulty == \E c \in DOMAIN world.image :
    \/ world.image[c].bytenr # world.image[c].at
    \/ \E i \in DOMAIN world.image[c].items : ~world.image[c].items[i].good \/ world.cut = <<c, i>>
FailuresAreReported ==
    pc = "done" => /\ ret = 0 => ~Faulty /\ mdres.error = 0
                   /\ ret # 0 => Faulty \/ world.full
\* A cluster is added only when all buffers of the one before have been dealt
\* with (BUG_ON in add_cluster): no buffer is unpacked by another's method.
ClustersDoNotMix == pc # "bug"
\* While the main thread waits for buffers or threads, some thread is awake.
SomebodyWorks ==
    /\ pc = "wait" /\ mdres.error = 0 /\ mdres.num_items > 0 =>
         \E t \in world.threads : worker[t].state \in {"top", "busy", "right", "wrong"}
    /\ pc = "join" => \A t \in world.threads : worker[t].state # "wait"
\* "backup super blocks are already there at fixup_offset stage": when the
\* second round begins, every device has its backup super blocks.
BackupsAreThere ==
    round = 2 => \A d \in Devices : \A k \in Backups : disk[d][btrfs_sb_offset[k]].kind = "super"

-----------------------------------------------------------------------------
\* The instance TLC checks: images, options and devices.

Bk(kind, kids, chunks, copy) == [kind |-> kind, kids |-> kids, chunks |-> chunks, devid |-> IF kind = "super" THEN 1 ELSE 0, copy |-> copy]
Ch(l, n, s) == [logical |-> l, bytes |-> n, stripes |-> s, profile |-> IF Len(s) = 1 THEN "single" ELSE "raid1"]
It(start, blocks) == [start |-> start, blocks |-> blocks, good |-> TRUE]
\* Block 1 is the super block, 3 the chunk root, 4 and 5 its leaves, 13 and 14
\* other metadata, 15 data of the cache.  Its chunks are at 3, 13 and 15.
Chunks(s1, s2, s3) == <<Ch(3, 3, s1), Ch(13, 2, s2), Ch(15, 1, s3)>>
Super(n, cs) == Bk("super", <<3>> \o [d \in 1 .. n |-> d], <<cs[1]>>, 0)
Parts(n, cs) == [
  super |-> It(1, <<Super(n, cs)>>),
  root |-> It(3, <<Bk("chunk_node", <<4, 5>>, <<>>, 3)>>),
  leaves |-> It(4, <<Bk("chunk_leaf", <<>>, <<cs[1], cs[2]>>, 4), Bk("chunk_leaf", <<>>, <<cs[3]>>, 5)>>),
  meta |-> It(13, <<Bk("other", <<>>, <<>>, 13), Bk("other", <<>>, <<>>, 14)>>),
  data |-> It(15, <<Bk("data", <<>>, <<>>, 15)>>)]
Image(n, cs, o) == LET p == Parts(n, cs) IN
  [c \in 1 .. Len(o) |-> [bytenr |-> c - 1, at |-> c - 1, items |-> [i \in 1 .. Len(o[c]) |-> p[o[c][i]]]]]
Orders == {<<<<"super", "root">>, <<"leaves", "meta">>, <<"data">>>>, <<<<"super", "leaves">>, <<"meta", "root">>, <<"data">>>>}
One == Chunks(<<<<1, 3>>>>, <<<<1, 9>>>>, <<<<1, 7>>>>)
Two == Chunks(<<<<1, 3>>, <<2, 4>>>>, <<<<2, 9>>, <<1, 9>>>>, <<<<2, 2>>>>)
W(cs, o, n, multi, old, seek, threads, cut, full, size) ==
  [image |-> Image(n, cs, o), chunks |-> {cs[i] : i \in 1 .. 3}, multi |-> multi, old_restore |-> old, seekable |-> seek,
   dev_cnt |-> IF multi THEN 2 ELSE 1, threads |-> 1 .. threads, cut |-> cut, full |-> full, size |-> size]
Spoilt(w, c, i) == [w EXCEPT !.image[c].items[i].good = FALSE]
MCWorlds ==
  {W(One, o, 1, FALSE, FALSE, TRUE, 2, <<0, 0>>, FALSE, sz) : o \in Orders, sz \in {11, 15}}
  \cup {W(Two, o, 2, FALSE, FALSE, TRUE, 1, <<0, 0>>, FALSE, 15) : o \in Orders}
  \cup {W(Two, o, n, TRUE, FALSE, TRUE, 1, <<0, 0>>, f, 15) : o \in Orders, n \in 1 .. 2, f \in BOOLEAN}
  \cup {W(One, o, 1, FALSE, old, seek, 1, cut, f, 15) : o \in Orders, old \in BOOLEAN, seek \in BOOLEAN,
                                                       cut \in {<<0, 0>>, <<1, 1>>, <<2, 2>>}, f \in BOOLEAN}
  \cup {Spoilt(W(One, o, 1, FALSE, FALSE, seek, 1, <<0, 0>>, FALSE, 15), c, 1) : o \in Orders, seek \in BOOLEAN, c \in 1 .. 3}
  \cup {[W(One, o, 1, FALSE, FALSE, seek, 1, <<0, 0>>, FALSE, 15) EXCEPT !.image[2].bytenr = 7] : o \in Orders, seek \in BOOLEAN}
=============================================================================

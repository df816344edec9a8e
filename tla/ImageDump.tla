------------------------------ MODULE ImageDump ------------------------------
(***************************************************************************)
(* btrfs-image, making an image (btrfs-image.c, create_metadump).  The main*)
(* thread collects the blocks to copy into runs of adjacent blocks, reads  *)
(* them and queues them; dump_worker threads compress them; a full cluster *)
(* is written by the main thread once all of its buffers are ready.        *)
(*                                                                         *)
(* Addresses and lengths on the file system are in tree blocks, the super  *)
(* block being one of them.  Lengths in the image are in half blocks of    *)
(* BLOCK_SIZE.  A tree block is [level, items, slack]; an item is          *)
(* [kind, to, names, body].                                                *)
(***************************************************************************)
EXTENDS Integers, FiniteSets, SequencesExt

CONSTANTS Worlds,             \* file systems and options
          MAX_PENDING_SIZE,   \* longest run of adjacent blocks
          ITEMS_PER_CLUSTER   \* buffers in a cluster

VARIABLES world, at, md, worker, out, pc, err
vars == <<world, at, md, worker, out, pc, err>>

BTRFS_SUPER_INFO_OFFSET == 1
BLOCK_SIZE == 2
NodeBytes == 8
EIO == 5

-----------------------------------------------------------------------------
(* The blocks to copy, in the order they are added *)

Ext(start, size, data, stage) == [start |-> start, size |-> size, data |-> data, stage |-> stage]
Unread(stage) == Ext(0, 0, FALSE, stage)      \* -EIO at this place

\* copy_tree_blocks: the block, and below it its children, or with root_tree
\* the trees whose roots its leaves name.
RECURSIVE copy_tree_blocks(_, _, _, _)
copy_tree_blocks(w, b, root_tree, stage) ==
    LET eb == w.fs[b]
        Below(it) ==
          IF eb.level = 0 /\ it.kind # "root" THEN <<>>
          ELSE IF it.to \in w.unreadable THEN <<Unread(stage)>>
          ELSE copy_tree_blocks(w, it.to, root_tree /\ eb.level > 0, stage)
    IN  <<Ext(b, 1, FALSE, stage)>> \o
        (IF eb.level = 0 /\ ~root_tree THEN <<>>
         ELSE FlattenSeq([i \in 1 .. Len(eb.items) |-> Below(eb.items[i])]))

\* copy_from_extent_tree: extent items by address, those that hold a tree
\* block.  An old item says so in its first v0 reference (is_tree_block).
is_tree_block(w, i) ==
    \E j \in (i + 1) .. Len(w.extents) :
       /\ w.extents[j].start = w.extents[i].start /\ w.extents[j].key = "ref_v0"
       /\ w.extents[j].tree
       /\ \A k \in (i + 1) .. (j - 1) :
             w.extents[k].start = w.extents[i].start /\ w.extents[k].key # "ref_v0"
RECURSIVE FromItems(_, _, _)
FromItems(w, i, bytenr) ==
    IF i > Len(w.extents) THEN <<>>
    ELSE LET e == w.extents[i] IN
         IF e.start < bytenr \/ e.key \notin {"extent", "metadata"} THEN FromItems(w, i + 1, bytenr)
         ELSE (IF IF e.v0 THEN is_tree_block(w, i) ELSE e.tree
               THEN <<Ext(e.start, e.size, FALSE, "trees")>> ELSE <<>>)
              \o FromItems(w, i + 1, e.start + e.size)
copy_from_extent_tree(w) == FromItems(w, 1, BTRFS_SUPER_INFO_OFFSET + 1)

copy_log_trees(w) ==
    IF w.log_root = 0 THEN <<>>
    ELSE IF w.log_root \in w.unreadable THEN <<Unread("log")>>
    ELSE copy_tree_blocks(w, w.log_root, TRUE, "log")

\* copy_space_cache: the extents of the files in the tree of tree roots.
copy_space_cache(w) == [i \in 1 .. Len(w.cache) |-> Ext(w.cache[i][1], w.cache[i][2], TRUE, "cache")]

\* create_metadump
Script(w) ==
    <<Ext(BTRFS_SUPER_INFO_OFFSET, 1, FALSE, "super")>>
    \o (IF w.walk THEN copy_tree_blocks(w, w.chunk_root, TRUE, "trees")
                       \o copy_tree_blocks(w, w.tree_root, TRUE, "trees")
        ELSE copy_from_extent_tree(w))
    \o copy_log_trees(w) \o copy_space_cache(w)

-----------------------------------------------------------------------------
(* What is kept of a block *)

\* Garbage is random: the k-th one is unlike any other.
garbage(n, k) == [i \in 1 .. Len(n) |-> <<"#1", "#2", "#3", "#4", "#5">>[k]]
generate_garbage(n) == garbage(n, 1)
Crc(n) == Cardinality({i \in 1 .. Len(n) : n[i] = "a"}) % 2       \* any checksum
Letters == {"a", "b", "c"}
\* name_cmp compares as many letters as the shorter name has.
name_cmp(m, n) == \A i \in 1 .. Len(m) : i <= Len(n) => m[i] = n[i]
\* Letters read past the end of a shorter replacement are unknown.
Shown(s, n) == [i \in 1 .. Len(n) |-> IF i <= Len(s) THEN s[i] ELSE "?"]
KnownNames(tree, n) == {e \in tree : name_cmp(e.val, n)}
Collisions(n) == {s \in [1 .. Len(n) -> Letters] : s # n /\ Crc(s) = Crc(n)}
\* Names are tried in order, the first letter changing fastest.
Before(s, t) == \E i \in DOMAIN s :
    /\ \A j \in (i + 1) .. Len(s) : s[j] = t[j]
    /\ <<s[i], t[i]>> \in {<<"a", "b">>, <<"a", "c">>, <<"b", "c">>}
Replacement(tree, n) ==
    IF Collisions(n) = {} THEN garbage(n, Cardinality(tree) + 1)
    ELSE CHOOSE s \in Collisions(n) : \A t \in Collisions(n) \ {s} : Before(s, t)
Remember(tree, n, sub) == [tree |-> tree \cup {[val |-> n, sub |-> sub]}, sub |-> sub]
find_collision(tree, n) ==
    IF KnownNames(tree, n) # {}
    THEN [tree |-> tree, sub |-> Shown((CHOOSE e \in KnownNames(tree, n) : TRUE).sub, n)]
    ELSE Remember(tree, n, Replacement(tree, n))

\* sanitize_dir_item, sanitize_inode_ref: every name of the item.
NewName(tree, n, level) ==
    IF level > 1 THEN find_collision(tree, n) ELSE [tree |-> tree, sub |-> generate_garbage(n)]
AddName(acc, new) == [tree |-> new.tree, names |-> Append(acc.names, new.sub)]
SanitizeNames(tree, names, level) ==
    FoldLeft(LAMBDA acc, n : AddName(acc, NewName(acc.tree, n, level)),
             [tree |-> tree, names |-> <<>>], names)
sanitize_xattr(it) == [it EXCEPT !.body = "zero"]
has_name(it) == it.kind \in {"dir", "inode_ref", "xattr"}
Renamed(it, r) == [tree |-> r.tree, item |-> [it EXCEPT !.names = r.names]]
sanitize_name(tree, it, level) ==
    IF it.kind = "xattr" THEN [tree |-> tree, item |-> sanitize_xattr(it)]
    ELSE Renamed(it, SanitizeNames(tree, it.names, level))
Inline(it) == it.kind = "inline"
\* zero_items
Zeroed(tree, it, level) ==
    IF it.kind = "csum" THEN [tree |-> tree, item |-> [it EXCEPT !.body = "zero"]]
    ELSE IF level > 0 /\ has_name(it) THEN sanitize_name(tree, it, level)
    ELSE IF Inline(it) THEN [tree |-> tree, item |-> [it EXCEPT !.body = "zero"]]
    ELSE [tree |-> tree, item |-> it]
AddItem(acc, new) == [tree |-> new.tree, items |-> Append(acc.items, new.item)]
zero_items(tree, items, level) ==
    FoldLeft(LAMBDA acc, it : AddItem(acc, Zeroed(acc.tree, it, level)),
             [tree |-> tree, items |-> <<>>], items)
ZeroedLeaf(src, z) == [tree |-> z.tree, block |-> [src EXCEPT !.items = z.items, !.slack = "zero"]]
copy_buffer(tree, b, src, level) ==
    IF b = BTRFS_SUPER_INFO_OFFSET THEN [tree |-> tree, block |-> src]
    ELSE IF src.level > 0 THEN [tree |-> tree, block |-> [src EXCEPT !.slack = "zero"]]
    ELSE ZeroedLeaf(src, zero_items(tree, src.items, level))

-----------------------------------------------------------------------------
(* The main thread and the workers *)

\* A buffer is [id, start, size, blocks, packed, bufsize].
Blocks(e) == e.start .. (e.start + e.size - 1)
AddBlock(acc, new) == [tree |-> new.tree, blocks |-> Append(acc.blocks, new.block)]
ReadBlocks(w, tree, e) ==
    FoldLeft(LAMBDA acc, b : AddBlock(acc, copy_buffer(acc.tree, b, w.fs[b], w.sanitize)),
             [tree |-> tree, blocks |-> <<>>], [i \in 1 .. e.size |-> e.start + i - 1])
read_data_extent(w, e) == [i \in 1 .. e.size |-> w.fs[e.start + i - 1]]

\* meta_cluster_init
NewCluster(m, start) == [m EXCEPT !.num_items = 0, !.num_ready = 0, !.header = start]
NoPending == Ext(0, 0, FALSE, "none")

\* metadump_init
Init ==
    /\ world \in Worlds
    /\ at = 1 /\ pc = "add" /\ err = 0 /\ out = <<>>
    /\ md = [pending |-> NoPending, list |-> <<>>, ordered |-> <<>>, num_items |-> 0, num_ready |-> 0,
             header |-> 0, name_tree |-> {}, done |-> FALSE, ids |-> 0]
    /\ worker = [t \in world.threads |-> [state |-> "top", id |-> 0]]

\* flush_pending up to the mutex: the pending run is read into a buffer.
Readable(e) == Blocks(e) \cap world.unreadable = {}
Queue(m, async) ==
    [m EXCEPT !.pending = NoPending, !.ids = @ + 1, !.ordered = Append(@, async), !.num_items = @ + 1,
              !.list = IF world.level > 0 THEN Append(@, async.id) ELSE @,
              !.num_ready = IF world.level > 0 THEN @ ELSE @ + 1]
Buffer(m, e, r) ==
    Queue([m EXCEPT !.name_tree = r.tree],
          [id |-> m.ids + 1, start |-> e.start, size |-> e.size, blocks |-> r.blocks,
           packed |-> FALSE, bufsize |-> NodeBytes * e.size])
Read(m) ==
    Buffer(m, m.pending,
           IF m.pending.data THEN [tree |-> m.name_tree, blocks |-> read_data_extent(world, m.pending)]
           ELSE ReadBlocks(world, m.name_tree, m.pending))
Waiting == {t \in world.threads : worker[t].state = "wait"}
\* pthread_cond_signal wakes one of the threads that wait, broadcast all.
Signal(some) ==
    IF some /\ Waiting # {} THEN \E t \in Waiting : worker' = [worker EXCEPT ![t].state = "top"]
    ELSE UNCHANGED worker

\* A failing stage leaves for out; the error of copy_space_cache is dropped.
Kept(stage) == stage # "cache"
Fail(stage) == /\ err' = IF Kept(stage) THEN EIO ELSE err
               /\ pc' = "out"

\* add_extent for the next block of the script.
Adjoins(p, e) == /\ p.data = e.data /\ p.size > 0
                 /\ p.size + e.size <= MAX_PENDING_SIZE
                 /\ p.start + p.size = e.start
Step == Script(world)[at]
add_extent ==
    /\ pc = "add" /\ at <= Len(Script(world))
    /\ \E e \in {Step} :
         IF e.size = 0 THEN Fail(e.stage) /\ UNCHANGED <<at, md, worker>>
         ELSE IF Adjoins(md.pending, e)
         THEN md' = [md EXCEPT !.pending.size = @ + e.size] /\ at' = at + 1 /\ UNCHANGED <<pc, err, worker>>
         ELSE IF md.pending.size = 0
         THEN md' = [md EXCEPT !.pending = e] /\ at' = at + 1 /\ UNCHANGED <<pc, err, worker>>
         ELSE IF ~Readable(md.pending) THEN Fail(e.stage) /\ UNCHANGED <<at, md, worker>>
         ELSE \E m \in {Read(md)} :
              /\ Signal(world.level > 0)
              /\ IF m.num_items >= ITEMS_PER_CLUSTER
                 THEN pc' = "write" /\ md' = m /\ UNCHANGED <<at, err>>
                 ELSE md' = [m EXCEPT !.pending = e] /\ at' = at + 1 /\ UNCHANGED <<pc, err>>
    /\ UNCHANGED <<world, out>>
copied == pc = "add" /\ at > Len(Script(world)) /\ pc' = "out" /\ UNCHANGED <<world, at, md, worker, out, err>>

\* out: flush_pending(md, 1).
flush_pending ==
    /\ pc = "out"
    /\ IF md.pending.size = 0 THEN pc' = "write_last" /\ UNCHANGED <<md, err, worker>>
       ELSE IF ~Readable(md.pending)
       THEN pc' = "destroy" /\ err' = (IF err = 0 THEN EIO ELSE err) /\ UNCHANGED <<md, worker>>
       ELSE md' = Read(md) /\ Signal(world.level > 0) /\ pc' = "write_last" /\ UNCHANGED err
    /\ UNCHANGED <<world, at, out>>

\* write_buffers with the mutex held, once the workers are through: the index
\* block, the buffers, zeroes up to a block.  Write number k of them fails.
RECURSIVE SumSizes(_)
SumSizes(s) == IF s = <<>> THEN 0 ELSE Head(s).bufsize + SumSizes(Tail(s))
RoundUp(n) == ((n + BLOCK_SIZE - 1) \div BLOCK_SIZE) * BLOCK_SIZE
AllReady(m) == m.num_items <= m.num_ready
NextStart(m) == RoundUp(m.header + BLOCK_SIZE + SumSizes(m.ordered))
Cluster(m) == [bytenr |-> m.header, compress |-> world.level > 0, items |-> m.ordered]
Writes(m) == Len(m.ordered) + 1 + (IF NextStart(m) = m.header + BLOCK_SIZE + SumSizes(m.ordered) THEN 0 ELSE 1)
Torn(k) == [bytenr |-> -k, compress |-> FALSE, items |-> <<>>]
Torn_(o) == \E i \in 1 .. Len(o) : o[i].bytenr < 0
write_buffers(last) ==
    IF md.ordered = <<>>
    THEN md' = NewCluster(md, 0) /\ pc' = "destroy" /\ UNCHANGED <<out, at, err>>
    ELSE /\ AllReady(md)
         /\ \/ /\ out' = Append(out, Cluster(md))
               /\ \E n \in {[NewCluster(md, NextStart(md)) EXCEPT !.ordered = <<>>]} :
                    IF last THEN md' = n /\ pc' = "destroy" /\ UNCHANGED at
                    ELSE md' = [n EXCEPT !.pending = Step] /\ pc' = "add" /\ at' = at + 1
               /\ UNCHANGED err
            \/ \E k \in (IF world.full /\ ~Torn_(out) THEN 1 .. Writes(md) ELSE {}) :
               /\ out' = Append(out, Torn(k))
               /\ md' = IF k = 1 THEN md ELSE [md EXCEPT !.ordered = <<>>]
               /\ IF last THEN pc' = "destroy" /\ err' = (IF err = 0 THEN EIO ELSE err)
                  ELSE Fail(Step.stage)
               /\ UNCHANGED at
write == /\ \/ pc = "write" /\ write_buffers(FALSE)
            \/ pc = "write_last" /\ write_buffers(TRUE)
         /\ UNCHANGED <<world, worker>>

\* metadump_destroy
Woken(state) == IF state = "wait" THEN "top" ELSE state
metadump_destroy ==
    /\ pc = "destroy" /\ pc' = "join"
    /\ md' = [md EXCEPT !.done = TRUE]
    /\ worker' = [t \in world.threads |-> [worker[t] EXCEPT !.state = Woken(@)]]
    /\ UNCHANGED <<world, at, out, err>>
join == /\ pc = "join" /\ \A t \in world.threads : worker[t].state = "exit"
        /\ pc' = "done" /\ UNCHANGED <<world, at, md, worker, out, err>>

\* dump_worker: with the mutex held it takes a buffer, waits or ends; it
\* compresses without the mutex, to any size, and counts the buffer under it.
Take(t) ==
    /\ worker[t].state = "top"
    /\ IF md.list # <<>>
       THEN /\ worker' = [worker EXCEPT ![t] = [state |-> "busy", id |-> Head(md.list)]]
            /\ md' = [md EXCEPT !.list = Tail(@)]
       ELSE worker' = [worker EXCEPT ![t].state = IF md.done THEN "exit" ELSE "wait"] /\ UNCHANGED md
    /\ UNCHANGED <<world, at, out, pc, err>>
Compress(t) ==
    /\ worker[t].state = "busy"
    /\ \E n \in {1, NodeBytes} :
         md' = [md EXCEPT !.ordered = [i \in DOMAIN @ |->
                   IF @[i].id = worker[t].id THEN [@[i] EXCEPT !.packed = TRUE, !.bufsize = n] ELSE @[i]]]
    /\ worker' = [worker EXCEPT ![t].state = "counting"]
    /\ UNCHANGED <<world, at, out, pc, err>>
Count(t) ==
    /\ worker[t].state = "counting"
    /\ md' = [md EXCEPT !.num_ready = @ + 1]
    /\ worker' = [worker EXCEPT ![t] = [state |-> "top", id |-> 0]]
    /\ UNCHANGED <<world, at, out, pc, err>>

Next == \/ add_extent \/ copied \/ flush_pending \/ write \/ metadump_destroy \/ join
        \/ \E t \in world.threads : Take(t) \/ Compress(t) \/ Count(t)
Spec == Init /\ [][Next]_vars

-----------------------------------------------------------------------------
(* Properties *)

RECURSIVE Items(_)
Items(o) == IF o = <<>> THEN <<>> ELSE Head(o).items \o Items(Tail(o))
Copied(o) == FlattenSeq([i \in DOMAIN o |-> [j \in 1 .. o[i].size |-> <<o[i].start + j - 1, o[i].blocks[j]>>]])
Wanted == FlattenSeq([i \in DOMAIN Script(world) |->
               [j \in 1 .. Script(world)[i].size |-> Script(world)[i].start + j - 1]])
\* create_metadump ended well: all the clusters are complete, each sits at the
\* address its header gives, holds finished buffers of the method the header
\* names and at most a full cluster of them, and together they hold the blocks
\* that were to be copied, in that order and each as often as it was added,
\* whichever threads compressed them when.
ImageIsWhole ==
    pc = "done" /\ err = 0 /\ ~Torn_(out) /\ at > Len(Script(world)) =>
       /\ \A c \in DOMAIN out :
            /\ Len(out[c].items) \in 1 .. ITEMS_PER_CLUSTER
            /\ \A i \in DOMAIN out[c].items : out[c].items[i].packed = out[c].compress
            /\ out[c].bytenr % BLOCK_SIZE = 0
            /\ c > 1 => LET p == out[c - 1] IN
                 out[c].bytenr = RoundUp(p.bytenr + BLOCK_SIZE + SumSizes(p.items))
       /\ [i \in DOMAIN Copied(Items(out)) |-> Copied(Items(out))[i][1]] = Wanted
\* What was zeroed of a tree block is file data, checksums and unused space (and
\* with -s names and extended attributes); all else of it is as on the device
\* (copy_buffer, zero_items; "All data will be zeroed, but metadata and the like
\* is preserved" in the manual page).
MetadataIsPreserved ==
    pc = "done" => \A c \in DOMAIN Copied(Items(out)) :
       LET b == Copied(Items(out))[c][1]
           new == Copied(Items(out))[c][2]
           old == world.fs[b]
           tree == old.slack # "none"
       IN  /\ new.level = old.level /\ Len(new.items) = Len(old.items)
           /\ tree => new.slack = "zero"
           /\ \A i \in DOMAIN new.items :
                LET it == old.items[i] IN
                /\ new.items[i].kind = it.kind /\ new.items[i].to = it.to
                /\ (new.items[i].body = "zero") = (it.kind \in {"csum", "inline"} \cup
                        (IF world.sanitize > 0 THEN {"xattr"} ELSE {}))
                /\ world.sanitize = 0 => new.items[i].names = it.names
                /\ it.kind \in {"dir", "inode_ref"} /\ world.sanitize > 0 =>
                      \A k \in DOMAIN it.names : new.items[i].names[k] # it.names[k]
\* A read or a write that failed is an error of create_metadump, whichever tree
\* it was in; only what copy_space_cache returns is dropped.
ErrorsAreReported ==
    pc = "done" /\ err = 0 /\ (Torn_(out) \/ at <= Len(Script(world))) =>
       at <= Len(Script(world)) /\ Step.stage = "cache"
\* With -ss one name has one replacement in the whole image, so that a directory
\* entry and its inode reference still agree (find_collision, name_tree).
NamePairs ==
    UNION {LET old == world.fs[c[1]].items IN
           UNION {{<<old[i].names[k], c[2].items[i].names[k]>> : k \in DOMAIN old[i].names} :
                  i \in {j \in DOMAIN old : old[j].kind \in {"dir", "inode_ref"}}} :
           c \in {Copied(Items(out))[k] : k \in DOMAIN Copied(Items(out))}}
NamesAgree == world.sanitize = 2 => \A p, q \in NamePairs : p[1] = q[1] => p[2] = q[2]
\* With -ss a replacement hashes like the name it stands for, unless no other
\* name does ("calculate a collision for the filename so that the hashes match,
\* and if it can't calculate a collision then it will just generate garbage").
HashesMatch ==
    pc = "done" /\ world.sanitize = 2 =>
       \A p \in NamePairs : Collisions(p[1]) # {} => Crc(p[2]) = Crc(p[1])
\* The main thread never waits for a thread that nobody will wake: while it is
\* in write_buffers or pthread_join, a buffer is in work or a thread is awake.
NobodySleepsForEver ==
    /\ pc \in {"write", "write_last"} /\ md.ordered # <<>> /\ ~AllReady(md) =>
         \E t \in world.threads : worker[t].state \in {"top", "busy", "counting"}
    /\ pc = "join" => \A t \in world.threads : worker[t].state # "wait"

-----------------------------------------------------------------------------
\* The instance TLC checks: file systems and options of btrfs-image.

It(kind, to, names) == [kind |-> kind, to |-> to, names |-> names, body |-> "text"]
B(level, items) == [level |-> level, items |-> items, slack |-> "junk"]
Plain == [level |-> 0, items |-> <<>>, slack |-> "none"]
\* Block 1 is the super block, 2 the chunk root, 3 and 4 the tree root, 5 and 6
\* a file tree, 7 a log root, 8 a log tree, 9 a data block, 10 and 11 a cache.
Fs(n) == [b \in 1 .. 11 |->
   CASE b \in {1, 9, 10, 11} -> Plain
     [] b = 2 -> B(0, <<It("chunk", 0, <<>>)>>)
     [] b = 3 -> B(1, <<It("node", 4, <<>>)>>)
     [] b = 4 -> B(0, <<It("root", 5, <<>>), It("extent_data", 10, <<>>)>>)
     [] b = 5 -> B(0, <<It("dir", 0, <<n[1], n[2]>>), It("csum", 0, <<>>), It("inline", 0, <<>>)>>)
     [] b = 6 -> B(0, <<It("inode_ref", 0, <<n[1]>>), It("xattr", 0, <<n[2]>>)>>)
     [] b = 7 -> B(0, <<It("root", 8, <<>>)>>)
     [] OTHER -> B(0, <<It("inode_ref", 0, <<n[2]>>)>>)]
E(key, start, tree, v0) == [key |-> key, start |-> start, size |-> 1, tree |-> tree, v0 |-> v0]
Extents == <<E("metadata", 2, TRUE, FALSE), E("other", 2, FALSE, FALSE), E("extent", 3, FALSE, TRUE),
             E("ref_v0", 3, TRUE, FALSE), E("metadata", 4, TRUE, FALSE), E("extent", 5, TRUE, FALSE),
             E("extent", 6, TRUE, FALSE), E("extent", 9, FALSE, FALSE)>>
W(names, walk, san, level, threads, bad, full, log, cache) ==
  [fs |-> Fs(names), chunk_root |-> 2, tree_root |-> 3, log_root |-> log, extents |-> Extents, cache |-> cache,
   walk |-> walk, sanitize |-> san, level |-> level, threads |-> threads, unreadable |-> bad, full |-> full]
N1 == <<<<"a", "b">>, <<"b", "a">>>>
N2 == <<<<"a">>, <<"b", "c">>>>
MCWorlds ==
  {W(N1, walk, 0, 1, 1 .. 2, {}, FALSE, log, <<<<10, 2>>>>) : walk \in BOOLEAN, log \in {0, 7}}
  \cup {W(N1, walk, 0, lv, 1 .. 1, bad, full, 7, <<<<10, 1>>, <<11, 1>>>>) :
          walk \in BOOLEAN, lv \in 0 .. 1, bad \in {{}, {5}, {8}, {10}}, full \in BOOLEAN}
  \cup {W(n, walk, s, 0, {}, {}, FALSE, 7, <<>>) : n \in {N1, N2}, walk \in BOOLEAN, s \in 1 .. 2}
\* A name that begins another one.
PrefixWorlds == {W(<<n, <<n[1]>>>>, walk, 2, 0, {}, {}, FALSE, log, cache) :
     n \in [1 .. 2 -> Letters], walk \in BOOLEAN, log \in {0, 7}, cache \in {<<>>, <<<<10, 2>>>>}}
=============================================================================

---------------------------- MODULE FsckExtents ----------------------------
(***************************************************************************)
(* The part of btrfs check that checks the extent tree (cmds-check.c): it  *)
(* scans every tree block from the roots down, gathers one extent_record   *)
(* per extent with what the extent items claim and what the trees really   *)
(* reference, and with --repair rewrites the extent items, or the file     *)
(* extents, that disagree, scanning again when file extents changed.       *)
(*                                                                         *)
(* Addresses and sizes count half tree blocks, so that size 1 keeps its    *)
(* role of "not known yet".  The items of the extent tree are a set; an    *)
(* item carries its back references, inline or keyed alike.  The blocks    *)
(* the repair itself allocates in the extent tree do not appear, and with  *)
(* them free_extent_hook.                                                  *)
(***************************************************************************)
EXTENDS Integers, FiniteSets, SequencesExt

CONSTANTS Worlds        \* the file systems examined

VARIABLES fs,           \* [blocks, roots, skinny, repair]: the trees
          items,        \* the items of the extent tree
          sc,           \* [nodes, pending, reada, seen, last, corrupt, done]: the scan
          ec,           \* [cache, dups, bug]: extent_cache and duplicate_extents
          pc,           \* "scan", "dups", "recs", "done", "aborted" or "bug"
          err,          \* a mismatch was reported in this pass
          passes        \* scans begun

vars == <<fs, items, sc, ec, pc, err, passes>>

LeafSize == 2           \* leafsize = nodesize
Near == 4               \* 32768, the distance of read-ahead
ExtentRoot == 102       \* BTRFS_EXTENT_TREE_OBJECTID
Never == -1             \* memory no backref of the scan has filled in

MaxOf(a, b) == IF a > b THEN a ELSE b
Least(S) == CHOOSE x \in S : \A y \in S : x <= y
Blocks == DOMAIN fs.blocks

-----------------------------------------------------------------------------
(* The extent cache                                                        *)

\* lookup_cache_extent: a record whose cached range meets [start, start+size).
Hits(cache, start, size) ==
    {s \in DOMAIN cache : s < start + size /\ start < s + cache[s].size}

\* A backref as the item or the pointer names it, and the record of it.
TreeKey(parent, root) == [data |-> FALSE, full |-> parent > 0,
                          by |-> IF parent > 0 THEN parent ELSE root, ino |-> 0, off |-> 0]
DataKey(parent, root, ino, off) ==
    [data |-> TRUE, full |-> parent > 0, by |-> IF parent > 0 THEN parent ELSE root,
     ino |-> IF parent > 0 THEN 0 ELSE ino, off |-> IF parent > 0 THEN 0 ELSE off]
NewBack(key, bytes) == [key |-> key, found_ref |-> 0, in_tree |-> FALSE, num_refs |-> 0,
                        disk |-> Never, bytes |-> bytes, broken |-> FALSE]

SumOf(f(_), seq) == FoldSeq(LAMBDA x, n : f(x) + n, 0, seq)

all_backpointers_checked(rec) ==
    \/ \E i \in DOMAIN rec.backs :
          LET b == rec.backs[i] IN
          \/ ~b.in_tree
          \/ ~b.key.data /\ b.found_ref = 0
          \/ b.key.data /\ \/ b.found_ref # b.num_refs
                           \/ b.disk # rec.start
                           \/ b.bytes # rec.nr
    \/ SumOf(LAMBDA b : IF b.key.data THEN b.found_ref ELSE 1, rec.backs) # rec.refs

Without(cache, s) == [x \in DOMAIN cache \ {s} |-> cache[x]]
Keep(st, rec) == [st EXCEPT !.cache = (rec.start :> rec) @@ @]

Finished(rec) == /\ rec.content_checked /\ rec.owner_ref_checked
                 /\ rec.item_refs = rec.refs /\ rec.refs > 0 /\ rec.ndup = 0
                 /\ ~all_backpointers_checked(rec)

maybe_free_extent_rec(st, rec) ==
    IF Finished(rec)
    THEN [st EXCEPT !.cache = Without(@, rec.start)]
    ELSE Keep(st, rec)

NewRec(start, nr, a) ==
    [start |-> start, size |-> nr, max_size |-> a.max, nr |-> MaxOf(nr, a.max),
     found_rec |-> a.ext, content_checked |-> FALSE, owner_ref_checked |-> FALSE,
     metadata |-> a.meta, is_root |-> a.root, refs |-> IF a.inc THEN 1 ELSE 0,
     item_refs |-> a.irefs, ndup |-> 0, dups |-> <<>>, backs |-> <<>>]

\* a: [irefs, root, inc, meta, ext, max], the other arguments of the call.
add_extent_rec(st, start, nr, a) ==
    IF Hits(st.cache, start, nr) = {} THEN Keep(st, NewRec(start, nr, a))
    ELSE LET rec == st.cache[Least(Hits(st.cache, start, nr))]
             dup == a.ext /\ (start # rec.start \/ rec.found_rec)
             new == [rec EXCEPT
                       !.refs = @ + (IF a.inc THEN 1 ELSE 0),
                       !.nr = IF a.ext /\ ~dup THEN nr
                              ELSE IF @ = 1 THEN MaxOf(nr, a.max) ELSE @,
                       !.found_rec = @ \/ (a.ext /\ ~dup),
                       !.dups = IF dup THEN Append(@, [start |-> start, nr |-> nr,
                                                       max_size |-> a.max, metadata |-> a.meta,
                                                       item_refs |-> a.irefs, found_rec |-> TRUE])
                                ELSE @,
                       !.ndup = IF dup THEN @ + 1 ELSE @,
                       !.item_refs = IF a.irefs > 0 /\ ~dup THEN a.irefs ELSE @,
                       !.is_root = @ \/ a.root,
                       !.max_size = MaxOf(@, a.max)]
             listed == IF dup /\ rec.start \notin Range(st.dups)
                       THEN [st EXCEPT !.dups = Append(@, rec.start)] ELSE st
         IN  maybe_free_extent_rec(listed, new)

\* The record the reference belongs to, made if there is none.
RecFor(st, bytenr, meta, max) ==
    IF Hits(st.cache, bytenr, 1) # {} THEN st
    ELSE add_extent_rec(st, bytenr, 1, [irefs |-> 0, root |-> FALSE, inc |-> FALSE,
                                        meta |-> meta, ext |-> FALSE, max |-> max])

\* find_tree_backref / find_data_backref: the places of the backref in the list.
FindBack(rec, key, found, disk, bytes) ==
    {i \in DOMAIN rec.backs :
        LET b == rec.backs[i] IN
        /\ b.key = key
        /\ ~(key.data /\ ~key.full /\ found /\ b.found_ref > 0
             /\ (b.bytes # bytes \/ b.disk # disk))}

\* The list with the backref in it, and its place.
WithBack(rec, key, found, disk, bytes) ==
    LET at == FindBack(rec, key, found, disk, bytes) IN
    IF at # {} THEN <<rec.backs, Least(at)>>
    ELSE <<Append(rec.backs, NewBack(key, bytes)), Len(rec.backs) + 1>>

add_tree_backref(st0, bytenr, parent, root, found) ==
    LET st == RecFor(st0, bytenr, TRUE, 0)
        rec == st.cache[Least(Hits(st.cache, bytenr, 1))]
        wb == WithBack(rec, TreeKey(parent, root), found, bytenr, 0)
        backs == IF found THEN [wb[1] EXCEPT ![wb[2]].found_ref = 1]
                          ELSE [wb[1] EXCEPT ![wb[2]].in_tree = TRUE]
    IN  IF rec.start # bytenr THEN [st EXCEPT !.bug = TRUE]
        ELSE Keep(st, [rec EXCEPT !.backs = backs])

add_data_backref(st0, bytenr, key, num, found, max) ==
    LET st == RecFor(st0, bytenr, FALSE, max)
        rec == st.cache[Least(Hits(st.cache, bytenr, 1))]
        wb == WithBack(rec, key, found, bytenr, max)
        old == wb[1][wb[2]]
        new == IF found THEN [old EXCEPT !.found_ref = @ + 1, !.bytes = max, !.disk = bytenr]
                        ELSE [old EXCEPT !.num_refs = num, !.in_tree = TRUE]
    IN  IF found /\ old.found_ref > 0 /\ old.bytes # max THEN [st EXCEPT !.bug = TRUE]
        ELSE Keep(st, [rec EXCEPT !.backs = [wb[1] EXCEPT ![wb[2]] = new],
                                  !.max_size = MaxOf(@, max),
                                  !.refs = IF found THEN @ + 1 ELSE @,
                                  !.content_checked = @ \/ found,
                                  !.owner_ref_checked = @ \/ found])

-----------------------------------------------------------------------------
(* The trees                                                               *)

ItemsOf(leaf) == {i \in items : fs.blocks[leaf].lo <= i.start /\ i.start < fs.blocks[leaf].hi}
ExtentLeaves == {b \in Blocks : fs.blocks[b].owner = ExtentRoot /\ fs.blocks[b].level = 0}
Reachable(addr) == \E b \in ExtentLeaves : fs.blocks[b].ok /\ fs.blocks[b].lo <= addr
                                                           /\ addr < fs.blocks[b].hi

\* btrfs_lookup_extent_info on a tree block: its full-backref flag, and TRUE
\* when no item can be found.  In a file system with skinny items the first
\* key tried is (bytenr, METADATA_ITEM, offset).
LookupFull(bytenr, offset) ==
    LET found == {i \in items : i.start = bytenr /\ Reachable(bytenr)
                                /\ \/ fs.skinny /\ i.meta /\ i.level = offset
                                   \/ ~i.meta /\ i.len = LeafSize}
    IN  found = {} \/ \E i \in found : i.full

\* The pointers and the path a search down the owner's tree would take.
RootBlocks(root) == {r[2] : r \in {x \in Range(fs.roots) : x[1] = root}}
Below(b) == Range(fs.blocks[b].kids)
InTree(root) ==
    LET near == RootBlocks(root)
        step(S) == S \cup UNION {Below(b) : b \in S}
    IN  step(step(near))

check_owner_ref(rec, b) ==
    LET blk == fs.blocks[b] IN
    \/ \E i \in DOMAIN rec.backs :
          LET k == rec.backs[i].key IN
          rec.backs[i].found_ref > 0 /\ ~k.data /\ ~k.full /\ k.by = blk.owner
    \/ \E p \in InTree(blk.owner) : fs.blocks[p].level = blk.level + 1 /\ b \in Below(p)

is_extent_tree_record(rec) ==
    /\ \A i \in DOMAIN rec.backs : ~rec.backs[i].key.data /\ ~rec.backs[i].key.full
    /\ \E i \in DOMAIN rec.backs : rec.backs[i].key.by = ExtentRoot

\* The corrupt block is remembered only when it belongs to the extent tree.
record_bad_block_io(b) ==
    LET hit == Hits(ec.cache, b, LeafSize) IN
    IF hit # {} /\ is_extent_tree_record(ec.cache[Least(hit)]) THEN {b} ELSE {}

\* check_block: the state after it, and whether the content is looked at.
check_block(st, b, full) ==
    LET hit == Hits(st.cache, b, LeafSize) IN
    IF hit = {} THEN <<st, FALSE>>
    ELSE LET rec == st.cache[Least(hit)]
             owner_ok == full \/ check_owner_ref(rec, b)
             new == [rec EXCEPT !.content_checked = TRUE,
                                !.owner_ref_checked = @ \/ owner_ok]
         IN  IF ~owner_ok THEN <<[Keep(st, new) EXCEPT !.bug = @ \/ rec.is_root], FALSE>>
             ELSE <<maybe_free_extent_rec(st, new), TRUE>>

-----------------------------------------------------------------------------
(* Scanning                                                                *)

ItemSeq(S) == [n \in 1 .. Cardinality(S) |->
                 CHOOSE i \in S : Cardinality({j \in S : j.start < i.start \/
                                     (j.start = i.start /\ j.len < i.len)}) = n - 1]

\* The calls that reading items and pointers makes, in their order.
RecCall(start, nr, a) == [fn |-> "rec", start |-> start, nr |-> nr, a |-> a]
TreeCall(bytenr, parent, root, found) ==
    [fn |-> "tree", start |-> bytenr, parent |-> parent, root |-> root, found |-> found]
DataCall(bytenr, key, num, found, max) ==
    [fn |-> "data", start |-> bytenr, key |-> key, num |-> num, found |-> found, max |-> max]

Call(st, c) ==
    CASE c.fn = "rec" -> add_extent_rec(st, c.start, c.nr, c.a)
      [] c.fn = "tree" -> add_tree_backref(st, c.start, c.parent, c.root, c.found)
      [] c.fn = "data" -> add_data_backref(st, c.start, c.key, c.num, c.found, c.max)

RECURSIVE Calls(_, _)
Calls(st, cs) == IF st.bug \/ cs = <<>> THEN st ELSE Calls(Call(st, Head(cs)), Tail(cs))

process_extent_item(i) ==
    LET num_bytes == IF i.meta THEN LeafSize ELSE i.len
        ref(r) == IF r.key.data THEN DataCall(i.start, r.key, r.num, FALSE, num_bytes)
                  ELSE TreeCall(i.start, IF r.key.full THEN r.key.by ELSE 0, r.key.by, FALSE)
    IN  <<RecCall(i.start, num_bytes, [irefs |-> i.refs, root |-> FALSE, inc |-> FALSE,
                                       meta |-> i.meta, ext |-> TRUE, max |-> num_bytes])>>
        \o SetToSeq({ref(r) : r \in i.backs})

\* The contents of leaf b: extent items, then file extents.
ScanLeaf(b, parent, owner) ==
    LET listed == IF b \in ExtentLeaves THEN ItemSeq(ItemsOf(b)) ELSE <<>>
        file(f) == DataCall(f.disk, DataKey(parent, owner, f.ino, f.pos - f.off), 1, TRUE, f.len)
    IN  FlattenSeq([n \in DOMAIN listed |-> process_extent_item(listed[n])])
        \o [n \in DOMAIN fs.blocks[b].files |-> file(fs.blocks[b].files[n])]

\* The pointers of node b.
Pointed(ptr, root) == RecCall(ptr, LeafSize, [irefs |-> 0, root |-> root, inc |-> TRUE,
                                              meta |-> TRUE, ext |-> FALSE, max |-> LeafSize])
ScanNode(b, parent, owner) ==
    FlattenSeq([n \in DOMAIN fs.blocks[b].kids |->
        LET ptr == fs.blocks[b].kids[n]
        IN  <<Pointed(ptr, FALSE), TreeCall(ptr, parent, owner, TRUE)>>])

\* A block check_block is content with.
ScanContents(res, b, parent, owner) ==
    Calls(res[1], IF ~res[2] THEN <<>>
                  ELSE IF fs.blocks[b].level = 0 THEN ScanLeaf(b, parent, owner)
                  ELSE ScanNode(b, parent, owner))

\* The blocks pick_next_pending returns, and whether they come from read-ahead.
RECURSIVE NearBy(_, _)
NearBy(addr, pending) ==
    LET after == {p \in pending : p >= addr} IN
    IF after = {} \/ Least(after) - addr > Near THEN {}
    ELSE {Least(after)} \cup NearBy(Least(after) + LeafSize, after \ {Least(after)})

pick_next_pending(s) ==
    LET from == IF s.last > Near THEN s.last - Near ELSE s.last
        on == {n \in s.nodes : n + LeafSize > from}
        batch == IF on # {} THEN on ELSE s.nodes
    IN  CASE s.reada # {} -> <<Least(s.reada), {}>>
          [] s.reada = {} /\ s.nodes # {} ->
                <<Least(batch), batch \cup NearBy(Least(batch) + LeafSize, s.pending)>>
          [] s.reada = {} /\ s.nodes = {} /\ s.pending # {} -> <<Least(s.pending), s.pending>>
          [] OTHER -> <<0, {}>>

\* A visited block is taken off all four trees.
Visited(s, b) == [s EXCEPT !.nodes = @ \ {b}, !.pending = @ \ {b},
                           !.reada = @ \ {b}, !.seen = @ \ {b}]

add_pending(s, b) ==
    IF b \in s.seen THEN s
    ELSE [s EXCEPT !.seen = @ \cup {b},
                   !.nodes = IF fs.blocks[b].level > 0 THEN @ \cup {b} ELSE @,
                   !.pending = IF fs.blocks[b].level = 0 THEN @ \cup {b} ELSE @]

run_next_block ==
    /\ pc = "scan"
    /\ \E pick \in {pick_next_pending(sc)} :
       LET b == pick[1]
           blk == fs.blocks[b]
           s0 == Visited([sc EXCEPT !.reada = @ \cup pick[2], !.last = b,
                                    !.done = Append(@, b)], b)
           full == LookupFull(b, blk.level)
       IN  /\ b # 0
           /\ UNCHANGED <<fs, items, err, passes>>
           /\ IF ~blk.ok
              THEN /\ sc' = [s0 EXCEPT !.corrupt = @ \cup record_bad_block_io(b)]
                   /\ UNCHANGED <<ec, pc>>
              ELSE \E res \in {check_block(ec, b, full)} :
                   \E st \in {ScanContents(res, b, IF full THEN b ELSE 0, blk.owner)} :
                      /\ ec' = st
                      /\ pc' = IF st.bug THEN "bug" ELSE "scan"
                      /\ sc' = IF res[2] THEN FoldLeft(add_pending, s0, blk.kids) ELSE s0

add_root_to_pending(r) ==
    <<Pointed(r[2], TRUE), TreeCall(r[2], IF r[3] THEN r[2] ELSE 0, r[1], TRUE)>>

\* The extent cache and the scan at the label "again"; last keeps its value.
FreshScan(f, last) ==
    LET tops == {r[2] : r \in Range(f.roots)}
        high == {b \in tops : f.blocks[b].level > 0}
    IN  [nodes |-> high, pending |-> tops \ high, reada |-> {}, seen |-> tops,
         last |-> last, corrupt |-> {}, done |-> <<>>]
FreshCache(f) == Calls([cache |-> <<>>, dups |-> <<>>, bug |-> FALSE],
                       FlattenSeq([n \in DOMAIN f.roots |-> add_root_to_pending(f.roots[n])]))

-----------------------------------------------------------------------------
(* Duplicate extent items (with --repair only)                             *)

\* prune_corrupt_blocks: the pointers to unreadable extent leaves go, and the
\* leaf that is left takes their range.
prune_corrupt_blocks ==
    LET gone == sc.corrupt \cap ExtentLeaves
        parents == {p \in Blocks : fs.blocks[p].owner = ExtentRoot /\ fs.blocks[p].level = 1}
        rest == ExtentLeaves \ gone
    IN  IF gone = {} \/ rest = {} THEN <<fs, items>>
        ELSE <<[fs EXCEPT !.blocks = [b \in Blocks \ gone |->
                   IF b \in parents
                   THEN [@[b] EXCEPT !.kids = SelectSeq(@, LAMBDA k : k \notin gone)]
                   ELSE IF b \in rest
                   THEN [@[b] EXCEPT !.lo = Least({fs.blocks[x].lo : x \in ExtentLeaves}),
                                     !.hi = CHOOSE h \in {fs.blocks[x].hi : x \in ExtentLeaves} :
                                               \A x \in ExtentLeaves : fs.blocks[x].hi <= h]
                   ELSE @[b]]],
               items \ UNION {ItemsOf(b) : b \in gone}>>

\* Nothing is pending any more: check_extent_refs begins.
ScanEnds ==
    /\ pc = "scan" /\ pick_next_pending(sc)[1] = 0
    /\ pc' = "dups"
    /\ LET pruned == IF fs.repair THEN prune_corrupt_blocks ELSE <<fs, items>>
       IN  fs' = pruned[1] /\ items' = pruned[2]
    /\ UNCHANGED <<sc, ec, err, passes>>

\* process_duplicates on a record no extent item was found for: the one
\* duplicate takes its place and its backrefs, and swallows what it overlaps.
RECURSIVE Swallow(_, _)
Swallow(st, good) ==
    LET hit == Hits(st.cache, good.start, good.size) IN
    IF hit = {} THEN [st EXCEPT !.cache = (good.start :> good) @@ @,
                                !.dups = IF good.ndup > 0 THEN Append(@, good.start) ELSE @]
    ELSE LET tmp == st.cache[Least(hit)]
             left == [st EXCEPT !.cache = Without(@, tmp.start),
                                !.dups = SelectSeq(@, LAMBDA x : x # tmp.start)]
         IN  IF tmp.found_rec \/ tmp.ndup > 0
             THEN Swallow(left, [good EXCEPT !.ndup = @ + tmp.ndup + 1,
                      !.dups = @ \o tmp.dups \o
                               <<[start |-> tmp.start, nr |-> tmp.nr, max_size |-> tmp.max_size,
                                  metadata |-> tmp.metadata, item_refs |-> tmp.item_refs,
                                  found_rec |-> tmp.found_rec]>>])
             ELSE Swallow(left, [good EXCEPT !.refs = @ + tmp.refs, !.backs = @ \o tmp.backs])

process_duplicates(st, rec) ==
    LET d == rec.dups[1]
        good == [rec EXCEPT !.start = d.start, !.size = d.nr, !.nr = d.nr,
                            !.max_size = d.max_size, !.metadata = d.metadata,
                            !.item_refs = d.item_refs, !.found_rec = TRUE,
                            !.content_checked = FALSE, !.owner_ref_checked = FALSE,
                            !.ndup = 0, !.dups = <<>>]
    IN  Swallow([st EXCEPT !.cache = Without(@, rec.start)], good)

\* delete_duplicate_records: the claim that covers the others stays.
Covers(x, y) == x.start <= y.start /\ x.nr >= y.nr
GoodOf(rec) == FoldLeft(LAMBDA good, t : IF Covers(t, good) THEN t ELSE good, rec, rec.dups)
NotCovered(rec) == \E i \in DOMAIN rec.dups :
    LET good == GoodOf([rec EXCEPT !.dups = SubSeq(@, 1, i - 1)]) t == rec.dups[i] IN
    Covers(t, good) /\ t.start + t.nr < good.start + good.nr
Claim(x) == <<x.start, x.nr>>
delete_duplicate_records(rec) ==
    {c \in {Claim(rec.dups[i]) : i \in DOMAIN rec.dups} \cup
           (IF rec.found_rec THEN {Claim(rec)} ELSE {}) : c # Claim(GoodOf(rec))}

\* One entry of duplicate_extents ("bug" also where the code goes on to use
\* the record process_duplicates has freed).  With the list empty, a pass that deleted
\* something starts over and any other goes on to the records.
next_duplicate ==
    /\ pc = "dups" /\ fs.repair /\ ec.dups # <<>>
    /\ \E st \in {[ec EXCEPT !.dups = Tail(@)]}, rec \in {ec.cache[Head(ec.dups)]} :
       IF ~rec.found_rec /\ rec.ndup = 1
       THEN \E new \in {process_duplicates(st, rec)} :
            /\ ec' = new
            /\ pc' = IF new.cache[rec.dups[1].start].ndup = 0 THEN pc ELSE "bug"
            /\ UNCHANGED <<items, err>>
       ELSE LET goners == delete_duplicate_records(rec)
                dead == {i \in items : <<i.start, i.len>> \in goners /\ ~i.meta}
            IN  /\ items' = items \ dead
                /\ ec' = Keep(st, [rec EXCEPT !.dups = <<>>,
                                              !.ndup = IF dead = {} THEN 0 ELSE @])
                /\ err' = (err \/ dead # {})
                /\ pc' = IF NotCovered(rec) \/ (\E i \in DOMAIN rec.dups : rec.dups[i].metadata)
                         THEN "bug" ELSE pc
    /\ UNCHANGED <<fs, sc, passes>>

\* The state at the label "again", after the commit.
Again(f) ==
    /\ sc' = FreshScan(f, sc.last) /\ ec' = FreshCache(f)
    /\ pc' = "scan" /\ err' = FALSE /\ passes' = passes + 1

duplicates_done ==
    /\ pc = "dups" /\ (~fs.repair \/ ec.dups = <<>>)
    /\ IF err THEN Again(fs) /\ UNCHANGED <<fs, items>>
       ELSE pc' = "recs" /\ UNCHANGED <<fs, items, sc, ec, err, passes>>

-----------------------------------------------------------------------------
(* Repairing one record                                                    *)

\* The file extent items a search for (root, ino, pos >= off) goes over.
FilesOf(root) == {<<b, i>> \in UNION {{<<b, i>> : i \in DOMAIN fs.blocks[b].files} :
                                      b \in InTree(root) \cap Blocks} : TRUE}
FileAt(x) == fs.blocks[x[1]].files[x[2]]

\* find_possible_backrefs: an item's backref nothing was found for may name a
\* file extent that points elsewhere, where no extent item is.
find_possible_backrefs(rec) ==
    [rec EXCEPT !.backs = [i \in DOMAIN @ |->
        LET b == @[i]
            at == {x \in FilesOf(b.key.by) : FileAt(x).ino = b.key.ino
                                            /\ FileAt(x).pos = b.key.off}
            f == FileAt(CHOOSE x \in at : TRUE)
            hit == Hits(ec.cache, f.disk, 1)
        IN  IF \/ b.found_ref > 0 \/ ~b.key.data \/ b.key.full \/ at = {}
               \/ hit # {} /\ ec.cache[Least(hit)].found_rec
            THEN b
            ELSE [b EXCEPT !.found_ref = @ + 1, !.disk = f.disk, !.bytes = f.len,
                           !.broken = TRUE]]]

find_entry(es, bytenr, bytes) == {i \in DOMAIN es : es[i].bytenr = bytenr /\ es[i].bytes = bytes}
Entry(bytenr, bytes) == [bytenr |-> bytenr, bytes |-> bytes, count |-> 0, broken |-> 0]
Counted(es, bytenr, bytes, broken) ==
    LET with == IF find_entry(es, bytenr, bytes) = {} THEN Append(es, Entry(bytenr, bytes)) ELSE es
        at == Least(find_entry(with, bytenr, bytes))
    IN  [with EXCEPT ![at].count = @ + 1, ![at].broken = IF broken THEN @ + 1 ELSE @]

\* One entry against the best and the previous one so far (0: none).
find_most_right_entry(es) ==
    LET next(s, i) ==
          LET e == es[i] p == es[s.prev] IN
          CASE s.prev = 0 -> [s EXCEPT !.prev = i]
            [] s.prev # 0 /\ e.broken = e.count -> s
            [] s.prev # 0 /\ e.broken # e.count /\ s.best # 0 /\ es[s.best].count = e.count ->
                  [prev |-> i, best |-> 0]
            [] s.prev # 0 /\ e.broken # e.count /\ ~(s.best # 0 /\ es[s.best].count = e.count)
               /\ p.broken = 0 /\ p.count = e.count -> s
            [] OTHER -> [prev |-> i,
                         best |-> IF s.best = 0 THEN (IF p.count > e.count THEN s.prev ELSE i)
                                  ELSE IF es[s.best].count < e.count THEN i ELSE s.best]
    IN  FoldLeft(next, [prev |-> 0, best |-> 0], [i \in DOMAIN es |-> i]).best

\* The size a repaired file extent item gets.
Resized(h, e) == [h EXCEPT !.len = e.bytes]

\* repair_ref: the file extent of backref b points at the agreed extent; a
\* set of outcomes, {} when the repair gives up with -EINVAL.
repair_ref(f, b, e) ==
    LET at == {x \in FilesOf(b.key.by) : LET g == FileAt(x) IN
                  /\ g.ino = b.key.ino /\ g.pos >= b.key.off
                  /\ g.disk = b.disk /\ g.len = b.bytes}
        x == CHOOSE y \in at : \A z \in at : FileAt(y).pos <= FileAt(z).pos
        g == FileAt(x)
        shifted == g.off + b.disk - e.bytenr
        moved == CASE b.broken \/ b.disk = e.bytenr -> {[g EXCEPT !.disk = e.bytenr]}
                   [] ~b.broken /\ b.disk > e.bytenr ->
                         IF b.disk + g.off + g.num > e.bytenr + e.bytes THEN {}
                         ELSE {[g EXCEPT !.disk = e.bytenr, !.off = shifted]}
                   [] OTHER -> IF b.disk + g.off < e.bytenr THEN {}
                               ELSE {[g EXCEPT !.disk = e.bytenr, !.off = shifted]}
    IN  IF at = {} THEN {}
        ELSE {[f EXCEPT !.blocks[x[1]].files[x[2]] = Resized(h, e)] : h \in moved}

\* verify_backrefs: [ret, fs].
verify_backrefs(rec) ==
    LET real == SelectSeq(rec.backs, LAMBDA b : b.found_ref > 0 /\ ~b.key.full)
        es0 == FoldLeft(LAMBDA es, b : Counted(es, b.disk, b.bytes, b.broken), <<>>, real)
        agree == Len(es0) <= 1 /\ \A i \in DOMAIN real :
                    real[i].disk = rec.start /\ real[i].bytes = rec.nr /\ ~real[i].broken
        alone == find_entry(es0, rec.start, rec.nr) = {}
        asked == find_most_right_entry(es0) = 0
        stuck == /\ asked /\ alone
                 /\ (\A i \in DOMAIN real : ~real[i].broken) \/ ~rec.found_rec
        es == IF asked THEN Counted(es0, rec.start, rec.nr, FALSE) ELSE es0
        best == find_most_right_entry(es)
        wrong == SelectSeq(real, LAMBDA b : b.bytes # es[best].bytes
                                            \/ b.disk # es[best].bytenr)
        fixed == FoldLeft(LAMBDA F, b : UNION {repair_ref(f, b, es[best]) : f \in F}, {fs}, wrong)
    IN  CASE rec.metadata \/ agree -> [ret |-> "ok", fs |-> fs]
          [] ~(rec.metadata \/ agree) /\ (stuck \/ best = 0) -> [ret |-> "EINVAL", fs |-> fs]
          [] ~(rec.metadata \/ agree) /\ ~stuck /\ best # 0
             /\ (es[best].bytenr # rec.start \/ fixed = {}) -> [ret |-> "EINVAL", fs |-> fs]
          [] OTHER -> [ret |-> "EAGAIN", fs |-> CHOOSE f \in fixed : TRUE]

\* The flag of the new item.  Mutant: it is not carried over.
NewFlag_Lost(tree, full) == FALSE
NewFlag(tree, full) == tree /\ full

\* record_extent for every backref that was found: the new item.  It always
\* has an EXTENT_ITEM key, of the largest size anyone claimed.
record_extent(rec, full) ==
    LET found == {rec.backs[i] : i \in {j \in DOMAIN rec.backs : rec.backs[j].found_ref > 0}}
        tree == \E b \in found : ~b.key.data
    IN  IF found = {} THEN {}
        ELSE {[start |-> rec.start, meta |-> FALSE, level |-> 0,
               len |-> IF tree THEN MaxOf(rec.max_size, LeafSize) ELSE rec.max_size,
               refs |-> MapThenSumSet(LAMBDA b : b.found_ref, found),
               full |-> NewFlag(tree, full),
               backs |-> {[key |-> b.key, num |-> b.found_ref] : b \in found}]}

\* fixup_extent_refs: [ret, fs, items].  Flags are looked up under the key
\* (start, METADATA_ITEM or EXTENT_ITEM, max_size).
fixup_extent_refs(rec0) ==
    LET full == LookupFull(rec0.start, rec0.max_size)
        rec == IF rec0.refs # rec0.item_refs /\ ~rec0.metadata
               THEN find_possible_backrefs(rec0) ELSE rec0
        v == verify_backrefs(rec)
        rest == {i \in items : i.start # rec.start}
        corrupt == \E b \in sc.corrupt : b < rec.start + rec.max_size /\ rec.start < b + LeafSize
    IN  CASE v.ret # "ok" -> [ret |-> v.ret, fs |-> v.fs, items |-> items]
          [] v.ret = "ok" /\ ~Reachable(rec.start) -> [ret |-> "EIO", fs |-> fs, items |-> items]
          [] OTHER -> [ret |-> "ok", fs |-> fs,
                       items |-> rest \cup (IF corrupt THEN {} ELSE record_extent(rec, full))]

\* The complaints check_extent_refs has about a record.
\* Mutant: only the counts are compared.
Complaint_Counts(rec) == rec.ndup > 0 \/ rec.refs # rec.item_refs
Complaint(rec) == \/ rec.ndup > 0
                  \/ rec.refs # rec.item_refs
                  \/ all_backpointers_checked(rec)
                  \/ ~rec.owner_ref_checked
NeedsFix(rec) == rec.refs # rec.item_refs \/ all_backpointers_checked(rec)
                 \/ ~rec.owner_ref_checked

\* The record a data cast would be applied to although it has tree backrefs.
Miscast(rec) == ~rec.metadata /\ \E i \in DOMAIN rec.backs : ~rec.backs[i].key.data

\* One turn of the loop over the records.
check_next_record ==
    /\ pc = "recs" /\ DOMAIN ec.cache # {}
    /\ \E rec \in {ec.cache[Least(DOMAIN ec.cache)]} :
       IF ~(fs.repair /\ NeedsFix(rec))
       THEN /\ ec' = [ec EXCEPT !.cache = Without(@, rec.start)]
            /\ err' = (err \/ Complaint(rec))
            /\ UNCHANGED <<fs, items, sc, pc, passes>>
       ELSE \E fix \in {fixup_extent_refs(rec)} :
            \/ /\ fix.ret = "ok"
               /\ items' = fix.items /\ err' = TRUE
               /\ ec' = [ec EXCEPT !.cache = Without(@, rec.start)]
               /\ UNCHANGED <<fs, sc, pc, passes>>
            \/ /\ fix.ret = "EAGAIN"
               /\ fs' = fix.fs /\ Again(fix.fs)
               /\ UNCHANGED items
            \/ /\ fix.ret \in {"EINVAL", "EIO"} \/ Miscast(rec)
               /\ pc' = "aborted"
               /\ UNCHANGED <<fs, items, sc, ec, err, passes>>

records_done ==
    /\ pc = "recs" /\ DOMAIN ec.cache = {}
    /\ pc' = "done"
    /\ UNCHANGED <<fs, items, sc, ec, err, passes>>

-----------------------------------------------------------------------------
(* What the trees really reference                                         *)

RECURSIVE Down(_, _)
Down(f, S) == LET T == S \cup UNION {Range(f.blocks[b].kids) : b \in S}
              IN  IF T = S THEN S ELSE Down(f, T)
TreeBlocks == Down(fs, {r[2] : r \in Range(fs.roots)})

Ptrs(b) == {<<p, i>> \in UNION {{<<p, i>> : i \in DOMAIN fs.blocks[p].kids} : p \in TreeBlocks} :
               fs.blocks[p].kids[i] = b}
Tops(b) == {r \in Range(fs.roots) : r[2] = b}
Full(b) == LookupFull(b, fs.blocks[b].level)
KeyBelow(p) == TreeKey(IF Full(p) THEN p ELSE 0, fs.blocks[p].owner)
TreeRefs(b) == {KeyBelow(x[1]) : x \in Ptrs(b)} \cup
               {TreeKey(IF r[3] THEN b ELSE 0, r[1]) : r \in Tops(b)}
Uses == UNION {{<<b, i>> : i \in DOMAIN fs.blocks[b].files} : b \in TreeBlocks}
UseKey(x) == DataKey(IF Full(x[1]) THEN x[1] ELSE 0, fs.blocks[x[1]].owner,
                     FileAt(x).ino, FileAt(x).pos - FileAt(x).off)

OwnerKnown(b) ==
    \/ Full(b)
    \/ \E k \in TreeRefs(b) : ~k.full /\ k.by = fs.blocks[b].owner
    \/ \E p \in Down(fs, RootBlocks(fs.blocks[b].owner)) : b \in Below(p)

\* The extent items are exactly the extents in use, with exactly the
\* references there are.
Consistent ==
    /\ {i.start : i \in items} = TreeBlocks \cup {FileAt(x).disk : x \in Uses}
    /\ \A i, j \in items : i = j \/ i.start + i.len <= j.start \/ j.start + j.len <= i.start
    /\ \A b \in TreeBlocks : OwnerKnown(b)
    /\ \A i \in items :
          IF i.start \in TreeBlocks
          THEN LET refs == Cardinality(Ptrs(i.start)) + Cardinality(Tops(i.start)) IN
               /\ i.refs = refs /\ Cardinality(TreeRefs(i.start)) = refs
               /\ {r.key : r \in i.backs} = TreeRefs(i.start) /\ i.len = LeafSize
          ELSE LET us == {x \in Uses : FileAt(x).disk = i.start} IN
               /\ i.refs = Cardinality(us) /\ \A x \in us : FileAt(x).len = i.len
               /\ i.backs = {[key |-> k, num |-> Cardinality({x \in us : UseKey(x) = k})] :
                              k \in {UseKey(x) : x \in us}}

AllReadable == \A b \in TreeBlocks : fs.blocks[b].ok
Twice == \E i, j \in DOMAIN sc.done : i < j /\ sc.done[i] = sc.done[j]

Init == /\ \E w \in Worlds : /\ fs = w.fs /\ items = w.items
                             /\ sc = FreshScan(w.fs, 0) /\ ec \in {FreshCache(w.fs)}
        /\ pc = "scan" /\ err = FALSE /\ passes = 1

Next == run_next_block \/ ScanEnds \/ next_duplicate \/ duplicates_done
        \/ check_next_record \/ records_done
Spec == Init /\ [][Next]_vars

-----------------------------------------------------------------------------
(* Properties                                                              *)

\* Without --repair the check complains about the extent items if and only if
\* they are not those of the trees, in whatever order the addresses of the
\* blocks make run_next_block meet items, pointers and file extents: records
\* that are dropped early because they are complete are never needed again.
\* A block may be scanned twice, because a visited block is also taken off the
\* blocks seen, and its references are then counted twice; nothing is claimed
\* of such a scan.
VerdictIsRight ==
    pc = "done" /\ ~fs.repair /\ AllReadable /\ ~Twice => (err <=> ~Consistent)

\* A repair that is carried through leaves extent items that are those of the
\* trees (a file system without skinny items, no block scanned twice).
RepairIsComplete ==
    pc = "done" /\ fs.repair /\ ~fs.skinny /\ AllReadable /\ ~Twice => Consistent

\* The scan is repeated at most once for every file extent that is wrong and
\* once for duplicate items: no repair undoes another.
RescansEnd == passes <= 3

-----------------------------------------------------------------------------
\* The instance TLC checks: file systems of two trees that share a leaf,
\* whose extent items are right, lost, or wrong in one place, at addresses that
\* put the extent tree before or after the others.

Blk(level, owner, kids, files) == [level |-> level, owner |-> owner, kids |-> kids, files |-> files,
                                   ok |-> TRUE, lo |-> 0, hi |-> 100]
F(ino, pos, disk, len) == [ino |-> ino, pos |-> pos, disk |-> disk, len |-> len, off |-> 0, num |-> len]

\* shape: "flat" two trees of one level sharing a leaf; "tall": one is taller
Trees(shape, p) ==
    LET extent == p.ext
        base == (4 :> Blk(0, 101, <<>>, <<>>)) @@ (22 :> Blk(0, 103, <<>>, <<>>))
        ext1 == (extent :> Blk(0, ExtentRoot, <<>>, <<>>))
        ext2 == (extent :> Blk(1, ExtentRoot, <<18, 20>>, <<>>))
                @@ (18 :> [Blk(0, ExtentRoot, <<>>, <<>>) EXCEPT !.hi = 9])
                @@ (20 :> [Blk(0, ExtentRoot, <<>>, <<>>) EXCEPT !.lo = 9])
        files == CASE shape \in {"flat", "tall", "split"} ->
                    (8 :> Blk(1, 105, <<10, 12>>, <<>>)) @@ (10 :> Blk(0, 105, <<>>, <<F(1, 0, 30, 4)>>))
                    @@ (12 :> Blk(0, 105, <<>>, <<F(2, 0, 34, 2), F(2, 4, 30, 4), [F(2, 6, 30, 4) EXCEPT !.off = 2]>>))
                    @@ (14 :> Blk(1, 106, <<10, 16>>, <<>>))
                    @@ (16 :> Blk(0, 106, <<>>, <<F(2, 0, 34, 2)>>))
        tall == (6 :> Blk(2, 106, <<14>>, <<>>))
    IN  [blocks |-> base @@ (IF shape = "split" THEN ext2 ELSE ext1) @@ files
                    @@ (IF shape = "tall" THEN tall ELSE <<>>),
         roots |-> << <<101, 4, FALSE>>, <<103, 22, FALSE>>, <<ExtentRoot, extent, FALSE>>,
                      <<105, 8, FALSE>>, <<106, IF shape = "tall" THEN 6 ELSE 14, FALSE>> >>,
         skinny |-> p.skinny, repair |-> p.repair]

\* the items of a consistent file system, blocks of full having the flag
Good(f, full) ==
    LET tb == Down(f, {r[2] : r \in Range(f.roots)})
        key(p) == TreeKey(IF p \in full THEN p ELSE 0, f.blocks[p].owner)
        refs(b) == {key(p) : p \in {q \in tb : b \in Range(f.blocks[q].kids)}} \cup
                   {TreeKey(0, r[1]) : r \in {x \in Range(f.roots) : x[2] = b}}
        uses == UNION {{<<b, i>> : i \in DOMAIN f.blocks[b].files} : b \in tb}
        at(x) == f.blocks[x[1]].files[x[2]]
        ukey(x) == DataKey(IF x[1] \in full THEN x[1] ELSE 0, f.blocks[x[1]].owner, at(x).ino, at(x).pos - at(x).off)
        of(d) == {x \in uses : at(x).disk = d}
    IN  {[start |-> b, meta |-> f.skinny, level |-> f.blocks[b].level, len |-> LeafSize,
          refs |-> Cardinality(refs(b)), full |-> b \in full,
          backs |-> {[key |-> k, num |-> 1] : k \in refs(b)}] : b \in tb}
        \cup {[start |-> d, meta |-> FALSE, level |-> 0, len |-> at(CHOOSE x \in of(d) : TRUE).len,
               refs |-> Cardinality(of(d)), full |-> FALSE,
               backs |-> {[key |-> k, num |-> Cardinality({x \in of(d) : ukey(x) = k})] : k \in {ukey(x) : x \in of(d)}}] :
              d \in {at(x).disk : x \in uses}}

ItemSlips(good) ==
    {good}
    \cup {good \ {i} : i \in good}
    \cup {(good \ {i}) \cup {[i EXCEPT !.refs = @ + 1]} : i \in good}
    \cup {(good \ {i}) \cup {[i EXCEPT !.refs = @ - 1]} : i \in {x \in good : x.refs > 1}}
    \cup UNION {{(good \ {i}) \cup {[i EXCEPT !.backs = @ \ {r}]} : r \in i.backs} : i \in good}
    \cup UNION {{(good \ {i}) \cup {[i EXCEPT !.backs = (@ \ {r}) \cup {[r EXCEPT !.num = @ + 1]}]} : r \in {y \in i.backs : y.key.data}} : i \in good}
    \cup UNION {{(good \ {i}) \cup {[i EXCEPT !.backs = (@ \ {r}) \cup {[r EXCEPT !.key.by = IF r.key.full THEN 16 ELSE 106]}]} : r \in {y \in i.backs : y.key.by # 106}} : i \in good}
    \cup {(good \ {i}) \cup {[i EXCEPT !.full = ~@]} : i \in {x \in good : x.start < 24}}
    \cup {good \cup {[start |-> 40, meta |-> FALSE, level |-> 0, len |-> 2, refs |-> 1, full |-> FALSE, backs |-> {[key |-> k, num |-> 1]}]} :
             k \in {TreeKey(0, 105), DataKey(0, 105, 9, 0)}}
    \cup {good \cup {[start |-> 32, meta |-> FALSE, level |-> 0, len |-> 2, refs |-> 1, full |-> FALSE, backs |-> {[key |-> DataKey(0, 105, 9, 0), num |-> 1]}]}}
    \cup {(good \ {i}) \cup {[i EXCEPT !.len = 2]} : i \in {x \in good : x.start = 30}}
    \cup {(good \ {i}) \cup {[i EXCEPT !.len = 6]} : i \in {x \in good : x.start = 30}}

FileSlips(f) ==
    {f} \cup {[f EXCEPT !.blocks[12].files = SubSeq(@, 1, 2),  !.blocks[12].files[j] = g] :
                j \in {2}, g \in {F(2, 4, 30, 2), F(2, 4, 30, 6), F(2, 4, 32, 2), F(2, 4, 38, 4)}}

Base(shape, e, sk, rp) == Trees(shape, [ext |-> e, skinny |-> sk, repair |-> rp])
\* each shape with the blocks that have the flag
Shapes == {<<"flat", {}>>, <<"flat", {10}>>, <<"tall", {10}>>, <<"tall", {8}>>, <<"split", {}>>, <<"split", {8}>>}
Slips(f, good) == {[fs |-> f, items |-> it] : it \in ItemSlips(good)}
                  \cup {[fs |-> g, items |-> good] : g \in FileSlips(f)}
MCWorlds ==
    UNION {LET f == Base(shape[1], e, sk, rp) IN Slips(f, Good(f, shape[2])) :
       shape \in Shapes, e \in {2, 24}, sk \in BOOLEAN, rp \in BOOLEAN}
    \cup {LET f == Base("split", e, sk, rp) IN
           [fs |-> [f EXCEPT !.blocks[u].ok = FALSE], items |-> Good(f, full)] :
           e \in {2, 24}, sk \in BOOLEAN, rp \in BOOLEAN, full \in {{}, {10}, {8}}, u \in {10, 16, 18, 20}}
=============================================================================

----------------------------- MODULE FsckInodes -----------------------------
(***************************************************************************)
(* The part of btrfs check that checks inodes (cmds-check.c): it walks     *)
(* every subvolume tree, gathers one inode_record per inode, and visits a  *)
(* block that several trees share only once: what was gathered below the   *)
(* block is kept in a shared_node and merged into the records of every     *)
(* other tree that reaches it.                                             *)
(*                                                                         *)
(* A forest is a set of blocks (a leaf holds items in key order, a node    *)
(* the blocks below it) and a sequence of roots.  Records are values, so   *)
(* the clone_inode_rec / refs copy on write of the code does not appear.   *)
(* Names are values with a length; what count_csum_range finds for an      *)
(* extent is a field of the extent.                                        *)
(***************************************************************************)
EXTENDS Integers, FiniteSets, SequencesExt

CONSTANTS Forests,      \* the forests examined
          RootDir       \* btrfs_root_dirid

VARIABLES forest,       \* the file system being checked
          shared,       \* wc.shared: block -> shared_node
          results       \* one entry per root that was checked

vars == <<forest, shared, results>>

Infinite == 1000        \* (u64)-1
NameLen == 3            \* BTRFS_NAME_LEN
Sector == 2             \* root->sectorsize
OrphanIno == 90         \* BTRFS_ORPHAN_OBJECTID
FreeSpaceIno == 91      \* BTRFS_FREE_SPACE_OBJECTID
FreeIno == 92           \* BTRFS_FREE_INO_OBJECTID

Top == 0                \* stands for root_node among the active nodes
NewNode(refs) == [root_cache |-> <<>>, inode_cache |-> <<>>, current |-> 0, refs |-> refs]

imode_to_type(imode) ==
    CASE imode = "dir" -> "FT_DIR" [] imode = "reg" -> "FT_REG_FILE"
      [] imode = "lnk" -> "FT_SYMLINK" [] OTHER -> "FT_CHRDEV"

NewRec(ino) ==
    [ino |-> ino, checked |-> FALSE, merging |-> FALSE, found_inode_item |-> FALSE,
     found_dir_item |-> FALSE, found_file_extent |-> FALSE, found_csum_item |-> FALSE,
     some_csum_missing |-> FALSE, nodatasum |-> FALSE, errors |-> {}, nlink |-> 0,
     imode |-> "none", isize |-> 0, nbytes |-> 0,
     found_link |-> IF ino = FreeIno THEN 1 ELSE 0, found_size |-> 0,
     extent_start |-> Infinite, extent_end |-> 0, first_extent_gap |-> Infinite,
     backrefs |-> <<>>]

get_inode_rec(cache, ino) == IF ino \in DOMAIN cache THEN cache[ino] ELSE NewRec(ino)
Put(cache, rec) == (rec.ino :> rec) @@ cache
Drop(cache, i) == [j \in DOMAIN cache \ {i} |-> cache[j]]
Errs(cond) == {e \in DOMAIN cond : cond[e]}

-----------------------------------------------------------------------------
(* One record                                                              *)

can_free_inode_rec(rec) ==
    /\ rec.errors = {} /\ rec.checked /\ rec.found_inode_item
    /\ rec.nlink = rec.found_link /\ rec.backrefs = <<>>

\* Names seen from both sides are resolved.
Resolved(rec) ==
    LET typed(b) == IF b.dir_item /\ b.dir_index /\ b.filetype # imode_to_type(rec.imode)
                      THEN [b EXCEPT !.errors = @ \cup {"FILETYPE_UNMATCH"}] ELSE b
        open(b) == ~(b.dir_item /\ b.dir_index /\ b.inode_ref /\ b.errors = {})
    IN SelectSeq([k \in DOMAIN rec.backrefs |-> typed(rec.backrefs[k])], open)

\* What the end of an inode's items decides.
Concluded(rec) ==
    LET data == rec.imode \in {"reg", "lnk"}
        gap == IF data /\ rec.extent_start > 0 THEN 0 ELSE rec.first_extent_gap
    IN [rec EXCEPT !.first_extent_gap = gap, !.errors = @ \cup Errs(
          [DIR_ISIZE_WRONG |-> rec.imode = "dir" /\ rec.found_size # rec.isize,
           ODD_FILE_EXTENT |-> rec.imode = "dir" /\ rec.found_file_extent,
           ODD_DIR_ITEM |-> data /\ rec.found_dir_item,
           FILE_NBYTES_WRONG |-> data /\ rec.found_size # rec.nbytes,
           FILE_EXTENT_DISCOUNT |-> data /\ rec.nlink > 0
                         /\ (rec.extent_end < rec.isize \/ gap < rec.isize),
           ODD_CSUM_ITEM |-> data /\ rec.found_csum_item /\ rec.nodatasum,
           SOME_CSUM_MISSING |-> data /\ rec.some_csum_missing /\ ~rec.nodatasum])]

\* Stores the record, or frees it when nothing is left to say about it.
FreeOrPut(cache, rec) == IF can_free_inode_rec(rec) THEN Drop(cache, rec.ino) ELSE Put(cache, rec)
PutResolved(cache, rec) ==
    IF ~rec.checked \/ rec.merging THEN Put(cache, rec) ELSE FreeOrPut(cache, Concluded(rec))
maybe_free_inode_rec(cache, rec) ==
    IF ~rec.found_inode_item THEN Put(cache, rec)
    ELSE PutResolved(cache, [rec EXCEPT !.backrefs = Resolved(rec)])

NewBackref(dir, name) ==
    [dir |-> dir, name |-> name, dir_item |-> FALSE, dir_index |-> FALSE,
     inode_ref |-> FALSE, filetype |-> "none", index |-> 0, errors |-> {}]

get_inode_backref(backrefs, dir, name) ==
    IF \E k \in DOMAIN backrefs : backrefs[k].dir = dir /\ backrefs[k].name = name
      THEN backrefs ELSE Append(backrefs, NewBackref(dir, name))

\* The three kinds of evidence for a name: DIR_INDEX, DIR_ITEM and INODE_REF.
Noted(b, index, filetype, type, errors) ==
    LET e == b.errors \cup errors IN
    CASE type = "dir_index" ->
           [b EXCEPT !.errors = e \cup Errs([DUP_DIR_INDEX |-> b.dir_index,
                                  INDEX_UNMATCH |-> b.inode_ref /\ b.index # index,
                                  FILETYPE_UNMATCH |-> b.dir_item /\ b.filetype # filetype]),
                     !.index = index, !.filetype = filetype, !.dir_index = TRUE]
      [] type = "dir_item" ->
           [b EXCEPT !.errors = e \cup Errs([DUP_DIR_ITEM |-> b.dir_item,
                                  FILETYPE_UNMATCH |-> b.dir_index /\ b.filetype # filetype]),
                     !.filetype = filetype, !.dir_item = TRUE]
      [] type = "inode_ref" ->
           [b EXCEPT !.errors = e \cup Errs([DUP_INODE_REF |-> b.inode_ref,
                                  INDEX_UNMATCH |-> b.dir_index /\ b.index # index]),
                     !.index = index, !.inode_ref = TRUE]

NoteIn(refs, dir, name, index, filetype, type, errors) ==
    [k \in DOMAIN refs |->
        IF k = SelectInSeq(refs, LAMBDA b : b.dir = dir /\ b.name = name)
          THEN Noted(refs[k], index, filetype, type, errors) ELSE refs[k]]
WithBackref(rec, dir, index, name, filetype, type, errors) ==
    [rec EXCEPT !.found_link = IF type = "dir_item" THEN @ + 1 ELSE @,
                !.backrefs = NoteIn(get_inode_backref(@, dir, name), dir, name,
                                    index, filetype, type, errors)]
add_inode_backref(cache, ino, dir, index, name, filetype, type, errors) ==
    maybe_free_inode_rec(cache,
        WithBackref(get_inode_rec(cache, ino), dir, index, name, filetype, type, errors))

-----------------------------------------------------------------------------
(* The items of one leaf                                                   *)

NameError(name) == IF name.len > NameLen THEN {"NAME_TOO_LONG"} ELSE {}

SetCurrent(N, rec) == [N EXCEPT !.inode_cache = Put(@, rec)]
Current(N) == N.inode_cache[N.current]

process_inode_item(N, it) ==
    LET rec == Current(N) IN
    IF rec.found_inode_item
      THEN SetCurrent(N, [rec EXCEPT !.errors = @ \cup {"DUP_INODE_ITEM"}])
      ELSE [N EXCEPT !.inode_cache = maybe_free_inode_rec(@,
             [rec EXCEPT !.nlink = it.nlink, !.isize = it.isize, !.nbytes = it.nbytes,
                         !.imode = it.imode, !.nodatasum = it.nodatasum,
                         !.found_inode_item = TRUE,
                         !.errors = IF it.nlink = 0 THEN @ \cup {"NO_ORPHAN_ITEM"} ELSE @])]

\* Also process_inode_extref: an extref carries its parent in the item.
process_inode_ref(N, it) ==
    [N EXCEPT !.inode_cache =
        FoldLeft(LAMBDA c, e : add_inode_backref(c, it.ino, it.dir, e.index, e.name, "none",
                                                 "inode_ref", NameError(e.name)),
                 @, it.names)]

DirName(M, it, e) ==
    IF e.loc = "inode"
      THEN [M EXCEPT !.inode_cache = add_inode_backref(@, e.to, it.ino, it.index, e.name,
                                           e.filetype, it.type, NameError(e.name))]
    ELSE IF e.loc = "root"
      THEN [M EXCEPT !.root_cache = add_inode_backref(@, e.to, it.ino, it.index, e.name,
                                           e.filetype, it.type, NameError(e.name))]
    ELSE M
DirEnd(M, it) ==
    IF it.type = "dir_index" /\ Len(it.names) > 1
      THEN SetCurrent(M, [Current(M) EXCEPT !.errors = @ \cup {"DUP_DIR_INDEX"}]) ELSE M
process_dir_item(N, it) ==
    DirEnd(FoldLeft(LAMBDA M, e :
                      DirName(SetCurrent(M, [Current(M) EXCEPT !.found_size = @ + e.name.len]), it, e),
                    SetCurrent(N, [Current(N) EXCEPT !.found_dir_item = TRUE]), it.names), it)

RoundUp(n) == ((n + Sector - 1) \div Sector) * Sector

process_file_extent(N, it) ==
    LET old == Current(N)
        rec == IF old.extent_start # Infinite THEN old
               ELSE [old EXCEPT !.extent_start = it.off, !.extent_end = it.off]
        onDisk == it.kind \in {"reg", "prealloc"} /\ it.disk
        bad == CASE it.kind = "inline" -> it.num = 0
                 [] it.kind \in {"reg", "prealloc"} -> it.num = 0 \/ it.num % Sector # 0 \/ it.encoded
                 [] OTHER -> TRUE
        ext == CASE it.kind = "inline" -> RoundUp(it.num)
                 [] it.kind \in {"reg", "prealloc"} -> it.num
                 [] OTHER -> 0
    IN SetCurrent(N,
         [rec EXCEPT
           !.found_file_extent = TRUE,
           !.first_extent_gap = IF rec.extent_end < it.off /\ rec.extent_end < @
                                  THEN rec.extent_end ELSE @,
           !.found_size = @ + (IF it.kind = "inline" \/ onDisk THEN it.num ELSE 0),
           !.extent_end = it.off + ext,
           !.found_csum_item = @ \/ (onDisk /\ it.kind = "reg" /\ it.csum # "none"),
           !.some_csum_missing = @ \/ (onDisk /\ it.kind = "reg" /\ it.csum # "full"),
           !.errors = @ \cup Errs([FILE_EXTENT_OVERLAP |-> rec.extent_end > it.off,
                                   BAD_FILE_EXTENT |-> bad,
                                   ODD_CSUM_ITEM |-> onDisk /\ it.kind = "prealloc"
                                                       /\ it.csum # "none"])])

\* The first item of the next inode ends the current one.
Begin(N, cache, ino) == [N EXCEPT !.inode_cache = Put(cache, get_inode_rec(cache, ino)), !.current = ino]
NextInode(N, ino) ==
    IF N.current # 0 /\ N.current >= ino THEN N
    ELSE Begin(N, IF N.current = 0 THEN N.inode_cache
                  ELSE maybe_free_inode_rec(N.inode_cache, [Current(N) EXCEPT !.checked = TRUE]), ino)

ItemOfCurrent(M, it) ==
    CASE it.type = "inode" -> process_inode_item(M, it)
      [] it.type = "inode_ref" -> process_inode_ref(M, it)
      [] it.type \in {"dir_item", "dir_index"} -> process_dir_item(M, it)
      [] it.type = "extent" -> process_file_extent(M, it)
      [] OTHER -> M
process_item(N, it) == IF it.ino = FreeSpaceIno THEN N ELSE ItemOfCurrent(NextInode(N, it.ino), it)

-----------------------------------------------------------------------------
(* Blocks shared by several trees                                          *)

dir_count(src) == Cardinality({k \in DOMAIN src.backrefs : src.backrefs[k].dir_item})

\* What src gathered is added to the record of the same inode: first its names,
\* then the rest (d is the record with the names).
MergeName(c, ino, b, type) ==
    IF ~b[type] THEN c
    ELSE add_inode_backref(c, ino, b.dir, b.index, b.name,
                           IF type = "inode_ref" THEN "none" ELSE b.filetype, type, b.errors)
MergeNames(src, dst) ==
    FoldLeft(LAMBDA c, b : FoldLeft(LAMBDA d, type : MergeName(d, dst.ino, b, type),
                                    c, <<"dir_index", "dir_item", "inode_ref">>),
             dst.ino :> [dst EXCEPT !.merging = TRUE], src.backrefs)[dst.ino]
MergeRest(src, d) ==
    LET gap == IF src.first_extent_gap < d.first_extent_gap
                 THEN src.first_extent_gap ELSE d.first_extent_gap
        both == src.extent_start # Infinite /\ d.extent_start # Infinite
        only == src.extent_start # Infinite /\ d.extent_start = Infinite
        first == src.found_inode_item /\ ~d.found_inode_item
    IN [d EXCEPT
          !.merging = FALSE,
          !.found_dir_item = @ \/ src.found_dir_item,
          !.found_file_extent = @ \/ src.found_file_extent,
          !.found_csum_item = @ \/ src.found_csum_item,
          !.some_csum_missing = @ \/ src.some_csum_missing,
          !.first_extent_gap = IF both /\ d.extent_end < src.extent_start /\ d.extent_end < gap
                                 THEN d.extent_end ELSE gap,
          !.found_link = @ + src.found_link - dir_count(src),
          !.found_size = @ + src.found_size,
          !.extent_start = IF only THEN src.extent_start ELSE @,
          !.extent_end = IF only \/ (both /\ @ < src.extent_end) THEN src.extent_end ELSE @,
          !.errors = @ \cup src.errors
                       \cup Errs([FILE_EXTENT_OVERLAP |-> both /\ d.extent_end > src.extent_start,
                                  DUP_INODE_ITEM |-> src.found_inode_item /\ d.found_inode_item]),
          !.nlink = IF first THEN src.nlink ELSE @, !.isize = IF first THEN src.isize ELSE @,
          !.nbytes = IF first THEN src.nbytes ELSE @, !.imode = IF first THEN src.imode ELSE @,
          !.nodatasum = IF first THEN src.nodatasum ELSE @,
          !.found_inode_item = @ \/ src.found_inode_item]
merge_inode_recs(src, dst) == MergeRest(src, MergeNames(src, dst))

SpliceRec(cache, src, r) == maybe_free_inode_rec(cache, [r EXCEPT !.checked = @ \/ src.checked])
SpliceCache(src, dst) ==
    FoldSet(LAMBDA i, c : SpliceRec(c, src[i], merge_inode_recs(src[i], dst[i])),
            dst @@ src, DOMAIN src \cap DOMAIN dst)

SpliceRoots(src, dst) == SpliceCache(src.root_cache, dst.root_cache)

EndCurrent(cache, cur) ==
    IF cur = 0 THEN cache ELSE maybe_free_inode_rec(cache, [cache[cur] EXCEPT !.checked = TRUE])
SpliceCurrent(src, dst, cur) ==
    IF src.current > 0 /\ src.current > cur
      THEN Begin(dst, EndCurrent(dst.inode_cache, cur), src.current)
      ELSE [dst EXCEPT !.current = cur]
splice_shared_node(src, dst) ==
    SpliceCurrent(src,
        [dst EXCEPT !.root_cache = SpliceRoots(src, dst),
                    !.inode_cache = SpliceCache(src.inode_cache, @)],
        IF /\ dst.current \in DOMAIN src.inode_cache \cap DOMAIN dst.inode_cache
           /\ src.inode_cache[dst.current].checked
          THEN 0 ELSE dst.current)

-----------------------------------------------------------------------------
(* The walk of one tree.  W is the walk: the shared nodes, root_node, the  *)
(* stack of active nodes, and whether a block could not be read.           *)

Pointers(f) ==
    {p \in (DOMAIN f.blocks) \X (DOMAIN f.blocks) :
        \E k \in DOMAIN f.blocks[p[1]].kids :
           f.blocks[p[1]].kids[k] = p[2] /\ k > f.blocks[p[1]].dropped}
Refs(f, b) == Cardinality({p \in Pointers(f) : p[2] = b})

ActiveNode(W) == IF Last(W.active) = Top THEN W.top ELSE W.shared[Last(W.active)]
SetActive(W, n) ==
    IF Last(W.active) = Top THEN [W EXCEPT !.top = n] ELSE [W EXCEPT !.shared[Last(W.active)] = n]
AtTop(W) == Len(W.active) = 1
Unref(W, b) ==
    IF W.shared[b].refs = 1 THEN [W EXCEPT !.shared = Drop(@, b)]
                            ELSE [W EXCEPT !.shared[b].refs = @ - 1]


\* A tree being deleted needs no records: it only gives up its reference.
PassOver(W, b) == [skip |-> TRUE, w |-> Unref(W, b)]

SpliceActive(W, b) == Unref(SetActive(W, splice_shared_node(W.shared[b], ActiveNode(W))), b)
\* Enters the block (skip is FALSE), or takes over what is known about it.
enter_shared_node(W, b, refs) ==
    IF b \notin DOMAIN W.shared
      THEN [skip |-> FALSE, w |-> [W EXCEPT !.shared = (b :> NewNode(refs)) @@ @,
                                            !.active = Append(@, b)]]
    ELSE IF AtTop(W) /\ W.dead THEN PassOver(W, b)
    ELSE [skip |-> TRUE, w |-> SpliceActive(W, b)]

LeaveTo(W, b) == IF ~AtTop(W) \/ ~W.dead THEN SpliceActive(W, b) ELSE Unref(W, b)
leave_shared_node(W) ==
    LET b == Last(W.active)
    IN LeaveTo([W EXCEPT !.active = Front(@), !.bug = @ \/ W.shared[b].refs < 2], b)

process_one_leaf(W, items) ==
    IF AtTop(W) /\ W.dead THEN W
    ELSE SetActive(W, FoldLeft(process_item, ActiveNode(W), items))

\* walk_down_tree and walk_up_tree: the blocks below b in order, from slot on.
Left(W, k) == IF ~W.err /\ Last(W.active) = k THEN leave_shared_node(W) ELSE W
RECURSIVE WalkBlock(_, _, _)
Entered(e, k) ==
    IF e.skip THEN e.w
    ELSE IF k \in forest.unreadable THEN [e.w EXCEPT !.err = TRUE]
    ELSE Left(WalkBlock(e.w, k, 1), k)
WalkBlock(W, b, slot) ==
    LET blk == forest.blocks[b]
        kid(X, k) ==
          IF X.err THEN X
          ELSE Entered(IF Refs(forest, k) > 1 THEN enter_shared_node(X, k, Refs(forest, k))
                                              ELSE [skip |-> FALSE, w |-> X], k)
    IN IF blk.level = 0 THEN process_one_leaf(W, blk.items)
       ELSE FoldLeft(kid, W, SubSeq(blk.kids, slot, Len(blk.kids)))

\* The items of a tree.
RECURSIVE Items(_, _)
Items(f, b) ==
    IF f.blocks[b].level = 0 THEN f.blocks[b].items
    ELSE FlattenSeq([k \in DOMAIN f.blocks[b].kids |-> Items(f, f.blocks[b].kids[k])])

check_root_dir(rec) ==
    /\ rec.found_inode_item /\ rec.errors = {} /\ rec.nlink = 1 /\ rec.found_link = 0
    /\ rec.backrefs # <<>>
    /\ LET b == rec.backrefs[1] IN
         b.inode_ref /\ b.index = 0 /\ b.name.id = ".." /\ ~b.dir_index /\ ~b.dir_item

check_orphan_item(items, ino) ==
    \E k \in DOMAIN items : items[k].type = "orphan" /\ items[k].ino = OrphanIno /\ items[k].of = ino

RepairedSize(rec) == rec.found_size

\* --repair: the size of a directory is set to what its entries add up to.
try_repair_inode(rec) ==
    IF forest.repair /\ "DIR_ISIZE_WRONG" \in rec.errors
      THEN [rec EXCEPT !.errors = @ \ {"DIR_ISIZE_WRONG"}, !.isize = RepairedSize(rec)] ELSE rec

\* The inodes reported, and the sizes rewritten.
check_inode_recs(cache, items) ==
    LET adopted(i) ==
          IF "NO_ORPHAN_ITEM" \in cache[i].errors /\ check_orphan_item(items, i)
            THEN [cache[i] EXCEPT !.errors = @ \ {"NO_ORPHAN_ITEM"}] ELSE cache[i]
        freed(i) == "NO_ORPHAN_ITEM" \in cache[i].errors /\ can_free_inode_rec(adopted(i))
        open == {i \in DOMAIN cache \ {RootDir, OrphanIno} : ~freed(i)}
        fixed == {i \in open : try_repair_inode(adopted(i)) # adopted(i)}
        rootBad == RootDir \in DOMAIN cache /\ ~check_root_dir(cache[RootDir])
    IN [bad |-> {i \in open : ~(i \in fixed /\ can_free_inode_rec(try_repair_inode(adopted(i))))}
                  \cup (IF rootBad THEN {RootDir} ELSE {}),
        sizes |-> [i \in fixed |-> RepairedSize(cache[i])]]

-----------------------------------------------------------------------------
\* check_fs_roots: the roots in the order of their ids.
check_fs_root ==
    /\ Len(results) < Len(forest.roots)
    /\ \E root \in {forest.roots[Len(results) + 1]} :
       \E W \in {WalkBlock([shared |-> shared, top |-> NewNode(1), active |-> <<Top>>,
                            dead |-> root.refs = 0, err |-> FALSE, bug |-> FALSE],
                           root.block, forest.blocks[root.block].dropped + 1)} :
       \E c \in {IF W.top.current = 0 THEN W.top.inode_cache
                 ELSE maybe_free_inode_rec(W.top.inode_cache,
                                           [Current(W.top) EXCEPT !.checked = TRUE])} :
       \E r \in {IF root.refs = 0 THEN [bad |-> {}, sizes |-> <<>>]
                 ELSE check_inode_recs(c, Items(forest, root.block))} :
         /\ results' = Append(results, [bad |-> r.bad, sizes |-> r.sizes, bug |-> W.bug,
                                        left |-> DOMAIN c, links |-> W.top.root_cache])
         /\ shared' = W.shared
    /\ UNCHANGED forest

Init == forest \in Forests /\ shared = <<>> /\ results = <<>>
Next == check_fs_root
Spec == Init /\ [][Next]_vars

-----------------------------------------------------------------------------
(* What a tree with these items deserves, said without records, leaves or  *)
(* sharing.  A name is the set of places where it is told.                 *)

Told(items, type) ==
    {<<k, n>> \in (DOMAIN items) \X (1 .. 3) :
        items[k].type = type /\ items[k].ino # FreeSpaceIno /\ n \in DOMAIN items[k].names}
At(items, t) == items[t[1]].names[t[2]]
Entries(items, type, i) ==
    {t \in Told(items, type) : At(items, t).loc = "inode" /\ At(items, t).to = i}
Inos(items) ==
    {items[k].ino : k \in DOMAIN items}
      \cup UNION {{At(items, t).to : t \in {u \in Told(items, y) : At(items, u).loc = "inode"}}
                    : y \in {"dir_item", "dir_index"}}
OfInode(items, type, i) == {k \in DOMAIN items : items[k].type = type /\ items[k].ino = i}

\* Every name of inode i is told once by a DIR_ITEM, once by a DIR_INDEX and once
\* by an INODE_REF, and the three agree with each other and with the inode.
NamesAgree(items, i, inode) ==
    LET di == Entries(items, "dir_item", i)
        dx == Entries(items, "dir_index", i)
        rf == {t \in Told(items, "inode_ref") : items[t[1]].ino = i}
        dirOf(t) == IF items[t[1]].type = "inode_ref" THEN items[t[1]].dir ELSE items[t[1]].ino
        same(t) == [S \in {di, dx, rf} |-> {u \in S : dirOf(u) = dirOf(t)
                                              /\ At(items, u).name = At(items, t).name}]
    IN \A t \in di \cup dx \cup rf :
         /\ At(items, t).name.len <= NameLen
         /\ \E d \in di, x \in dx, r \in rf :
              /\ same(t)[di] = {d} /\ same(t)[dx] = {x} /\ same(t)[rf] = {r}
              /\ items[x[1]].index = At(items, r).index
              /\ At(items, d).filetype = imode_to_type(inode.imode)
              /\ At(items, x).filetype = imode_to_type(inode.imode)

Size(it) == IF it.kind = "inline" THEN RoundUp(it.num) ELSE it.num
Sum(S, f(_)) == FoldSet(LAMBDA x, s : s + f(x), 0, S)

\* The file's extents are well formed, disjoint, and cover the file.
DataAgree(items, i, inode) ==
    LET ext == OfInode(items, "extent", i)
        onDisk(k) == items[k].kind \in {"reg", "prealloc"} /\ items[k].disk
        bytes(k) == items[k].off .. (items[k].off + Size(items[k]) - 1)
        entry(t) == At(items, t).name.len
        names == {t \in Told(items, "dir_item") \cup Told(items, "dir_index") : items[t[1]].ino = i}
    IN /\ \A k \in ext :
            /\ items[k].kind \in {"inline", "reg", "prealloc"} /\ items[k].num > 0
            /\ items[k].kind # "inline" => items[k].num % Sector = 0 /\ ~items[k].encoded
            /\ items[k].kind = "prealloc" /\ onDisk(k) => items[k].csum = "none"
       /\ \A k, l \in ext : k # l => bytes(k) \cap bytes(l) = {}
       /\ \A k \in OfInode(items, "dir_index", i) : Len(items[k].names) = 1
       /\ inode.imode = "dir" => ext = {} /\ Sum(names, entry) = inode.isize
       /\ inode.imode \in {"reg", "lnk"} =>
            /\ OfInode(items, "dir_item", i) \cup OfInode(items, "dir_index", i) = {}
            /\ inode.nbytes = Sum({k \in ext : items[k].kind = "inline" \/ onDisk(k)},
                                  LAMBDA k : items[k].num)
            /\ inode.nlink > 0 => 0 .. (inode.isize - 1) \subseteq UNION {bytes(k) : k \in ext}
            /\ \A k \in ext : items[k].kind = "reg" /\ onDisk(k) =>
                   items[k].csum = IF inode.nodatasum THEN "none" ELSE "full"

Sound(items, i) ==
    \E k \in OfInode(items, "inode", i) :
      /\ OfInode(items, "inode", i) = {k}
      /\ items[k].nlink = Cardinality(Entries(items, "dir_item", i)) + (IF i = FreeIno THEN 1 ELSE 0)
      /\ items[k].nlink = 0 => check_orphan_item(items, i)
      /\ NamesAgree(items, i, items[k]) /\ DataAgree(items, i, items[k])

\* The root directory has one name, "..", that no directory lists.
RootDirSound(items) ==
    \E k \in OfInode(items, "inode", RootDir) :
      /\ OfInode(items, "inode", RootDir) = {k} /\ items[k].nlink = 1
      /\ Entries(items, "dir_item", RootDir) = {} /\ DataAgree(items, RootDir, items[k])
      /\ LET refs == OfInode(items, "inode_ref", RootDir)
             dx == Entries(items, "dir_index", RootDir) IN
         \E r \in refs : /\ items[r].names[1].name.id = ".." /\ items[r].names[1].index = 0
                          /\ \A q \in refs : r <= q
                          /\ \A x \in dx : x[1] > r /\ ~(items[x[1]].ino = items[r].dir
                                              /\ At(items, x).name = items[r].names[1].name)

Faulty(items) ==
    {i \in Inos(items) \ {RootDir, OrphanIno, FreeSpaceIno} : ~Sound(items, i)}
      \cup (IF RootDir \in Inos(items) /\ ~RootDirSound(items) THEN {RootDir} ELSE {})

-----------------------------------------------------------------------------
Readable == forest.unreadable = {}
ItemsOf(r) == Items(forest, forest.roots[r].block)
Live(r) == forest.roots[r].refs > 0

\* However the trees share their blocks, and in whatever leaves their items lie,
\* the inodes check_fs_root reports for a tree are exactly those that are wrong in
\* that tree alone (with --repair, those that stay wrong once sizes are rewritten).
VerdictIsOfTheTree ==
    Readable => \A r \in DOMAIN results :
        IF ~Live(r) THEN results[r].bad = {}
        ELSE LET fix(it) == IF it.type = "inode" /\ it.ino \in DOMAIN results[r].sizes
                              THEN [it EXCEPT !.isize = results[r].sizes[it.ino]] ELSE it
                 items == ItemsOf(r)
             IN results[r].bad = Faulty([k \in DOMAIN items |-> fix(items[k])])

\* What --repair writes is the sum of the directory's entries, so a second check
\* finds nothing to rewrite.
RepairIsFinal ==
    \A r \in DOMAIN results : \A i \in DOMAIN results[r].sizes :
        results[r].sizes[i] =
            Sum({t \in Told(ItemsOf(r), "dir_item") \cup Told(ItemsOf(r), "dir_index") :
                    ItemsOf(r)[t[1]].ino = i}, LAMBDA t : At(ItemsOf(r), t).name.len)

\* Every reference to a shared block is given up exactly once: no BUG_ON on the
\* count fires, and once all trees are walked nothing is left in wc.shared
\* ("warning line" in check_fs_roots).  A tree being deleted leaves no records.
SharedNodesBalance ==
    Readable => /\ \A r \in DOMAIN results : ~results[r].bug /\ (~Live(r) => results[r].left = {})
                /\ Len(results) = Len(forest.roots) => shared = <<>>

\* The subvolumes a tree's directories name reach check_root_refs unchanged.
SubvolumeLinksKept ==
    Readable => \A r \in DOMAIN results :
        LET items == ItemsOf(r)
            links(type) == {<<At(items, t).to, items[t[1]].ino, At(items, t).name>> :
                              t \in {u \in Told(items, type) : At(items, u).loc = "root"}}
            told(f(_)) == UNION {{<<c, results[r].links[c].backrefs[k].dir,
                                    results[r].links[c].backrefs[k].name>> :
                                    k \in {j \in DOMAIN results[r].links[c].backrefs :
                                              f(results[r].links[c].backrefs[j])}}
                                  : c \in DOMAIN results[r].links}
        IN Live(r) => /\ told(LAMBDA b : b.dir_item) = links("dir_item")
                      /\ told(LAMBDA b : b.dir_index) = links("dir_index")

-----------------------------------------------------------------------------
\* The instance TLC checks: one consistent directory tree in
\* three leaves, copies of it with one item lost or altered, and a second and
\* third subvolume that share leaves or nodes with the first in every way.

Nm(c) == [id |-> c, len |-> IF c = ".." THEN 2 ELSE IF c = "long" THEN 4 ELSE 1]
InodeItem(i, mode, nlink, isize, nbytes) == [ino |-> i, type |-> "inode", imode |-> mode, nlink |-> nlink,
    isize |-> isize, nbytes |-> nbytes, nodatasum |-> FALSE]
RefItem(i, dir, c, index) == [ino |-> i, type |-> "inode_ref", dir |-> dir,
    names |-> <<[name |-> Nm(c), index |-> index]>>]
Ent(loc, to, c, ft) == [loc |-> loc, to |-> to, name |-> Nm(c), filetype |-> ft]
DirItem(i, ents) == [ino |-> i, type |-> "dir_item", index |-> 0, names |-> ents]
DirIndex(i, x, ent) == [ino |-> i, type |-> "dir_index", index |-> x, names |-> <<ent>>]
Extent(i, off, kind, num, csum) == [ino |-> i, type |-> "extent", off |-> off, kind |-> kind,
    num |-> num, disk |-> TRUE, encoded |-> FALSE, csum |-> csum]
OrphanItem(i) == [ino |-> OrphanIno, type |-> "orphan", of |-> i]

Base == <<InodeItem(1, "dir", 1, 6, 0), RefItem(1, 1, "..", 0),
          DirItem(1, <<Ent("inode", 2, "a", "FT_REG_FILE"), Ent("inode", 3, "b", "FT_DIR")>>),
          DirItem(1, <<Ent("root", 7, "s", "FT_DIR")>>),
          DirIndex(1, 2, Ent("inode", 2, "a", "FT_REG_FILE")),
          DirIndex(1, 3, Ent("inode", 3, "b", "FT_DIR")),
          DirIndex(1, 4, Ent("root", 7, "s", "FT_DIR")),
          InodeItem(2, "reg", 2, 5, 5), RefItem(2, 1, "a", 2), RefItem(2, 3, "c", 2),
          Extent(2, 0, "reg", 4, "full"), Extent(2, 4, "inline", 1, "none"),
          InodeItem(3, "dir", 1, 2, 0), RefItem(3, 1, "b", 3),
          DirItem(3, <<Ent("inode", 2, "c", "FT_REG_FILE")>>), DirIndex(3, 2, Ent("inode", 2, "c", "FT_REG_FILE")),
          InodeItem(4, "reg", 0, 2, 0), OrphanItem(4)>>
Slip(k) ==
  CASE Base[k].type = "inode" -> {[Base[k] EXCEPT !.nlink = @ + 1], [Base[k] EXCEPT !.isize = @ + 1]}
    [] Base[k].type = "inode_ref" -> {[Base[k] EXCEPT !.names[1].index = 9], [Base[k] EXCEPT !.names[1].name = Nm("long")]}
    [] Base[k].type = "dir_item" -> {[Base[k] EXCEPT !.names[1].filetype = "FT_SYMLINK"]}
    [] Base[k].type = "dir_index" -> {[Base[k] EXCEPT !.index = 9], [Base[k] EXCEPT !.names = @ \o @]}
    [] Base[k].type = "extent" -> {[Base[k] EXCEPT !.off = @ + 2], [Base[k] EXCEPT !.csum = "part"], [Base[k] EXCEPT !.num = @ + 2]}
    [] OTHER -> {[Base[k] EXCEPT !.of = 3]}
Slips == {[at |-> 0, by |-> <<>>]} \cup {[at |-> k, by |-> <<>>] : k \in DOMAIN Base}
           \cup UNION {{[at |-> k, by |-> <<x>>] : x \in Slip(k)} : k \in DOMAIN Base}
Few == {[at |-> 0, by |-> <<>>], [at |-> 5, by |-> <<>>], [at |-> 9, by |-> <<>>], [at |-> 13, by |-> <<[Base[13] EXCEPT !.isize = 4]>>]}
Leaf(s, lo, hi) == [level |-> 0, kids |-> <<>>, dropped |-> 0,
   items |-> FlattenSeq([j \in 1 .. (hi - lo) |-> IF lo + j = s.at THEN s.by ELSE <<Base[lo + j]>>])]
NodeOf(level, kids, d) == [level |-> level, kids |-> kids, dropped |-> d, items |-> <<>>]
Cuts == {<<3, 10>>, <<1, 8>>, <<5, 11>>, <<7, 12>>, <<4, 14>>}
ForestOf(s1, s2, cut, S, shape, third, rep, unr) ==
  LET lo(j) == IF j = 1 THEN 0 ELSE cut[j - 1]
      hi(j) == IF j = 3 THEN Len(Base) ELSE cut[j]
      b(j) == IF j \in S THEN j ELSE 3 + j     \* leaf j of the second tree
      leaves == [n \in 1 .. 6 |-> IF n <= 3 THEN Leaf(s1, lo(n), hi(n)) ELSE Leaf(s2, lo(n - 3), hi(n - 3))]
      used == {1, 2, 3} \cup {b(j) : j \in 1 .. 3}
      mids == shape = "mids"
      m(r, j) == 10 * r + j
      share(j) == mids /\ j = 1 /\ {1, 2} \subseteq S
      Kids(r) == IF mids THEN <<IF r # 1 /\ share(1) THEN m(1, 1) ELSE m(r, 1), m(r, 2)>>
                 ELSE IF r = 2 THEN <<b(1), b(2), b(3)>> ELSE <<1, 2, 3>>
      nodes(r) == ((10 * r) :> NodeOf(IF mids THEN 2 ELSE 1, Kids(r), IF r = 3 /\ third = "half" THEN 1 ELSE 0))
           @@ (IF ~mids THEN <<>> ELSE
                 (m(r, 2) :> NodeOf(1, IF r = 2 THEN <<b(3)>> ELSE <<3>>, 0))
                 @@ (IF (r # 1 /\ share(1)) \/ (r = 3 /\ third = "half") THEN <<>> ELSE m(r, 1) :> NodeOf(1, IF r = 2 THEN <<b(1), b(2)>> ELSE <<1, 2>>, 0)))
      R == IF third = "none" THEN {1, 2} ELSE {1, 2, 3}
      all == nodes(1) @@ nodes(2) @@ (IF 3 \in R THEN nodes(3) ELSE <<>>) @@ [n \in used |-> leaves[n]]
  IN [blocks |-> all, repair |-> rep, unreadable |-> unr,
      roots |-> [r \in 1 .. Cardinality(R) |-> [block |-> 10 * r, refs |-> IF r = 3 /\ third # "live" THEN 0 ELSE 1]]]
NoSlip == [at |-> 0, by |-> <<>>]
MCForests ==
  {ForestOf(s1, NoSlip, c, S, sh, th, rep, {}) :
       s1 \in Slips, c \in {<<3, 10>>, <<5, 11>>}, S \in SUBSET {1, 2, 3}, sh \in {"flat"}, th \in {"none"}, rep \in BOOLEAN}
  \cup {ForestOf(NoSlip, s2, c, S, sh, th, FALSE, u) :
       s2 \in Few, c \in Cuts, S \in SUBSET {1, 2, 3}, sh \in {"flat", "mids"},
       th \in {"live", "dead", "half"}, u \in {{}, {2}}}
=============================================================================

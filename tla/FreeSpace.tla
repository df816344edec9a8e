------------------------------ MODULE FreeSpace ------------------------------
(***************************************************************************)
(* The free space cache of a block group as btrfs check loads it           *)
(* (free-space-cache.c).  The cache file lists extents and bitmaps; loading*)
(* links them into one tree and then turns every bitmap into extents.      *)
(*                                                                         *)
(* An entry is [offset, bytes, bits], bits = {} for an extent and the set  *)
(* of free units of a bitmap otherwise (an empty bitmap has bits = {-1}).  *)
(* Lengths are in units of ctl->unit.  A tree (struct btrfs_free_space_ctl)*)
(* is a set of entries, in the order of offset, an extent before a bitmap. *)
(***************************************************************************)
EXTENDS Integers, FiniteSets, Sequences

CONSTANT BITS_PER_BITMAP     \* units one bitmap covers

NoEntry == [offset |-> -1, bytes |-> 0, bits |-> {}]
IsBitmap(e) == e.bits # {}
Extent(o, n) == [offset |-> o, bytes |-> n, bits |-> {}]
End(e) == e.offset + e.bytes

\* Position in the tree: rb_prev, rb_next, rb_first.
Rank(e) == 2 * e.offset + (IF IsBitmap(e) THEN 1 ELSE 0)
Highest(S) == IF S = {} THEN NoEntry ELSE CHOOSE e \in S : \A f \in S : Rank(f) <= Rank(e)
Lowest(S) == IF S = {} THEN NoEntry ELSE CHOOSE e \in S : \A f \in S : Rank(e) <= Rank(f)
PrevOf(t, e) == Highest({f \in t : Rank(f) < Rank(e)})

\* tree_insert_offset: two entries of one kind may not share an offset.
tree_insert_offset(t, e) == \A f \in t : Rank(f) # Rank(e)

\* tree_search_offset(ctl, offset, 0, 0): the entry that covers the offset,
\* an extent before a bitmap.
Reaches(p, off) == p # NoEntry /\ ~IsBitmap(p) /\ End(p) > off
CoveredBefore(t, b, off) == Reaches(PrevOf(t, b), off)
Nearest(t, off) ==
    IF \E e \in t : e.offset = off THEN Lowest({e \in t : e.offset = off})
    ELSE Highest({f \in t : f.offset < off})
Holds(e, off) == \/ e.offset = off
                 \/ IsBitmap(e) /\ e.offset + BITS_PER_BITMAP > off
                 \/ ~IsBitmap(e) /\ End(e) > off
Covering(t, e, off) ==
    IF e = NoEntry THEN NoEntry
    ELSE IF IsBitmap(e) /\ CoveredBefore(t, e, off) THEN PrevOf(t, e)
    ELSE IF Holds(e, off) THEN e ELSE NoEntry
tree_search_offset(t, off) == Covering(t, Nearest(t, off), off)

\* try_merge_free_space and btrfs_add_free_space.  What the tree becomes; the
\* assertion on a second entry at the offset is BUG.
BUG == {NoEntry}
RightOf(t, o, n) == tree_search_offset(t, o + n)
LeftOf(t, o, r) ==
    IF r # NoEntry /\ PrevOf(t, r) # NoEntry THEN PrevOf(t, r) ELSE tree_search_offset(t, o - 1)
Adjacent(l, o) == l # NoEntry /\ ~IsBitmap(l) /\ End(l) = o
Extents(S) == {e \in S : e # NoEntry /\ ~IsBitmap(e)}
link_free_space(t, e) == IF tree_insert_offset(t, e) THEN t \cup {e} ELSE BUG
Joined(t, o, n, r, l) ==
    link_free_space(t \ (Extents({r}) \cup {e \in {l} : Adjacent(e, o)}),
                    Extent(IF Adjacent(l, o) THEN l.offset ELSE o,
                           n + (IF Extents({r}) # {} THEN r.bytes ELSE 0)
                             + (IF Adjacent(l, o) THEN l.bytes ELSE 0)))
MergeBoth(t, o, n, r) == Joined(t, o, n, r, LeftOf(t, o, r))
btrfs_add_free_space(t, o, n) == MergeBoth(t, o, n, RightOf(t, o, n))

\* search_bitmap: the first run of set bits at or after an offset.
RunAt(at, first) ==
    Extent(first, CHOOSE k \in 1 .. BITS_PER_BITMAP :
                     first .. (first + k - 1) \subseteq at /\ first + k \notin at)
FirstRun(at) == IF at = {} THEN NoEntry ELSE RunAt(at, CHOOSE u \in at : \A v \in at : u <= v)
search_bitmap(b, off) == FirstRun({u \in b.bits : u >= off /\ u >= b.offset})

\* merge_space_tree: bitmaps are replaced by the runs they hold, extents that
\* touch are joined, until neither is left.
RECURSIVE AddBitmap(_, _, _)
AddRun(t, b, off, run) ==
    IF t = BUG \/ run = NoEntry \/ off >= b.offset + BITS_PER_BITMAP THEN t
    ELSE AddBitmap(btrfs_add_free_space(t, run.offset, run.bytes), b, End(run))
AddBitmap(t, b, off) == AddRun(t, b, off, search_bitmap(b, off))
Touches(p, e) == ~IsBitmap(e) /\ p # NoEntry /\ ~IsBitmap(p) /\ End(p) = e.offset
RECURSIVE merge_space_tree(_)
JoinPrev(t, e, p) == (t \ {p, e}) \cup {Extent(p.offset, p.bytes + e.bytes)}
MergeAt(t, e) ==
    IF t = BUG \/ e = NoEntry THEN t
    ELSE merge_space_tree(IF IsBitmap(e) THEN AddBitmap(t \ {e}, e, e.offset)
                          ELSE JoinPrev(t, e, PrevOf(t, e)))
merge_space_tree(t) == MergeAt(t, Lowest({e \in t : IsBitmap(e) \/ Touches(PrevOf(t, e), e)}))

-----------------------------------------------------------------------------
(* The cache file *)

\* A file is [fault, at, entries, nbitmaps]: what is wrong with it, at which
\* entry or bitmap, the list of entries as written (bitmaps with their bits),
\* and the number of bitmaps in the header.
\* Faults: "none", "no_header", "no_inode", "inode_generation", "no_extents",
\* "crc", "generation", "entry_crc", "bitmap_crc".

\* Reading the file: its extents, the generation written in it, the checksum
\* of the page that holds an entry or a bitmap.
io_ctl_prepare_pages(file) == file.fault # "no_extents"
io_ctl_check_generation(file) == file.fault # "generation"
io_ctl_check_crc(file, page) == ~(file.fault = page[1] /\ file.at = page[2])
io_ctl_read_entry(file, i) == io_ctl_check_crc(file, <<"entry_crc", i>>)
io_ctl_read_bitmap(file, i) == io_ctl_check_crc(file, <<"bitmap_crc", i>>)

\* The entries are linked one by one; an entry of no bytes, a page whose
\* checksum is wrong and a second entry at an offset end the loading.
Nothing == [ret |-> 0, tree |-> {}]
RECURSIVE LinkEntries(_, _, _, _)
LinkEntry(t, file, i, e, num_bitmaps) ==
    IF ~io_ctl_read_entry(file, i) \/ e.bytes = 0 THEN Nothing
    ELSE IF IsBitmap(e) /\ num_bitmaps = 0 THEN [ret |-> 1, tree |-> BUG]
    ELSE IF ~tree_insert_offset(t, e) THEN Nothing
    ELSE LinkEntries(t \cup {e}, file, i + 1,
                     IF IsBitmap(e) THEN num_bitmaps - 1 ELSE num_bitmaps)
LinkEntries(t, file, i, num_bitmaps) ==
    IF i > Len(file.entries) THEN [ret |-> 1, tree |-> t]
    ELSE LinkEntry(t, file, i, file.entries[i], num_bitmaps)

\* load_free_space_cache and __load_free_space_cache: 1 and the tree, or 0.
ReadBitmaps(file, r) ==
    IF r.ret = 0 \/ r.tree = BUG THEN r
    ELSE IF \E i \in 1 .. Cardinality({e \in r.tree : IsBitmap(e)}) : ~io_ctl_read_bitmap(file, i)
    THEN Nothing
    ELSE [ret |-> 1, tree |-> merge_space_tree(r.tree)]
load_free_space_cache(file) ==
    IF \/ file.fault \in {"no_header", "no_inode", "inode_generation"}
       \/ file.entries = <<>>
       \/ ~io_ctl_prepare_pages(file)
       \/ ~io_ctl_check_crc(file, <<"crc", 0>>)
       \/ ~io_ctl_check_generation(file)
    THEN Nothing
    ELSE ReadBitmaps(file, LinkEntries({}, file, 1, file.nbitmaps))
=============================================================================

------------------------------ MODULE FsckSpace ------------------------------
(***************************************************************************)
(* btrfs check compares the free space caches and the checksum tree with   *)
(* the extent tree (cmds-check.c: check_space_cache, check_csums).         *)
(*                                                                         *)
(* Addresses are in units of the stripe length.  A world is                *)
(*   groups   - the block groups [start, len], a sequence                  *)
(*   supers   - for each group the stripes that hold copies of the super   *)
(*              block, one sequence per mirror, as btrfs_rmap_block gives  *)
(*   extents  - the extent tree in key order: [start, len, kind], kind one *)
(*              of "extent", "metadata", "group" and "ref" (keyed backref) *)
(*   files    - the cache file of each group                               *)
(*   current  - super generation = cache generation                        *)
(*   csums    - the checksum items [start, len] in order                   *)
(***************************************************************************)
EXTENDS FreeSpace, FiniteSetsExt

CONSTANTS Worlds,
          SUPER_INFO_OFFSET     \* where the first super block is

VARIABLES world, group, bad_groups, bad_runs, pc
vars == <<world, group, bad_groups, bad_runs, pc>>

\* The length verify_space_cache and the check of csums give an extent item.
ItemEnd(e) == IF e.kind = "metadata" THEN e.start + 1 ELSE e.start + e.len

-----------------------------------------------------------------------------
(* check_cache_range *)

\* The stripes in the order the loops visit them: mirror by mirror, the
\* addresses of one mirror from the last to the first.
RECURSIVE Stripes(_)
Stripes(supers) ==
    IF supers = <<>> THEN <<>>
    ELSE [i \in 1 .. Len(supers[1]) |-> supers[1][Len(supers[1]) + 1 - i]] \o Stripes(Tail(supers))

\* What is left of a range once a stripe of one unit is cut out of its left end.
CutLeft_Kept(o, n, s) == [o |-> s + 1, n |-> n]
CutLeft(o, n, s) == [o |-> s + 1, n |-> (o + n) - (s + 1)]

\* check_cache_range: the result 0 or -1 and the tree with the entries that
\* matched unlinked.
FindEntry(t, e, o, n) ==
    IF e # NoEntry /\ e.offset = o /\ e.bytes = n THEN [ret |-> 0, tree |-> t \ {e}]
    ELSE [ret |-> -1, tree |-> t]
RECURSIVE CacheRange(_, _, _, _, _)
BehindStripe(left, all, rest, cut) ==
    IF left.ret # 0 THEN left ELSE CacheRange(left.tree, all, rest, cut.o, cut.n)
CutStripe(t, all, s, rest, o, n) ==
    IF s + 1 <= o \/ o + n <= s THEN CacheRange(t, all, rest, o, n)
    ELSE IF s <= o
         THEN IF s + 1 >= o + n THEN [ret |-> 0, tree |-> t]
              ELSE CacheRange(t, all, rest, CutLeft(o, n, s).o, CutLeft(o, n, s).n)
    ELSE IF s + 1 >= o + n THEN CacheRange(t, all, rest, o, s - o)
    ELSE BehindStripe(CacheRange(t, all, all, o, s - o), all, rest, CutLeft(o, n, s))
CacheRange(t, all, todo, o, n) ==
    IF todo = <<>> THEN FindEntry(t, tree_search_offset(t, o), o, n)
    ELSE CutStripe(t, all, Head(todo), Tail(todo), o, n)
check_cache_range(t, supers, o, n) == CacheRange(t, Stripes(supers), Stripes(supers), o, n)

-----------------------------------------------------------------------------
(* verify_space_cache *)

\* The loop over the extent items of the group: every gap must be an entry.
RECURSIVE Gaps(_, _, _, _, _)
BehindGap(r, g, supers, items, last) ==
    IF r.ret # 0 THEN [ret |-> r.ret, tree |-> r.tree, last |-> last]
    ELSE Gaps(r.tree, g, supers, Tail(items), ItemEnd(Head(items)))
Gaps(t, g, supers, items, last) ==
    IF items = <<>> \/ Head(items).start >= g.start + g.len THEN [ret |-> 0, tree |-> t, last |-> last]
    ELSE IF Head(items).kind \notin {"extent", "metadata"} THEN Gaps(t, g, supers, Tail(items), last)
    ELSE IF last = Head(items).start THEN Gaps(t, g, supers, Tail(items), ItemEnd(Head(items)))
    ELSE BehindGap(check_cache_range(t, supers, last, Head(items).start - last), g, supers, items, last)

\* What follows the loop: the space behind the last item, whose result takes
\* the place of the loop's, and the entries nothing asked for.
Leftover_Ignored(ret, t) == ret
Leftover(ret, t) == IF ret = 0 /\ t # {} THEN -1 ELSE ret
FirstUnit(g) == IF g.start > SUPER_INFO_OFFSET THEN g.start ELSE SUPER_INFO_OFFSET
TailOf(loop, g, supers) ==
    IF loop.last < g.start + g.len
    THEN check_cache_range(loop.tree, supers, loop.last, g.start + g.len - loop.last)
    ELSE [ret |-> loop.ret, tree |-> loop.tree]
Verdict(tail) == Leftover(tail.ret, tail.tree)
verify_space_cache(t, g, supers, extents) ==
    Verdict(TailOf(Gaps(t, g, supers, SelectSeq(extents, LAMBDA e : e.start >= FirstUnit(g)),
                        FirstUnit(g)), g, supers))

-----------------------------------------------------------------------------
(* check_csums *)

\* Where the search for (bytenr, EXTENT_ITEM, 0) leaves the path: one item
\* back, and one more when that is a block group.
StepBack(items, slot) == IF slot > 1 /\ items[slot].kind = "group" THEN slot - 1 ELSE slot
StartSlot(items, bytenr) ==
    StepBack(items, Max({1, Cardinality({i \in DOMAIN items : items[i].start < bytenr})}))

\* check_extent_exists: walk the extent items from the one before the range on
\* and cut off what they cover.  TRUE when nothing is left.
RECURSIVE Covered(_, _, _, _)
CutOff(all, e, rest, bytenr, n) ==
    IF e.kind # "extent" \/ ItemEnd(e) < bytenr THEN Covered(all, rest, bytenr, n)
    ELSE IF e.start > bytenr + n THEN FALSE
    ELSE IF e.start <= bytenr
         THEN \/ ItemEnd(e) >= bytenr + n
              \/ Covered(all, rest, ItemEnd(e), (bytenr + n) - ItemEnd(e))
    ELSE IF ItemEnd(e) < bytenr + n
         THEN /\ Covered(all, SubSeq(all, StartSlot(all, ItemEnd(e)), Len(all)),
                         ItemEnd(e), bytenr + n - ItemEnd(e))
              /\ Covered(all, <<e>> \o rest, bytenr, e.start - bytenr)
    ELSE Covered(all, rest, bytenr, e.start - bytenr)
Covered(all, items, bytenr, n) ==
    n = 0 \/ (items # <<>> /\ CutOff(all, Head(items), Tail(items), bytenr, n))

check_extent_exists(items, bytenr, n) ==
    Covered(items, SubSeq(items, StartSlot(items, bytenr), Len(items)), bytenr, n)

\* check_csums joins the items that touch and checks a run when the next one
\* does not; the runs that have no extents.
Closes(run, c) == run.len # 0 /\ c.start # run.start + run.len
Longer(run, c) ==
    IF run.len = 0 \/ Closes(run, c) THEN c ELSE [run EXCEPT !.len = @ + c.len]
RECURSIVE Runs(_, _, _, _)
Runs(items, csums, run, bad) ==
    IF csums = <<>> THEN bad
    ELSE Runs(items, Tail(csums), Longer(run, Head(csums)),
              IF Closes(run, Head(csums)) /\ ~check_extent_exists(items, run.start, run.len)
              THEN bad \cup {run} ELSE bad)
check_csums(w) == Runs(w.extents, w.csums, [start |-> 0, len |-> 0], {})

-----------------------------------------------------------------------------
Init ==
    /\ world \in Worlds
    /\ group = 1 /\ bad_groups = {} /\ bad_runs = {} /\ pc = "space"

\* check_space_cache: nothing is compared when the caches are out of date.
check_space_cache ==
    /\ pc = "space"
    /\ IF ~world.current \/ group > Len(world.groups)
       THEN pc' = "csums" /\ UNCHANGED <<group, bad_groups>>
       ELSE /\ \E r \in {load_free_space_cache(world.files[group])} :
                 /\ pc' = IF r.tree = BUG THEN "bug" ELSE "space"
                 /\ bad_groups' = IF r.ret = 1 /\ r.tree # BUG
                                     /\ verify_space_cache(r.tree, world.groups[group],
                                            world.supers[group], world.extents) # 0
                                  THEN bad_groups \cup {group} ELSE bad_groups
            /\ group' = group + 1
    /\ UNCHANGED <<world, bad_runs>>

CheckCsums ==
    /\ pc = "csums"
    /\ bad_runs' = check_csums(world)
    /\ pc' = "done"
    /\ UNCHANGED <<world, group, bad_groups>>

Next == check_space_cache \/ CheckCsums
Spec == Init /\ [][Next]_vars

-----------------------------------------------------------------------------
(* Properties *)

\* The free units of a group, from the extent tree alone.
Units(e) == e.start .. ItemEnd(e) - 1
Used == UNION {Units(world.extents[i]) : i \in
            {j \in 1 .. Len(world.extents) : world.extents[j].kind \in {"extent", "metadata"}}}
SuperUnits(g) == UNION {{world.supers[g][m][i] : i \in DOMAIN world.supers[g][m]} : m \in DOMAIN world.supers[g]}
FreeUnits(g) == (FirstUnit(world.groups[g]) .. world.groups[g].start + world.groups[g].len - 1)
                    \ (Used \cup SuperUnits(g))

\* The free units a cache file lists, and how often each is listed.
EntryUnits(e) == IF IsBitmap(e) THEN e.bits \ {-1} ELSE e.offset .. End(e) - 1
Listed(g) == UNION {EntryUnits(world.files[g].entries[i]) : i \in DOMAIN world.files[g].entries}
ListedTwice(g) == \E i, j \in DOMAIN world.files[g].entries :
                     i < j /\ EntryUnits(world.files[g].entries[i]) \cap EntryUnits(world.files[g].entries[j]) # {}

\* The loop gave up and the check of the tail found an entry that runs from the
\* first gap to the end of the group, over the extents between: the loop's
\* error is lost.
Swallows(g) ==
    \E u \in FreeUnits(g) : /\ (u .. world.groups[g].start + world.groups[g].len - 1) \ SuperUnits(g) \subseteq Listed(g)
                            /\ (u .. world.groups[g].start + world.groups[g].len - 1) \cap Used # {}

\* A cache that loads is accepted exactly when it lists the free space the
\* extent tree leaves, super block stripes cut out, whether it is written as
\* extents or as bitmaps and in whatever pieces.  The one exception is Swallows.
CacheVerdictIsRight ==
    pc = "csums" /\ world.current =>
       \A g \in DOMAIN world.groups :
          \/ load_free_space_cache(world.files[g]).ret = 0
          \/ ListedTwice(g)
          \/ Swallows(g)
          \/ (g \in bad_groups) = (Listed(g) # FreeUnits(g))

\* Loading turns the file into maximal extents of what it lists, and meets no
\* assertion unless the header counts fewer bitmaps than the file has.
CountedBitmaps(f) == Cardinality({i \in DOMAIN f.entries : IsBitmap(f.entries[i])}) <= f.nbitmaps
LoadedExactly(g, r) ==
    r.ret = 1 /\ ~ListedTwice(g) /\ CountedBitmaps(world.files[g]) =>
       /\ \A e \in r.tree : ~IsBitmap(e)
       /\ UNION {EntryUnits(e) : e \in r.tree} = Listed(g)
       /\ \A e \in r.tree : End(e) \notin Listed(g) /\ e.offset - 1 \notin Listed(g)
LoadIsExact ==
    \A g \in DOMAIN world.groups : LoadedExactly(g, load_free_space_cache(world.files[g]))

\* Every run of checksums but the last is reported when some unit of it has no
\* extent, and no run is reported whose units all have one.  The walk starts
\* one item back, so a keyed backref there hides the extent before it.
CsumUnits(r) == r.start .. r.start + r.len - 1
DataUnits == UNION {Units(world.extents[i]) : i \in
                {j \in 1 .. Len(world.extents) : world.extents[j].kind = "extent"}}
RunsOf == LET U == UNION {CsumUnits(world.csums[i]) : i \in DOMAIN world.csums} IN
          {<<a, b>> \in U \X U : a <= b /\ a .. b \subseteq U /\ a - 1 \notin U /\ b + 1 \notin U}
LastRun == CHOOSE r \in RunsOf : \A q \in RunsOf : q[1] <= r[1]
HiddenBefore(a) == LET before == SelectSeq(world.extents, LAMBDA e : e.start < a /\ e.kind # "group") IN
                   before # <<>> /\ before[Len(before)].kind # "extent"
CsumVerdictIsRight ==
    pc = "done" /\ world.csums # <<>> =>
       \A r \in RunsOf \ {LastRun} :
          LET reported == [start |-> r[1], len |-> r[2] - r[1] + 1] \in bad_runs
              uncovered == ~(r[1] .. r[2] \subseteq DataUnits)
          IN  (uncovered => reported) /\ (reported => uncovered \/ HiddenBefore(r[1]))

-----------------------------------------------------------------------------
\* The instance TLC checks: block groups with extent items, super block
\* stripes, and cache files that write the free units as extents or bitmaps,
\* exactly or with a slip; checksum items that do or do not lie in extents.

B == 8      \* end of the first group
It(s, n, k) == [start |-> s, len |-> n, kind |-> k]
Grp(s, n) == [start |-> s, len |-> n]
SupersOf == {<< <<1>>, <<5>>, <<>> >>, << <<1>>, <<4, 6>>, <<>> >>, << <<>>, <<6>>, <<3>> >>}
ExtSets == {<<>>, <<It(2, 1, "metadata")>>, <<It(2, 2, "extent")>>, <<It(3, 1, "extent"), It(7, 1, "metadata")>>,
            <<It(2, 1, "extent"), It(3, 1, "metadata"), It(7, 1, "extent")>>,
            <<It(1, 1, "extent"), It(2, 1, "extent")>>, <<It(2, 2, "extent"), It(2, 0, "ref"), It(7, 1, "extent")>>}
FreeOf(ext, sup) ==
    (1 .. B - 1) \ (UNION {ext[i].start .. (IF ext[i].kind = "metadata" THEN ext[i].start ELSE ext[i].start + ext[i].len - 1) : i \in DOMAIN ext}
                   \cup UNION {{sup[m][i] : i \in DOMAIN sup[m]} : m \in DOMAIN sup})
RunsIn(U) == {<<a, b>> \in U \X U : a <= b /\ a .. b \subseteq U /\ a - 1 \notin U /\ b + 1 \notin U}
RECURSIVE SeqOf(_)
SeqOf(S) == IF S = {} THEN <<>> ELSE LET x == CHOOSE x \in S : TRUE IN <<x>> \o SeqOf(S \ {x})
Exts(U) == {Extent(r[1], r[2] - r[1] + 1) : r \in RunsIn(U)}
Bm(o, U) == [offset |-> o, bytes |-> 1 + Cardinality(U), bits |-> U \cup {-1}]
\* The ways a file may write a set of units: extents, bitmaps from a unit on, split extents.
Writings(U) ==
    {SeqOf(Exts(U)), SeqOf({Extent(u, 1) : u \in U}), SeqOf({Bm(0, U \cap 0 .. 3), Bm(4, U \cap 4 .. 7)}),
     SeqOf(Exts({u \in U : u < 3}) \cup {Bm(0, U \cap 3 .. 3), Bm(4, U \cap 4 .. 7)}),
     SeqOf(Exts({u \in U : u >= 3}) \cup {Bm(0, U \cap 0 .. 2)})}
Slips(U) == {U} \cup {U \ {u} : u \in U} \cup {U \cup {u} : u \in 1 .. 7}
              \cup {U \cup {u, v} : u, v \in 1 .. 7}
File(es) == [fault |-> "none", at |-> 0, entries |-> es, nbitmaps |-> 2]
Faulty(es) == {[fault |-> f, at |-> IF f = "crc" THEN 0 ELSE 1, entries |-> es, nbitmaps |-> 2] :
                 f \in {"no_header", "no_inode", "inode_generation", "no_extents", "crc", "generation", "entry_crc", "bitmap_crc"}}
World(ext, sup, file, cur, cs) ==
    [groups |-> <<Grp(0, B)>>, supers |-> <<sup>>, extents |-> ext, files |-> <<file>>, current |-> cur, csums |-> cs]
SpaceWorlds ==
    UNION {{World(ext, sup, File(w), TRUE, <<>>) : w \in UNION {Writings(V) : V \in Slips(FreeOf(ext, sup))}} :
             ext \in ExtSets, sup \in SupersOf}
    \cup {World(ext, << <<1>>, <<5>>, <<>> >>, f, cur, <<>>) :
             ext \in {<<It(2, 1, "metadata")>>}, f \in Faulty(<<Extent(3, 2), Bm(4, {6, 7})>>) \cup
                {File(<<Extent(3, 2), Extent(6, 2), Extent(6, 1)>>), File(<<Extent(3, 2), Extent(6, 0)>>),
                 [File(<<Extent(3, 2), Bm(4, {6, 7})>>) EXCEPT !.nbitmaps = 0],
                 File(<<Bm(0, {3}), Bm(4, {6, 7})>>), File(<<Extent(3, 2), Extent(3, 1)>>)}, cur \in BOOLEAN}
Cs(s, n) == [start |-> s, len |-> n]
CsumLists == {cs \in {<<Cs(a, n), Cs(b, m), Cs(c, 1)>> :
                        a \in {0, 2}, n \in 1 .. 3, b \in {3, 4, 5, 6}, m \in 1 .. 2, c \in {8, 9}} :
                cs[1].start + cs[1].len <= cs[2].start}
CsumExts == {<<It(0, 6, "extent"), It(6, 2, "extent"), It(8, 8, "group")>>, <<It(0, 1, "extent"), It(2, 1, "extent"), It(2, 0, "ref"), It(5, 1, "extent")>>,
             <<It(0, 3, "extent"), It(0, 0, "ref"), It(3, 2, "extent"), It(4, 8, "group"), It(6, 1, "metadata"), It(7, 2, "extent")>>,
             <<It(2, 1, "extent"), It(5, 3, "extent")>>, <<It(1, 8, "group"), It(1, 4, "extent"), It(6, 2, "extent")>>, <<It(7, 1, "metadata")>>}
CsumWorlds == {World(ext, << <<>>, <<>>, <<>> >>, File(<<>>), FALSE, cs) : ext \in CsumExts, cs \in CsumLists}
MCWorlds == SpaceWorlds \cup CsumWorlds
=============================================================================

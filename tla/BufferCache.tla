---------------------------- MODULE BufferCache ----------------------------
(***************************************************************************)
(* The cache of tree blocks (extent_io.c) and how read_tree_block fills it *)
(* (disk-io.c): reference counts, the list in order of use and its limits, *)
(* the choice among the copies of a block, and the list of blocks that     *)
(* were accepted with a wrong generation.  All blocks have one size, so    *)
(* that cache_size is the length of the list, and no two overlap.          *)
(*                                                                         *)
(* A copy on a device is [gen, ok, readable]: the generation in its header,*)
(* whether check_tree_block and the checksum accept it, and whether it can *)
(* be read.  A buffer has the gen and ok of what was last read into it.    *)
(***************************************************************************)
EXTENDS Integers, FiniteSets, SequencesExt

CONSTANTS
    Worlds,     \* file systems: disk, any, want, transid, scans
    SoftMax,    \* cache_soft_max, in blocks
    HardMax,    \* cache_hard_max, in blocks
    ScanMax,    \* 64: entries looked at when the cache is between the two
    MaxHeld,    \* bound on the references a caller holds to a block
    MaxTrans    \* bound on the generation

VARIABLES
    world,      \* the file system in the beginning; does not change
    disk,       \* block -> sequence of its copies
    want,       \* block -> generation in the pointer to it, 0 for a free block
    bufs,       \* extent_cache.cache: block -> buffer, for the cached ones
    lru,        \* extent_cache.lru
    held,       \* block -> references held by callers
    pinned,     \* blocks freed in the running transaction
    transid,    \* generation of the running transaction
    last,       \* history: the last read_tree_block
    hang        \* free_some_buffers goes round for ever

vars == <<world, disk, want, bufs, lru, held, pinned, transid, last, hang>>
Blocks == DOMAIN disk
NoBuffer == [refs |-> 2, uptodate |-> FALSE, dirty |-> FALSE, bad |-> FALSE, recow |-> FALSE, gen |-> 0, ok |-> FALSE]
NoRead == [block |-> 0, transid |-> 0, fresh |-> FALSE, found |-> FALSE, gen |-> 0]

-----------------------------------------------------------------------------
(* The cache.  A state of it is [bufs, lru, hang]. *)

Cache == [bufs |-> bufs, lru |-> lru, hang |-> FALSE]
Put(c, b, eb) == [c EXCEPT !.bufs = [x \in DOMAIN c.bufs \cup {b} |-> IF x = b THEN eb ELSE c.bufs[x]]]
MoveTail(l, b) == Append(SelectSeq(l, LAMBDA x : x # b), b)

\* The last reference goes with the entry in the cache.
free_extent_buffer(c, b) ==
    IF c.bufs[b].refs > 1 THEN Put(c, b, [c.bufs[b] EXCEPT !.refs = @ - 1])
    ELSE [c EXCEPT !.bufs = [x \in DOMAIN c.bufs \ {b} |-> c.bufs[x]],
                   !.lru = SelectSeq(@, LAMBDA x : x # b)]

\* A buffer that nobody holds is freed, another goes to the end of the list.
\* Entries are met in the order of the list, which the moves turn into a ring:
\* it is left early or when the entry is the last one.  A scan that has come
\* round twice does not end.
BelowHard(c) == Len(c.lru) < HardMax
Enough(c, nrscan) == nrscan > ScanMax /\ BelowHard(c)
RECURSIVE Scan(_, _)
Scan(c, nrscan) ==
    IF c.lru = <<>> THEN c
    ELSE LET b == Head(c.lru)
             free == c.bufs[b].refs = 1
             n == IF free THEN free_extent_buffer(c, b)
                  ELSE [c EXCEPT !.lru = MoveTail(@, b)]
         IN  IF \/ free /\ BelowHard(n)
                \/ Enough(n, nrscan)
                \/ Len(c.lru) = 1
             THEN n
             ELSE IF nrscan > ScanMax + 2 * Len(lru) THEN [n EXCEPT !.hang = TRUE]
             ELSE Scan(n, nrscan + 1)
free_some_buffers(c) == IF Len(c.lru) < SoftMax THEN c ELSE Scan(c, 0)

\* find_extent_buffer finds a cached block, alloc_extent_buffer adds it.
find_extent_buffer(c, b) == [Put(c, b, [c.bufs[b] EXCEPT !.refs = @ + 1]) EXCEPT !.lru = MoveTail(@, b)]
alloc_extent_buffer(c, b) ==
    IF b \in DOMAIN c.bufs THEN find_extent_buffer(c, b)
    ELSE LET n == free_some_buffers(c)
         IN  IF n.hang THEN n ELSE [Put(n, b, NoBuffer) EXCEPT !.lru = Append(@, b)]

\* The dirty flag holds a reference.
set_extent_buffer_dirty(eb) == IF eb.dirty THEN eb ELSE [eb EXCEPT !.dirty = TRUE, !.refs = @ + 1]
clear_extent_buffer_dirty(eb) == IF eb.dirty THEN [eb EXCEPT !.dirty = FALSE, !.refs = @ - 1] ELSE eb

-----------------------------------------------------------------------------
(* Reading a block *)

\* read_whole_eb: mirror 0 is the copy __btrfs_map_block chooses itself.  A copy
\* that cannot be read leaves in the buffer what was there.
CopyOf(b, mirror) == disk[b][IF mirror = 0 THEN world.any[b] ELSE mirror]
read_whole_eb(eb, b, mirror) ==
    LET c == CopyOf(b, mirror) IN
    IF c.readable THEN [eb EXCEPT !.gen = c.gen, !.ok = c.ok] ELSE eb

\* Mutant: an older block passes for the one that is wanted.
TransidMatches_Older(eb, parent_transid) == parent_transid = 0 \/ eb.gen <= parent_transid
TransidMatches(eb, parent_transid) == parent_transid = 0 \/ eb.gen = parent_transid
\* A buffer that is up to date is taken whatever its generation is; a wrong one
\* is only noted (verify_parent_transid with ignore).
Noted(eb, parent_transid) == [eb EXCEPT !.bad = @ \/ ~TransidMatches(eb, parent_transid)]

\* A block that was taken with a wrong generation is put on recow_ebs.
Accepted(eb) ==
    [eb EXCEPT !.uptodate = TRUE, !.recow = @ \/ eb.bad,
               !.refs = IF eb.bad /\ ~eb.recow THEN @ + 1 ELSE @]

\* The loop of read_tree_block over the copies.  When none is right the copy
\* with the highest generation is read once more and taken if it is sound.
AllTried(mirror, num_copies) == mirror > num_copies
IsSound(eb, readable, ignore) == readable /\ eb.ok
IsBetter(eb, best_transid) == eb.gen > best_transid
RECURSIVE Try(_, _, _, _, _, _, _)
Try(eb, b, parent_transid, mirror, ignore, best_transid, good_mirror) ==
    LET r == read_whole_eb(eb, b, mirror)
        sound == IsSound(r, CopyOf(b, mirror).readable, ignore)
        num_copies == Len(disk[b])
        better == IsBetter(r, best_transid)
        best == IF better THEN r.gen ELSE best_transid
        good == IF better THEN mirror ELSE good_mirror
    IN  IF sound /\ (ignore \/ TransidMatches(r, parent_transid))
        THEN [found |-> TRUE, eb |-> Accepted(Noted(r, parent_transid))]
        ELSE IF ignore THEN [found |-> FALSE, eb |-> r]
        ELSE IF num_copies = 1 THEN Try(r, b, parent_transid, mirror, TRUE, best_transid, good_mirror)
        ELSE IF AllTried(mirror + 1, num_copies) THEN Try(r, b, parent_transid, good, TRUE, best, good)
        ELSE Try(r, b, parent_transid, mirror + 1, FALSE, best, good)

\* read_tree_block: the cache and the result.
read_tree_block(b, parent_transid) ==
    LET c == alloc_extent_buffer(Cache, b)
        res(found, fresh, gen) ==
            [block |-> b, transid |-> parent_transid, fresh |-> fresh, found |-> found, gen |-> gen]
    IN  IF c.hang THEN [c |-> c, last |-> last]
        ELSE IF c.bufs[b].uptodate
        THEN [c |-> Put(c, b, Noted(c.bufs[b], parent_transid)), last |-> res(TRUE, FALSE, c.bufs[b].gen)]
        ELSE LET r == Try(c.bufs[b], b, parent_transid, 0, FALSE, 0, 0)
                 n == Put(c, b, r.eb)
             IN  [c |-> IF r.found THEN n ELSE free_extent_buffer(n, b), last |-> res(r.found, TRUE, r.eb.gen)]

-----------------------------------------------------------------------------
(* What callers do *)

SetCache(c) == bufs' = c.bufs /\ lru' = c.lru /\ hang' = c.hang

\* A pointer is followed, or a block is read by its address alone, as the scan of
\* btrfs check does.
Read(b, t) ==
    /\ ~hang /\ want[b] # 0 /\ b \notin pinned /\ held[b] < MaxHeld
    /\ \E r \in {read_tree_block(b, t)} :
          /\ SetCache(r.c) /\ last' = r.last
          /\ held' = IF r.last.found /\ ~r.c.hang THEN [held EXCEPT ![b] = @ + 1] ELSE held
    /\ UNCHANGED <<world, disk, want, pinned, transid>>
ReadPointer(b) == Read(b, want[b])
ReadAddress(b) == world.scans /\ Read(b, 0)

Release(b) ==
    /\ ~hang /\ held[b] > 0
    /\ held' = [held EXCEPT ![b] = @ - 1]
    /\ SetCache(free_extent_buffer(Cache, b))
    /\ last' = NoRead /\ UNCHANGED <<world, disk, want, pinned, transid>>

\* __btrfs_cow_block: the copy n of a held block b is made in the buffer of a
\* free block (btrfs_alloc_free_block), the original leaves recow_ebs and its
\* reference in the path passes to the copy.
Cow(b, n) ==
    /\ ~hang /\ held[b] > 0 /\ want[b] \in 1 .. transid - 1 /\ b \notin pinned /\ want[n] = 0 /\ held[n] = 0
    /\ \E c \in {alloc_extent_buffer(Cache, n)} :
          IF c.hang THEN SetCache(c) /\ UNCHANGED <<want, held, pinned>>
          ELSE LET new == [set_extent_buffer_dirty(c.bufs[n]) EXCEPT !.uptodate = TRUE, !.gen = transid, !.ok = TRUE]
                   d == Put(c, n, new)
                   old == d.bufs[b]
                   e == IF old.recow THEN free_extent_buffer(Put(d, b, [old EXCEPT !.recow = FALSE]), b) ELSE d
               IN  /\ SetCache(free_extent_buffer(e, b)) /\ held' = [held EXCEPT ![n] = 1, ![b] = @ - 1]
                   /\ want' = [want EXCEPT ![n] = transid] /\ pinned' = pinned \cup {b}
    /\ last' = NoRead /\ UNCHANGED <<world, disk, transid>>

\* clean_tree_block: a block of this transaction is freed again.
Clean(b) ==
    /\ ~hang /\ held[b] = 1 /\ want[b] = transid /\ bufs[b].dirty
    /\ SetCache(free_extent_buffer(Put(Cache, b, clear_extent_buffer_dirty(bufs[b])), b))
    /\ held' = [held EXCEPT ![b] = 0] /\ want' = [want EXCEPT ![b] = 0]
    /\ last' = NoRead /\ UNCHANGED <<world, disk, pinned, transid>>

\* __commit_transaction writes every dirty buffer to all copies, in the order of
\* their addresses (find_first_extent_buffer moves each to the end of the list).
Dirty == {b \in DOMAIN bufs : bufs[b].dirty}
Commit ==
    /\ ~hang /\ Dirty # {} /\ transid < MaxTrans /\ transid' = transid + 1
    /\ disk' = [b \in Blocks |-> IF b \in Dirty
                   THEN [i \in DOMAIN disk[b] |-> [gen |-> bufs[b].gen, ok |-> TRUE, readable |-> disk[b][i].readable]]
                   ELSE disk[b]]
    /\ bufs' = [b \in DOMAIN bufs |-> clear_extent_buffer_dirty(bufs[b])]
    /\ lru' = SelectSeq(lru, LAMBDA b : b \notin Dirty) \o SetToSortSeq(Dirty, <)
    /\ want' = [b \in Blocks |-> IF b \in pinned THEN 0 ELSE want[b]] /\ pinned' = {}
    /\ last' = NoRead /\ UNCHANGED <<world, held, hang>>

Init ==
    /\ world \in Worlds /\ disk = world.disk /\ want = world.want /\ transid = world.transid
    /\ bufs = <<>> /\ lru = <<>> /\ held = [b \in DOMAIN world.disk |-> 0] /\ pinned = {}
    /\ last = NoRead /\ hang = FALSE

Next ==
    \/ \E b \in Blocks : ReadPointer(b) \/ ReadAddress(b) \/ Release(b) \/ Clean(b)
    \/ \E b, n \in Blocks : Cow(b, n)
    \/ Commit
Spec == Init /\ [][Next]_vars

-----------------------------------------------------------------------------
(* Properties *)

Held(p) == IF p THEN 1 ELSE 0
\* The references of a buffer are those of the cache, of its callers, of the
\* dirty flag and of recow_ebs; a buffer somebody holds stays in the cache.
RefsAccounted ==
    ~hang => /\ DOMAIN bufs = {lru[i] : i \in DOMAIN lru} /\ Cardinality(DOMAIN bufs) = Len(lru)
             /\ \A b \in Blocks : IF b \in DOMAIN bufs
                    THEN bufs[b].refs = 1 + held[b] + Held(bufs[b].dirty) + Held(bufs[b].recow)
                    ELSE held[b] = 0

\* What callers see passed the checks or was made by them, whatever copies were
\* read into the buffer before, and a block that waits to be written is the one
\* the pointers name.
UptodateIsSound ==
    \A b \in DOMAIN bufs :
        /\ bufs[b].uptodate => bufs[b].ok
        /\ held[b] > 0 => bufs[b].uptodate
        /\ bufs[b].dirty => bufs[b].uptodate /\ bufs[b].gen = want[b]

Sound(b) == {c \in {disk[b][i] : i \in DOMAIN disk[b]} : c.readable /\ c.ok}
\* A copy that is sound and has the generation of the pointer is found wherever
\* it is.  A block that was read by its address before may be cached with
\* another copy.
WantedIsFound ==
    LET b == last.block IN
    b # 0 /\ last.transid # 0 /\ (last.fresh \/ ~world.scans) /\ (\E c \in Sound(b) : c.gen = last.transid)
    => last.found /\ last.gen = last.transid

\* A block is given up only when no copy is sound or one that is not claims to be
\* at least as new.
GivenUpForAReason ==
    LET b == last.block IN
    b # 0 /\ ~last.found =>
        \A c \in Sound(b) : \E i \in DOMAIN disk[b] : disk[b][i] \notin Sound(b) /\ disk[b][i].gen >= c.gen

\* The cache never grows beyond the hard limit.
CacheBounded == Len(lru) <= HardMax

\* free_some_buffers comes to an end unless callers and dirty blocks hold the
\* whole of a full cache.
ScanEnds == hang => Len(lru) >= HardMax /\ \A b \in DOMAIN bufs : bufs[b].refs > 1

-----------------------------------------------------------------------------
\* The instance TLC checks: two blocks of the trees, of which the copies of one
\* may be wrong, and a free block with what is left of an old tree; in one file
\* system a third block, so that the cache can be full of blocks in use.

Copy(g, o, r) == [gen |-> g, ok |-> o, readable |-> r]
\* Generation 3 is wanted.
Good == Copy(3, TRUE, TRUE)
Old == Copy(2, TRUE, TRUE)
Torn == Copy(4, FALSE, TRUE)
Stale == Copy(1, FALSE, TRUE)
Lost == Copy(3, TRUE, FALSE)
Pairs == {<<Good, Good>>, <<Old, Good>>, <<Torn, Good>>, <<Lost, Good>>, <<Old, Old>>, <<Old, Torn>>,
          <<Torn, Old>>, <<Lost, Old>>, <<Torn, Lost>>, <<Lost, Lost>>, <<Stale, Old>>, <<Old>>, <<Good>>, <<Torn>>}
World(a, mirror, scans) ==
    [disk |-> <<a, <<Good, Good>>, <<Old, Old>>>>, any |-> <<mirror, 1, 1>>,
     want |-> <<3, 3, 0>>, transid |-> 4, scans |-> scans]
Four == [disk |-> <<<<Old, Old>>, <<Good>>, <<Old>>, <<Good>>>>, any |-> <<1, 1, 1, 1>>,
         want |-> <<3, 3, 0, 3>>, transid |-> 4, scans |-> FALSE]
MCWorlds == {World(a, 1, FALSE) : a \in Pairs} \cup {World(<<Old, Good>>, 1, TRUE), World(<<Old, Good>>, 2, TRUE)}
            \cup {World(<<Torn, Old>>, 2, FALSE), Four}
=============================================================================

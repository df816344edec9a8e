------------------------------- MODULE Convert -------------------------------
(***************************************************************************)
(* btrfs-convert: an ext2 file system is turned into a btrfs in place, and *)
(* back (btrfs-convert.c).  The conversion writes only to blocks that ext2 *)
(* does not use, keeps every used block in the file ext2_saved/image, moves*)
(* what lies where btrfs wants its super blocks and its system chunk, and  *)
(* then writes the super block.  The rollback copies the moved blocks back.*)
(*                                                                         *)
(* The device is an array of sectors; an ext2 block is one sector.  The    *)
(* content of a sector is its own number as long as it holds what ext2 had *)
(* there.  A file extent is [pos, disk, num], disk = 0 for a hole.  Of the *)
(* btrfs metadata two blocks are told apart: the chunk tree, which has to  *)
(* leave and enter the system block group, and all the other trees.        *)
(***************************************************************************)
EXTENDS Integers, Sequences, FiniteSets

CONSTANTS
    Worlds,      \* ext2 file systems and what happens to them (see MCWorlds)
    Sectors,     \* sectors of the device
    SbOffset,    \* sectors of the super block and its mirrors (btrfs_sb_offset)
    STRIPE_LEN,  \* sectors kept free around each of them
    Groups       \* block groups: [start, end, sys]

VARIABLES
    world,   \* [used, files, packing, fsync_fails, zero_fails]; a file is
             \* [blocks, small]: its blocks in order (0: hole), whether it fits inline
    disk,    \* content of every sector
    fs,      \* the btrfs: [free, pinned, tree, chunk, super, files, image, inline,
             \* changed, balanced]
    move,    \* relocation: [ranges, pass, cur, found, reloc]
    back,    \* rollback: the moved extents still to copy, and sb_bytenr
    crashes, \* rollbacks interrupted so far
    pc

vars == <<world, disk, fs, move, back, crashes, pc>>

TREE == -1
SUPER == -2
ZERO == -3
USER == -4
UNUSED == -5
SB == SbOffset[1]
first_free == SB + 1
Disk == 0 .. Sectors - 1
Span(e) == e.disk .. e.disk + e.num - 1
Lowest(S) == CHOOSE x \in S : \A y \in S : x <= y
GroupOf(b) == CHOOSE g \in Groups : g.start <= b /\ b < g.end
IsSys(b) == GroupOf(b).sys

intersect_with_sb(b, n) ==
    \E i \in DOMAIN SbOffset : b < SbOffset[i] + STRIPE_LEN /\ b + n > SbOffset[i]

-----------------------------------------------------------------------------
(* Space *)

\* cache_free_extents: the bitmap still has the first blocks of the btrfs.
cache_free_extents(taken) ==
    {b \in Disk : b \notin taken /\ ~intersect_with_sb(b, 1) /\ b >= SB}

\* custom_alloc_extent for one sector: 0 when there is none.
Allocatable(s, b) == b \in s.free \ s.pinned /\ ~IsSys(b)
custom_alloc_extent(s) ==
    LET ok == {b \in s.free : Allocatable(s, b)} IN IF ok = {} THEN 0 ELSE Lowest(ok)

\* The end of __free_extent with custom_free_extent: what was below a super
\* block is not to be used again, the rest waits for the commit.
custom_free_extent(b, n) == intersect_with_sb(b, n)
Dropped(s, e) ==
    IF custom_free_extent(e.disk, e.num) THEN s ELSE [s EXCEPT !.pinned = @ \cup Span(e)]

\* A commit rewrites the changed tree blocks elsewhere and releases what is
\* pinned (btrfs_finish_extent_commit).
Block(b) == [disk |-> b, num |-> 1]
CowTree(s) == LET b == custom_alloc_extent(s) IN
              Dropped([s EXCEPT !.tree = b, !.free = @ \ {b}], Block(s.tree))
Commit(s) == [s EXCEPT !.free = @ \cup s.pinned, !.pinned = {}]

-----------------------------------------------------------------------------
(* File extents *)

\* block_iterate_proc: d = [first, disk, num, boundary, out].
Recorded(d) == IF d.num > 0 THEN d.out \cup {[pos |-> d.first, disk |-> d.disk, num |-> d.num]}
               ELSE d.out
After(d) == d.first + d.num
HoleTo(d, p) == IF p > After(d)
                THEN Recorded(d) \cup {[pos |-> After(d), disk |-> 0, num |-> p - After(d)]}
                ELSE Recorded(d)
RoundUp(b) == ((b + STRIPE_LEN - 1) \div STRIPE_LEN) * STRIPE_LEN
Barrier(d, b) == intersect_with_sb(b, 1) \/ b >= d.boundary
Breaks(d, b, p) == (d.num > 0 /\ Barrier(d, b)) \/ p > After(d) \/ b # d.disk + d.num
block_iterate_proc(d, b, p) ==
    IF Breaks(d, b, p)
    THEN [first |-> p, disk |-> b, num |-> 1, out |-> HoleTo(d, p),
          boundary |-> IF intersect_with_sb(b, 1) THEN RoundUp(b) ELSE GroupOf(b).end]
    ELSE [d EXCEPT !.num = @ + 1]
Data(p) == [first |-> p, disk |-> 0, num |-> 0, boundary |-> Sectors, out |-> {}]

\* Over blocks b[1], b[2] ... of a file from position p; 0 is no block.
RECURSIVE Iterate(_, _, _)
Iterate(d, b, p) ==
    IF b = <<>> THEN d
    ELSE Iterate(IF Head(b) = 0 THEN d ELSE block_iterate_proc(d, Head(b), p), Tail(b), p + 1)

\* create_file_extents: the extents of a file, and whether its data went inline.
create_file_extents(w, f) ==
    LET d == Iterate(Data(0), f.blocks, 0)
        packed == w.packing /\ d.first = 0 /\ d.num > 0 /\ f.small
        whole == HoleTo(d, Len(f.blocks))
    IN  [inline |-> packed, extents |-> IF packed THEN {} ELSE whole]

-----------------------------------------------------------------------------
(* The image *)

\* create_image_file_range: the blocks of [a, b) that ext2 uses.
create_image_file_range(w, a, b) ==
    HoleTo(Iterate(Data(a), [i \in 1 .. b - a |-> IF a + i - 1 \in w.used THEN a + i - 1 ELSE 0], a), b)

\* The loop of create_ext2_image over the data extents from sector `last`.
Gap(w, a, b) == IF b > a THEN create_image_file_range(w, a, b) ELSE {}
RECURSIVE ImageFrom(_, _, _)
ImageFrom(w, exts, last) ==
    LET left == {e \in exts : e.disk >= last} IN
    IF left = {} THEN Gap(w, last, Sectors)
    ELSE LET e == CHOOSE x \in left : \A y \in left : x.disk <= y.disk IN
         Gap(w, last, e.disk) \cup {[e EXCEPT !.pos = e.disk]}
            \cup ImageFrom(w, exts, e.disk + e.num)

\* Extent #0 is copied sector by sector: the new places, in order.
RECURSIVE TakeSectors(_, _)
TakeSectors(s, n) ==
    IF n = 0 THEN <<>>
    ELSE LET b == custom_alloc_extent(s) IN
         <<b>> \o TakeSectors([s EXCEPT !.free = @ \ {b}], n - 1)

Data_(exts) == {e \in exts : e.disk # 0}
FileExtents(s) == UNION {Data_(s.files[f]) : f \in DOMAIN s.files}

-----------------------------------------------------------------------------
(* The conversion *)

Go(next) == pc' = next
Aborted(why) == /\ pc' = why
                /\ UNCHANGED <<world, disk, fs, move, back, crashes>>

\* do_convert up to cache_free_extents: ext2_alloc_block takes the lowest free
\* blocks and make_btrfs writes the first trees and the super block there.
FirstBlocks(w) ==
    LET f1 == Disk \ w.used
        f2 == f1 \ {Lowest(f1)}
        f3 == f2 \ {Lowest(f2)}
    IN  <<Lowest(f1), Lowest(f2), Lowest(f3)>>
MakeBtrfs ==
    /\ pc = "start"
    /\ LET b == FirstBlocks(world) IN
       /\ disk' = [disk EXCEPT ![b[1]] = SUPER, ![b[2]] = TREE, ![b[3]] = TREE]
       /\ fs' = [fs EXCEPT !.super = b[1], !.tree = b[2], !.chunk = b[3],
                           !.free = cache_free_extents(world.used \cup {b[1], b[2], b[3]})]
    /\ Go("init")
    /\ UNCHANGED <<world, move, back, crashes>>

\* init_btrfs: block groups and chunks are made; every tree is written anew.
InitBtrfs ==
    /\ pc = "init"
    /\ LET c == custom_alloc_extent(fs)
           s == CowTree(Dropped([fs EXCEPT !.chunk = c, !.free = @ \ {c}], Block(fs.chunk)))
       IN  IF c = 0 \/ s.tree = 0 THEN Aborted("bug_nospace")
           ELSE /\ fs' = Commit(s)
                /\ disk' = [disk EXCEPT ![c] = TREE, ![s.tree] = TREE]
                /\ Go("copy_inodes")
                /\ UNCHANGED <<world, move, back, crashes>>

\* copy_inodes, one inode: a tree block is rewritten, the data stays in place.
CopyInode ==
    /\ pc = "copy_inodes" /\ Len(fs.files) < Len(world.files)
    /\ LET f == create_file_extents(world, world.files[Len(fs.files) + 1])
           s == CowTree(fs)
       IN  IF s.tree = 0 THEN Aborted("bug_nospace")
           ELSE /\ fs' = [Commit(s) EXCEPT !.files = Append(@, f.extents),
                                           !.inline = Append(@, f.inline)]
                /\ disk' = [disk EXCEPT ![s.tree] = TREE]
                /\ UNCHANGED <<world, move, back, crashes, pc>>

\* create_ext2_image (after link_subvol).
CreateImage ==
    /\ pc = "copy_inodes" /\ Len(fs.files) = Len(world.files)
    /\ LET at == TakeSectors(fs, first_free)
           s == CowTree([fs EXCEPT !.free = @ \ {at[i] : i \in DOMAIN at}])
       IN  IF 0 \in {at[i] : i \in DOMAIN at} THEN Aborted("nospace")
           ELSE IF s.tree = 0 THEN Aborted("bug_nospace")
           ELSE /\ disk' = [b \in Disk |->
                      IF \E i \in DOMAIN at : at[i] = b
                      THEN disk[(CHOOSE i \in DOMAIN at : at[i] = b) - 1]
                      ELSE IF b = s.tree THEN TREE ELSE disk[b]]
                /\ fs' = [Commit(s) EXCEPT !.image =
                      {[pos |-> i - 1, disk |-> at[i], num |-> 1] : i \in DOMAIN at}
                        \cup ImageFrom(world, FileExtents(fs), first_free)]
                /\ Go("cleanup")
                /\ UNCHANGED <<world, move, back, crashes>>

-----------------------------------------------------------------------------
(* Relocation *)

\* cleanup_sys_chunk: the system block groups, then the super block stripes.
cleanup_sys_chunk ==
    LET sys == CHOOSE g \in Groups : g.sys IN
    <<<<sys.start, sys.end>>>> \o [i \in DOMAIN SbOffset |-> <<SbOffset[i], SbOffset[i] + STRIPE_LEN>>]

Items(s) == FileExtents(s) \cup Data_(s.image)

CleanupSysChunk ==
    /\ pc = "cleanup"
    /\ move' = [move EXCEPT !.ranges = cleanup_sys_chunk]
    /\ Go("range")
    /\ UNCHANGED <<world, disk, fs, back, crashes>>

\* relocate_extents_range: an extent that reaches into the range is taken too.
BeginRange ==
    /\ pc = "range" /\ move.ranges # <<>>
    /\ LET a == Head(move.ranges)[1]
           into == {e \in Items(fs) : e.disk < a /\ e.disk + e.num > a}
           start == IF into = {} THEN a ELSE Lowest({e.disk : e \in into})
       IN  move' = [move EXCEPT !.start = start, !.cur = start, !.pass = 0, !.found = FALSE,
                                !.reloc = {}]
    /\ Go("pass")
    /\ UNCHANGED <<world, disk, fs, back, crashes>>

\* The references of the pass: to the image on even passes, to files on odd ones.
PassRoot == IF move.pass % 2 = 0 THEN Data_(fs.image) ELSE FileExtents(fs)
InRange(b) == move.cur <= b /\ b < Head(move.ranges)[2]

\* relocate_one_reference: a sector that has a copy is not copied again.
HasCopy(m, b) == \E r \in m : r[1] = b
RECURSIVE CopySectors(_, _, _, _)
CopySectors(s, m, b, n) ==
    IF n = 0 THEN [fs |-> s, reloc |-> m, at |-> <<>>]
    ELSE LET new == IF HasCopy(m, b) THEN (CHOOSE r \in m : r[1] = b)[2] ELSE custom_alloc_extent(s)
             rest == CopySectors([s EXCEPT !.free = @ \ {new}], m \cup {<<b, new>>}, b + 1, n - 1)
         IN  [rest EXCEPT !.at = <<new>> \o @]

Without(s, e) ==
    IF move.pass % 2 = 0 THEN [s EXCEPT !.image = @ \ {e}]
    ELSE [s EXCEPT !.files = [f \in DOMAIN @ |-> @[f] \ {e}]]
With(s, e, new) ==
    IF move.pass % 2 = 0 THEN [s EXCEPT !.image = @ \cup new]
    ELSE [s EXCEPT !.files = [f \in DOMAIN @ |-> IF e \in fs.files[f] THEN @[f] \cup new ELSE @[f]]]
Same(e) == {x \in Items(fs) : x.disk = e.disk /\ x.num = e.num}
OnlyRef(e) == /\ ~(e \in fs.image /\ \E f \in DOMAIN fs.files : e \in fs.files[f])
              /\ Same(e) = {e}

RelocateOne ==
    /\ pc = "pass"
    /\ \E e \in PassRoot :
        /\ InRange(e.disk) /\ \A x \in PassRoot : InRange(x.disk) => e.disk <= x.disk
        /\ LET gone == Without(fs, e)
               freed == IF OnlyRef(e) THEN Dropped(gone, e) ELSE gone
               c == CopySectors(freed, move.reloc, e.disk, e.num)
               d == Iterate(Data(e.pos), c.at, e.pos)
           IN  IF \E i \in DOMAIN c.at : c.at[i] = 0 THEN Aborted("nospace")
               ELSE /\ fs' = With(c.fs, e, Recorded(d))
                    /\ disk' = [b \in Disk |->
                          IF \E r \in c.reloc \ move.reloc : r[2] = b
                          THEN disk[(CHOOSE r \in c.reloc \ move.reloc : r[2] = b)[1]] ELSE disk[b]]
                    /\ move' = [move EXCEPT !.reloc = c.reloc, !.found = TRUE,
                                            !.cur = e.disk + e.num]
                    /\ UNCHANGED <<world, back, crashes, pc>>

\* The end of a pass; a tree block in the range is BUG_ON.
EndPass ==
    /\ pc = "pass"
    /\ \A e \in PassRoot : ~InRange(e.disk)
    /\ LET found == move.found \/ \E e \in Items(fs) : InRange(e.disk)
           s == CowTree(fs)
       IN  IF {fs.tree, fs.chunk} \cap (move.start .. Head(move.ranges)[2] - 1) # {} THEN Aborted("bug_metadata")
           ELSE IF s.tree = 0 THEN Aborted("bug_nospace")
           ELSE IF found /\ move.pass = 16 THEN Aborted("passes")
           ELSE /\ fs' = Commit(s)
                /\ disk' = [disk EXCEPT ![s.tree] = TREE]
                /\ IF found
                   THEN /\ move' = [move EXCEPT !.pass = @ + 1, !.cur = move.start, !.found = FALSE]
                        /\ Go("pass")
                   ELSE /\ move' = [move EXCEPT !.ranges = Tail(@), !.reloc = {}]
                        /\ Go("range")
                /\ UNCHANGED <<world, back, crashes>>

-----------------------------------------------------------------------------
(* The super block *)

\* migrate_super_block, up to and including the fsync.
MigrateSuper ==
    /\ pc = "range" /\ move.ranges = <<>>
    /\ disk' = [disk EXCEPT ![SB] = SUPER]
    /\ Go(IF world.fsync_fails THEN "not_migrated" ELSE "zero")
    /\ UNCHANGED <<world, fs, move, back, crashes>>

\* The zeroing: a failed write ends it, without an error.
ZeroStart ==
    /\ pc = "zero"
    /\ disk' = IF world.zero_fails THEN disk ELSE [b \in Disk |-> IF b < SB THEN ZERO ELSE disk[b]]
    /\ Go("fixup")
    /\ UNCHANGED <<world, fs, move, back, crashes>>

\* A mounted btrfs takes its free space from the extent tree (cache_block_group)
\* and writes every super block (write_dev_supers).
NormalFree(s) ==
    {b \in Disk : b >= SB /\ ~intersect_with_sb(b, 1)}
        \ ({s.tree, s.chunk} \cup UNION {Span(e) : e \in Items(s)})
AllSupers(d) == [b \in Disk |-> IF \E i \in DOMAIN SbOffset : SbOffset[i] = b THEN SUPER ELSE d[b]]

\* fixup_chunk_mapping: the chunk tree moves into the system block group; the
\* other trees are rewritten too.
SysFree(s) == {b \in NormalFree(s) : IsSys(b)}
OtherFree(s) == {b \in NormalFree(s) : ~IsSys(b)}
Fixup ==
    /\ pc = "fixup"
    /\ IF SysFree(fs) = {} \/ OtherFree(fs) = {} THEN Aborted("bug_full")
       ELSE LET c == Lowest(SysFree(fs))
                t == Lowest(OtherFree(fs))
            IN  /\ fs' = [fs EXCEPT !.chunk = c, !.tree = t, !.free = {}, !.super = SB]
                /\ disk' = AllSupers([disk EXCEPT ![c] = TREE, ![t] = TREE])
                /\ Go("btrfs")
                /\ UNCHANGED <<world, move, back, crashes>>

-----------------------------------------------------------------------------
(* The file system in use (the kernel; external) *)

\* A file is rewritten or deleted; what the image holds is not free.
WriteFile ==
    /\ pc = "btrfs"
    /\ \E f \in DOMAIN fs.files \ fs.changed :
        LET s == [fs EXCEPT !.files[f] = {}, !.changed = @ \cup {f}] IN
        \/ /\ fs' = s
           /\ UNCHANGED disk
        \/ \E b, t \in OtherFree(fs) :
             /\ b # t /\ t = Lowest(OtherFree(fs))
             /\ \A x \in OtherFree(fs) : x <= b
             /\ fs' = [s EXCEPT !.files[f] = {[pos |-> 0, disk |-> b, num |-> 1]}, !.tree = t]
             /\ disk' = AllSupers([disk EXCEPT ![b] = USER, ![t] = TREE])
    /\ UNCHANGED <<world, move, back, crashes, pc>>

DeleteImage ==
    /\ pc = "btrfs" /\ fs.image # {} /\ fs.changed = {}
    /\ fs' = [fs EXCEPT !.image = {}]
    /\ UNCHANGED <<world, disk, move, back, crashes, pc>>

Balance ==
    /\ pc = "btrfs" /\ ~fs.balanced /\ fs.changed = {}
    /\ fs' = [fs EXCEPT !.balanced = TRUE]
    /\ UNCHANGED <<world, disk, move, back, crashes, pc>>

-----------------------------------------------------------------------------
(* The rollback *)

\* do_rollback: the extents of the image that are not where ext2 had them.
MayBeMoved(e) == /\ GroupOf(e.pos) = GroupOf(e.pos + e.num - 1)
                 /\ IsSys(e.pos) \/ intersect_with_sb(e.pos, e.num)
\* Mutant: what lay below a mirror stays where it is.
Moved_Sys(e) == e.disk # 0 /\ e.disk # e.pos /\ IsSys(e.pos)
Moved(e) == e.disk # 0 /\ e.disk # e.pos
RECURSIVE Mapped(_)
Mapped(off) ==
    off >= Sectors \/ \E e \in fs.image : e.pos = off /\ (Moved(e) => MayBeMoved(e)) /\ Mapped(off + e.num)
MovedExtents == {e \in fs.image : Moved(e)}
FirstExtentIsSaved ==
    \A b \in 0 .. first_free - 1 : \E e \in MovedExtents : e.pos <= b /\ b < e.pos + e.num
may_rollback == ~fs.balanced

Refused == /\ Go("refused")
           /\ UNCHANGED <<world, disk, fs, move, back, crashes>>
RollbackOpen ==
    /\ pc = "btrfs"
    /\ IF ~may_rollback \/ fs.image = {} \/ ~Mapped(0) \/ ~FirstExtentIsSaved THEN Refused
       ELSE /\ back' = [map |-> MovedExtents, sb |-> 0]
            /\ Go("recow")
            /\ UNCHANGED <<world, disk, fs, move, crashes>>

\* The chunk tree leaves the system block group; then only extent #0 may be
\* left in it.
RecowFrom(s) == OtherFree(s)
SysUsed(s) ==
    Cardinality({b \in ({s.tree, s.chunk} \cup UNION {Span(e) : e \in Items(s)}) : IsSys(b)})
RollbackRecow ==
    /\ pc = "recow"
    /\ IF RecowFrom(fs) = {} THEN Aborted("bug_full")
       ELSE LET c == Lowest(RecowFrom(fs))
                s == [fs EXCEPT !.chunk = c]
                left == OtherFree(s) \ {fs.chunk}
            IN  IF left = {} THEN Aborted("bug_full")
                ELSE IF SysUsed(s) > first_free THEN Refused
                ELSE /\ fs' = [s EXCEPT !.tree = Lowest(left)]
                     /\ disk' = AllSupers([disk EXCEPT ![c] = TREE, ![Lowest(left)] = TREE])
                     /\ Go("zero_mirrors")
                     /\ UNCHANGED <<world, move, back, crashes>>

ZeroMirrors ==
    /\ pc = "zero_mirrors"
    /\ disk' = [b \in Disk |-> IF \E i \in 2 .. Len(SbOffset) : SbOffset[i] = b THEN ZERO ELSE disk[b]]
    /\ Go("copy_back")
    /\ UNCHANGED <<world, fs, move, back, crashes>>

\* One extent goes back, but not what belongs at the super block.
IsLast(b) == b = SB
CopyBack ==
    /\ pc = "copy_back"
    /\ \E e \in back.map :
        LET Here(b) == e.pos <= b /\ b < e.pos + e.num IN
        /\ \A x \in back.map : e.pos <= x.pos
        /\ disk' = [b \in Disk |-> IF Here(b) /\ ~IsLast(b) THEN disk[e.disk + b - e.pos] ELSE disk[b]]
        /\ back' = [map |-> back.map \ {e}, sb |-> IF Here(SB) THEN e.disk + SB - e.pos ELSE back.sb]
    /\ UNCHANGED <<world, fs, move, crashes, pc>>

LastWrite ==
    /\ pc = "copy_back" /\ back.map = {}
    /\ disk' = [disk EXCEPT ![SB] = disk[back.sb]]
    /\ Go("ext2")
    /\ UNCHANGED <<world, fs, move, back, crashes>>

\* The machine stops, or a read, a write or the fsync fails, in the middle; the
\* btrfs is mounted again or the rollback is started again.
CrashRollback ==
    /\ pc \in {"zero_mirrors", "copy_back"} /\ crashes = 0
    /\ crashes' = 1
    /\ Go("btrfs")
    /\ UNCHANGED <<world, disk, fs, move, back>>

-----------------------------------------------------------------------------

Init ==
    /\ world \in Worlds
    /\ disk = [b \in Disk |-> IF b \in world.used THEN b ELSE UNUSED]
    /\ fs = [free |-> {}, pinned |-> {}, tree |-> 0, chunk |-> 0, super |-> 0, files |-> <<>>,
             image |-> {}, inline |-> <<>>, changed |-> {}, balanced |-> FALSE]
    /\ move = [ranges |-> <<>>, start |-> 0, cur |-> 0, pass |-> 0, found |-> FALSE, reloc |-> {}]
    /\ back = [map |-> {}, sb |-> 0]
    /\ crashes = 0
    /\ pc = "start"

Next == \/ MakeBtrfs \/ InitBtrfs \/ CopyInode \/ CreateImage
        \/ CleanupSysChunk \/ BeginRange \/ RelocateOne \/ EndPass
        \/ MigrateSuper \/ ZeroStart \/ Fixup
        \/ WriteFile \/ DeleteImage \/ Balance
        \/ RollbackOpen \/ RollbackRecow \/ ZeroMirrors \/ CopyBack \/ LastWrite \/ CrashRollback

Spec == Init /\ [][Next]_vars

-----------------------------------------------------------------------------
(* Properties *)

ExtIsThere == \A b \in world.used : disk[b] = b
Ready == {"btrfs", "recow", "zero_mirrors", "copy_back"}
ContentOf(exts, p) ==
    LET e == CHOOSE x \in exts : x.pos <= p /\ p < x.pos + x.num IN
    IF e.disk = 0 THEN 0 ELSE disk[e.disk + p - e.pos]
Holds(exts, p) == \E x \in exts : x.pos <= p /\ p < x.pos + x.num

\* Until the super block is written, and wherever the conversion gives up or is
\* interrupted before that, every block ext2 uses is as it was: the tree blocks,
\* the copies of extent #0 and the relocated sectors all go elsewhere
\* (custom_alloc_extent, cache_free_extents).
ExtIsUntouched ==
    pc \in {"start", "init", "copy_inodes", "cleanup", "range", "pass", "nospace", "bug_nospace"}
        => ExtIsThere

\* Whatever ext2 had in a block can be read from the image at the same offset,
\* from the time it is made, through relocation, migration, use of the btrfs and
\* interrupted rollbacks (create_ext2_image, relocate_one_reference).
ImageIsExt ==
    pc \in Ready \cup {"cleanup", "range", "pass", "zero", "fixup"} =>
        fs.image = {} \/ \A b \in world.used : Holds(fs.image, b) /\ ContentOf(fs.image, b) = b

\* A file nobody changed reads as it did under ext2, holes included
\* (create_file_extents, relocate_one_reference).
FilesAreKept ==
    pc \in Ready => \A f \in DOMAIN fs.files \ fs.changed :
        fs.inline[f] \/ \A p \in DOMAIN world.files[f].blocks :
            Holds(fs.files[f], p - 1) /\ ContentOf(fs.files[f], p - 1) = world.files[f].blocks[p]

\* From the conversion to the last write of a rollback the btrfs can be mounted:
\* its super block and its trees are where it left them (do_rollback).
BtrfsIsMountable ==
    pc \in Ready => disk[SB] = SUPER /\ disk[fs.tree] = TREE /\ disk[fs.chunk] = TREE

\* A rollback that completes gives every block of ext2 back, also when it was
\* interrupted before and the btrfs was used in between (do_rollback).
RollbackRestores == pc = "ext2" => ExtIsThere

\* A rollback is only refused when the image is gone or the btrfs was balanced:
\* every extent the conversion moved is one do_rollback accepts.
RollbackIsPossible == pc = "refused" => fs.balanced \/ fs.image = {}

\* The relocation of a range ends: it never meets a tree block and never runs
\* out of passes (relocate_extents_range).
RelocationEnds == pc \notin {"passes", "bug_metadata"}

\* What do_convert says of migrate_super_block: "If this step succeed, we get a
\* mountable btrfs. Otherwise the ext2fs is left unchanged."
FailedMigrationLeavesExt == pc = "not_migrated" => ExtIsThere

\* Sectors are sectors of the device, and the crash happens once.
TypeOK ==
    /\ DOMAIN disk = Disk
    /\ fs.free \subseteq Disk /\ fs.pinned \subseteq Disk
    /\ {fs.tree, fs.chunk, fs.super} \subseteq Disk
    /\ crashes \in 0 .. 1
    /\ back.map \subseteq fs.image \/ fs.image = {}

-----------------------------------------------------------------------------
\* The instance TLC checks: ext2 file systems on 22 sectors.

File(blocks, small) == [blocks |-> blocks, small |-> small]
World(meta, files, packing, fsync, zero) ==
    [used |-> meta \cup UNION {{f.blocks[i] : i \in DOMAIN f.blocks} \ {0} :
                                 f \in {files[j] : j \in DOMAIN files}},
     files |-> files, packing |-> packing, fsync_fails |-> fsync, zero_fails |-> zero]

\* Files below both super blocks, across them and across block groups, with
\* holes, small enough to be packed, and nearly no free space.
Layouts == {
    <<{0, 1, 2}, <<File(<<4, 5, 6, 7>>, FALSE), File(<<0, 13, 0, 16, 15>>, FALSE)>>>>,
    <<{0, 1}, <<File(<<2, 3, 4>>, FALSE), File(<<7, 8, 9, 10>>, FALSE)>>>>,
    <<{0, 1, 2, 9}, <<File(<<8>>, TRUE), File(<<3, 0, 12, 13>>, FALSE)>>>>,
    <<{0, 1, 2, 3, 4, 14}, <<File(<<10, 9, 8>>, FALSE), File(<<5>>, TRUE)>>>>,
    <<{0, 1, 2, 4, 5, 6, 10, 11, 17, 18, 19, 20}, <<File(<<7, 8>>, FALSE)>>>>,
    <<{0, 1, 2, 4, 5, 6, 10, 17, 18, 19}, <<File(<<7, 8>>, FALSE)>>>>}
MCWorlds ==
    {World(l[1], l[2], packing, FALSE, FALSE) : l \in Layouts, packing \in BOOLEAN}
        \cup {World({0, 1, 2}, <<File(<<3, 4>>, FALSE)>>, TRUE, fsync, ~fsync) : fsync \in BOOLEAN}
=============================================================================

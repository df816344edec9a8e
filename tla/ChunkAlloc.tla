----------------------------- MODULE ChunkAlloc -----------------------------
(***************************************************************************)
(* Chunk allocation of volumes.c: btrfs_alloc_chunk chooses a stripe size  *)
(* and devices, cuts a device extent from each, and records the chunk in   *)
(* the chunk tree, in the mapping cache and, for system chunks, in the     *)
(* super block's array, from which the next open maps the chunk tree.      *)
(* Sizes are in units of a quarter of a stripe (16 KiB).                   *)
(***************************************************************************)
EXTENDS Integers, FiniteSets, SequencesExt

CONSTANTS
    Setups,         \* file systems to begin with: records of the fields below
    AllocStart      \* fs_info->alloc_start (mkfs -A)

MB == 64
StripeLen == 4      \* stripe_len, 64 KiB
SysArraySize == 2048

ASSUME ChunkAssumption ==
    /\ AllocStart \in Nat
    /\ \A s \in Setups : s.devs \in DOMAIN s.sizes /\ s.sizes \in Seq(Nat) /\ s.max \in Nat

VARIABLES
    fs,             \* the setup; does not change
    chunks,         \* chunk tree: start, length, type, stripes
    dev_extents,    \* device tree: device -> set of start, length, chunk
    bytes_used,     \* device -> bytes_used
    dev_list,       \* fs_devices->devices
    sys_array,      \* super_copy->sys_chunk_array: sequence of chunks
    mapping,        \* mapping_tree: chunks known in memory
    pc,             \* the step of btrfs_alloc_chunk or of opening
    a               \* locals of btrfs_alloc_chunk

vars == <<fs, chunks, dev_extents, bytes_used, dev_list, sys_array, mapping, pc, a>>
Trees == <<fs, chunks, dev_extents, bytes_used, sys_array, mapping>>

DevSize == fs.sizes         \* device id -> total_bytes
DevIds == DOMAIN fs.sizes
MaxDevs == Len(fs.sizes)
FirstDevs == fs.devs        \* number of devices in the beginning
FirstChunks == fs.chunks    \* chunks in the beginning
Types == fs.types           \* chunk types asked for: records kind, profile
DataSizes == fs.data        \* sizes asked from btrfs_alloc_data_chunk
MaxChunks == fs.max         \* bound on the number of chunks
Reopens == fs.reopens       \* whether the file system is opened again

NumDevs == Cardinality(DOMAIN dev_extents)   \* btrfs_super_num_devices
End(e) == e.start + e.length
Larger(x, y) == IF x > y THEN x ELSE y
Smaller(x, y) == IF x < y THEN x ELSE y
RoundDown(n) == (n \div StripeLen) * StripeLen

-----------------------------------------------------------------------------
(* Device extents *)

SearchStart == Larger(MB, AllocStart)

\* The extents that the search looks at: the last one before the start of the
\* search (btrfs_previous_item) and all behind.
Seen(d, from) ==
    {e \in dev_extents[d] : e.start >= from
        \/ \A f \in dev_extents[d] : f.start < from => f.start <= e.start}
\* last_byte when the search comes to f; undefined at the first extent.
LastBytes(d, f) ==
    {Larger(End(e), SearchStart) : e \in {x \in Seen(d, SearchStart) : x.start < f.start
        /\ \A y \in Seen(d, SearchStart) : y.start < f.start => y.start <= x.start}}

Fitting(d, n) ==
    UNION {{b \in LastBytes(d, f) : f.start >= SearchStart /\ f.start > b /\ f.start - b >= n}
           : f \in Seen(d, SearchStart)}
TailStart(d) == {x \in {Larger(SearchStart, End(e)) : e \in Seen(d, SearchStart)} \cup {SearchStart} :
               \A e \in Seen(d, SearchStart) : End(e) <= x /\ SearchStart <= x}

\* Faulty variant: may begin in the first megabyte.
find_low_dev_extent(d, n) ==
    LET starts == IF dev_extents[d] = {} THEN {AllocStart} ELSE TailStart(d)
    IN {s \in starts : s + n <= DevSize[d]}

\* find_free_dev_extent: the first hole behind an extent that is large enough,
\* or the end of the last extent; empty for -ENOSPC.
find_free_dev_extent(d, n) ==
    LET starts == {b \in Fitting(d, n) : \A c \in Fitting(d, n) : b <= c}
                  \cup {s \in TailStart(d) : Fitting(d, n) = {}}
    IN {s \in starts : s + n <= DevSize[d]}

\* btrfs_device_avail_bytes: the sum of all holes from the first megabyte on.
HoleBefore(d, e) ==
    LET from == Max({SearchStart} \cup {End(f) : f \in {g \in dev_extents[d] : g.start < e.start}})
    IN IF e.start > from THEN e.start - from ELSE 0
btrfs_device_avail_bytes(d) ==
    LET last == Max({SearchStart} \cup {End(e) : e \in dev_extents[d]})
    IN MapThenSumSet(LAMBDA e : HoleBefore(d, e), dev_extents[d])
       + (IF last < DevSize[d] THEN DevSize[d] - last ELSE 0)

-----------------------------------------------------------------------------
(* Sizes and stripes *)

Striped(t) == t.profile # "single"
BaseSize(t) == IF Striped(t) /\ t.kind # "system" THEN 1024 * MB ELSE 8 * MB
MaxSize(t) == CASE Striped(t) /\ t.kind = "system" -> 16 * MB
                [] Striped(t) /\ t.kind = "data" -> 10240 * MB
                [] Striped(t) /\ t.kind = "metadata" -> 4096 * MB
                [] OTHER -> 32 * MB
MinStripeSize(t) == CASE Striped(t) /\ t.kind = "data" -> 64 * MB
                      [] Striped(t) /\ t.kind = "metadata" -> 32 * MB
                      [] OTHER -> MB
NumStripes(t) == CASE t.profile = "single" -> 1
                   [] t.profile = "dup" -> 2
                   [] t.profile = "raid1" -> Smaller(2, NumDevs)
                   [] t.profile = "raid10" -> (NumDevs \div 2) * 2
                   [] OTHER -> NumDevs
MinStripes(t) == CASE t.profile = "single" -> 1
                   [] t.profile = "raid6" -> 3
                   [] t.profile = "raid10" -> 4
                   [] OTHER -> 2
\* The early returns of -ENOSPC for too few devices.
EnoughDevs(t) == t.profile \in {"raid1", "raid5", "raid6", "raid10"} => NumDevs >= MinStripes(t)
TotalBytes == MapThenSumSet(LAMBDA d : DevSize[d], DOMAIN dev_extents)

chunk_bytes_by_type(t, size, n) ==
    CASE t.profile \in {"raid1", "dup"} -> size
      [] t.profile = "raid10" -> size * (n \div 2)
      [] t.profile = "raid5" -> size * (n - 1)
      [] t.profile = "raid6" -> size * (n - 2)
      [] OTHER -> size * n
ItemSize(n) == 48 + 32 * n     \* btrfs_chunk_item_size
KeySize == 17                  \* sizeof(struct btrfs_disk_key)

NoLocals == [type |-> [kind |-> "data", profile |-> "single"], num_stripes |-> 0, calc_size |-> 0,
             max_avail |-> 0, looped |-> FALSE, index |-> 0, todo |-> <<>>, private |-> <<>>,
             stripes |-> <<>>]

-----------------------------------------------------------------------------
(* btrfs_alloc_chunk *)

BeginAlloc(t) ==
    /\ pc = "idle" /\ Cardinality(chunks) < MaxChunks
    /\ dev_list # <<>> /\ EnoughDevs(t)
    /\ a' = [NoLocals EXCEPT !.type = t, !.num_stripes = NumStripes(t), !.calc_size = BaseSize(t)]
    /\ pc' = "again"
    /\ UNCHANGED <<Trees, dev_list>>

\* again: the stripe size, at most a tenth of the file system per chunk.
MaxChunk == Smaller(TotalBytes \div 10, MaxSize(a.type))
StripeSize ==
    LET fit == IF chunk_bytes_by_type(a.type, a.calc_size, a.num_stripes) > MaxChunk
               THEN RoundDown(MaxChunk \div a.num_stripes) ELSE a.calc_size
    IN RoundDown(Larger(fit, MinStripeSize(a.type)))
Again ==
    /\ pc = "again"
    /\ a' = [a EXCEPT !.calc_size = StripeSize, !.index = 0, !.todo = dev_list, !.private = <<>>]
    /\ pc' = "collect"
    /\ UNCHANGED <<Trees, dev_list>>

MinFree == IF a.type.profile = "dup" THEN 2 * a.calc_size ELSE a.calc_size
\* One device of the loop that builds the private list.
Collect ==
    /\ pc = "collect" /\ a.index < a.num_stripes /\ a.todo # <<>>
    /\ LET d == Head(a.todo)
           avail == btrfs_device_avail_bytes(d)
       IN IF avail >= MinFree
          THEN /\ dev_list' = Remove(dev_list, d)
               /\ a' = [a EXCEPT !.todo = Tail(@), !.private = Append(@, d),
                                 !.index = @ + IF a.type.profile = "dup" THEN 2 ELSE 1]
          ELSE /\ a' = [a EXCEPT !.todo = Tail(@), !.max_avail = Larger(@, avail)]
               /\ UNCHANGED dev_list
    /\ UNCHANGED <<Trees, pc>>

\* Faulty variant: the second try has as many stripes as the first.
TooFewRetries ==
    /\ pc = "collect" /\ a.index < a.num_stripes /\ a.todo = <<>>
    /\ dev_list' = a.private \o dev_list
    /\ \/ /\ a.index >= MinStripes(a.type)
          /\ a' = [a EXCEPT !.looped = TRUE] /\ pc' = "again"
       \/ /\ a.index < MinStripes(a.type)
          /\ a' = NoLocals /\ pc' = "idle"
    /\ UNCHANGED Trees

\* Too few devices: try with fewer stripes, once with what is free, or give up.
TooFew ==
    /\ pc = "collect" /\ a.index < a.num_stripes /\ a.todo = <<>>
    /\ dev_list' = a.private \o dev_list
    /\ \/ /\ a.index >= MinStripes(a.type)
          /\ a' = [a EXCEPT !.num_stripes = IF a.type.profile = "raid10" THEN (a.index \div 2) * 2
                                            ELSE a.index,
                            !.looped = TRUE]
          /\ pc' = "again"
       \/ /\ a.index < MinStripes(a.type) /\ ~a.looped /\ a.max_avail > 0
          /\ a' = [a EXCEPT !.looped = TRUE, !.calc_size = a.max_avail]
          /\ pc' = "again"
       \/ /\ a.index < MinStripes(a.type) /\ (a.looped \/ a.max_avail = 0)
          /\ a' = NoLocals /\ pc' = "idle"
    /\ UNCHANGED Trees

\* Enough devices: go on to find_next_chunk and the stripes.
Enough ==
    /\ pc = "collect" /\ a.index >= a.num_stripes
    /\ a' = [a EXCEPT !.index = 0] /\ pc' = "place"
    /\ UNCHANGED <<Trees, dev_list>>

\* find_next_chunk: behind the last chunk.
find_next_chunk == Max({0} \cup {End(c) : c \in chunks})

\* Faulty variant: bytes_used is not updated.
TakeUncounted(d, s, n) ==
    /\ dev_extents' = [dev_extents EXCEPT ![d] = @ \cup {[start |-> s, length |-> n, chunk |-> find_next_chunk]}]
    /\ UNCHANGED bytes_used
btrfs_update_device(d, n) == bytes_used' = [bytes_used EXCEPT ![d] = @ + n]
\* btrfs_alloc_dev_extent and btrfs_update_device for stripe a.index.
TakeExtent(d, s, n) ==
    /\ dev_extents' = [dev_extents EXCEPT ![d] = @ \cup {[start |-> s, length |-> n, chunk |-> find_next_chunk]}]
    /\ btrfs_update_device(d, n)
LastOnDevice == a.type.profile # "dup" \/ a.index = a.num_stripes - 1

Place ==
    /\ pc = "place" /\ a.index < a.num_stripes
    /\ LET d == Head(a.private)
           starts == find_free_dev_extent(d, a.calc_size)
       IN \/ \E s \in starts :
                /\ TakeExtent(d, s, a.calc_size)
                /\ a' = [a EXCEPT !.index = @ + 1, !.stripes = Append(@, <<d, s>>),
                                  !.private = IF LastOnDevice THEN Tail(@) ELSE @]
                /\ dev_list' = IF LastOnDevice THEN Append(dev_list, d) ELSE dev_list
                /\ UNCHANGED pc
          \/ /\ starts = {} /\ pc' = "bug_extent"          \* BUG_ON(ret)
             /\ UNCHANGED <<dev_extents, bytes_used, a, dev_list>>
    /\ UNCHANGED <<fs, chunks, sys_array, mapping>>

NewChunk == [start |-> find_next_chunk, type |-> a.type, stripes |-> a.stripes,
             length |-> chunk_bytes_by_type(a.type, a.calc_size, a.num_stripes)]
ArrayBytes == FoldSet(LAMBDA i, x : x + KeySize + ItemSize(Len(sys_array[i].stripes)), 0,
                      DOMAIN sys_array)

\* Faulty variant: a system chunk is not entered into the array.
FinishWithoutArray ==
    /\ pc = "place" /\ a.index = a.num_stripes
    /\ chunks' = chunks \cup {NewChunk} /\ mapping' = mapping \cup {NewChunk}
    /\ UNCHANGED <<fs, sys_array, dev_extents, bytes_used, dev_list>>
    /\ pc' = "idle" /\ a' = NoLocals

\* The chunk item, the mapping and btrfs_add_system_chunk.
Finish ==
    /\ pc = "place" /\ a.index = a.num_stripes
    /\ chunks' = chunks \cup {NewChunk} /\ mapping' = mapping \cup {NewChunk}
    /\ \/ /\ a.type.kind # "system" /\ pc' = "idle" /\ UNCHANGED sys_array
       \/ /\ a.type.kind = "system" /\ ArrayBytes + ItemSize(a.num_stripes) <= SysArraySize
          /\ sys_array' = Append(sys_array, NewChunk) /\ pc' = "idle"
       \/ /\ a.type.kind = "system" /\ ArrayBytes + ItemSize(a.num_stripes) > SysArraySize
          /\ pc' = "bug_array" /\ UNCHANGED sys_array      \* BUG_ON(ret) of -EFBIG
    /\ a' = NoLocals
    /\ UNCHANGED <<fs, dev_extents, bytes_used, dev_list>>

\* btrfs_alloc_data_chunk: one stripe on the first device of the list.
AllocDataChunk(n) ==
    /\ pc = "idle" /\ Cardinality(chunks) < MaxChunks
    /\ LET d == Head(dev_list) IN
       \/ \E s \in find_free_dev_extent(d, n) :
             LET c == [start |-> find_next_chunk, type |-> [kind |-> "data", profile |-> "single"],
                       stripes |-> <<<<d, s>>>>, length |-> n]
             IN /\ TakeExtent(d, s, n)
                /\ chunks' = chunks \cup {c} /\ mapping' = mapping \cup {c}
                /\ UNCHANGED pc
       \/ /\ find_free_dev_extent(d, n) = {} /\ pc' = "bug_extent"
          /\ UNCHANGED <<dev_extents, bytes_used, chunks, mapping>>
    /\ UNCHANGED <<fs, sys_array, dev_list, a>>

-----------------------------------------------------------------------------
(* Devices and opening *)

find_next_devid == Max(DOMAIN dev_extents) + 1
btrfs_add_device(f, new) == [e \in DOMAIN f \cup {find_next_devid} |-> IF e \in DOMAIN f THEN f[e] ELSE new]
\* btrfs_add_to_fsid: the next free device id, first in the list.
AddDevice ==
    /\ pc = "idle" /\ NumDevs < MaxDevs
    /\ dev_extents' = btrfs_add_device(dev_extents, {})
    /\ bytes_used' = btrfs_add_device(bytes_used, 0)
    /\ dev_list' = <<find_next_devid>> \o dev_list
    /\ UNCHANGED <<fs, chunks, sys_array, mapping, pc, a>>

\* The scan finds the devices in any order.
ScanOrders == {s \in [1 .. NumDevs -> DOMAIN dev_extents] :
                 \A i, j \in 1 .. NumDevs : i # j => s[i] # s[j]}
\* read_one_chunk keeps what is mapped already.
AlreadyMapped(c) == \E m \in mapping : m.start <= c.start /\ End(m) > c.start
\* Reopening: btrfs_read_sys_array, then the chunk tree through it.
ReadSysArray ==
    /\ Reopens /\ pc = "idle"
    /\ mapping' = {sys_array[i] : i \in DOMAIN sys_array}
    /\ dev_list' \in ScanOrders
    /\ pc' = "open"
    /\ UNCHANGED <<fs, chunks, dev_extents, bytes_used, sys_array, a>>
ReadChunkTree ==
    /\ pc = "open"
    /\ mapping' = mapping \cup {c \in chunks : ~AlreadyMapped(c)}
    /\ pc' = "idle"
    /\ UNCHANGED <<fs, chunks, dev_extents, bytes_used, sys_array, dev_list, a>>

-----------------------------------------------------------------------------
StripesOn(c, d) == {i \in DOMAIN c.stripes : c.stripes[i][1] = d}
DataStripes(c) == chunk_bytes_by_type(c.type, 1, Len(c.stripes))
ExtentsOf(cs, d) ==
    UNION {{[start |-> c.stripes[i][2], length |-> c.length \div DataStripes(c), chunk |-> c.start]
            : i \in StripesOn(c, d)} : c \in cs}
\* A file system as mkfs or the kernel left it.
Init ==
    /\ fs \in Setups
    /\ chunks = FirstChunks /\ mapping = FirstChunks
    /\ dev_extents = [d \in 1 .. FirstDevs |-> ExtentsOf(FirstChunks, d)]
    /\ bytes_used = [d \in 1 .. FirstDevs |-> MapThenSumSet(LAMBDA e : e.length, ExtentsOf(FirstChunks, d))]
    /\ dev_list = [i \in 1 .. FirstDevs |-> FirstDevs + 1 - i]
    /\ LET sys == {c \in FirstChunks : c.type.kind = "system"}
       IN sys_array = [i \in 1 .. Cardinality(sys) |->
                        CHOOSE c \in sys : Cardinality({e \in sys : e.start < c.start}) = i - 1]
    /\ pc = "idle" /\ a = NoLocals

AllocStep == Again \/ Collect \/ TooFew \/ Enough \/ Place \/ Finish
Next == \/ \E t \in Types : BeginAlloc(t)
        \/ \E n \in DataSizes : AllocDataChunk(n)
        \/ AllocStep \/ AddDevice \/ ReadSysArray \/ ReadChunkTree
Spec == Init /\ [][Next]_vars
FairSpec == Spec /\ WF_vars(AllocStep)

-----------------------------------------------------------------------------
(* Properties *)

\* Types of the trees, the lists and the locals of btrfs_alloc_chunk.
TypeOK ==
    /\ pc \in {"idle", "again", "collect", "place", "open", "bug_extent", "bug_array"}
    /\ a.num_stripes \in 0 .. MaxDevs + 1 /\ a.index \in 0 .. a.num_stripes
    /\ a.calc_size \in Nat /\ (pc = "place" => a.calc_size % StripeLen = 0)
    /\ DOMAIN dev_extents \subseteq DevIds /\ bytes_used \in [DOMAIN dev_extents -> Nat]
    /\ mapping \subseteq chunks
    /\ dev_list \in Seq(DOMAIN dev_extents) /\ a.private \in Seq(DOMAIN dev_extents)

Overlap(e, f) == e.start < End(f) /\ f.start < End(e)
\* No two device extents of a device overlap, all lie on the device, and a new
\* one never touches the first megabyte with the super block.
DevExtentsDisjoint ==
    \A d \in DOMAIN dev_extents :
        /\ \A e, f \in dev_extents[d] : e # f => ~Overlap(e, f)
        /\ \A e \in dev_extents[d] : End(e) <= DevSize[d]
        /\ \A e \in dev_extents[d] : e.start >= MB \/ e \in ExtentsOf(FirstChunks, d)

\* Between calls the device tree and the chunk tree say the same: every stripe
\* has its device extent and every device extent belongs to a stripe, and the
\* devices' bytes_used is their sum.  This is what btrfs check verifies.
StripesAreExtents ==
    pc \in {"idle", "open"} => \A d \in DOMAIN dev_extents :
        /\ dev_extents[d] = ExtentsOf(chunks, d)
        /\ bytes_used[d] = MapThenSumSet(LAMBDA e : e.length, dev_extents[d])

\* Logical ranges of chunks are disjoint: inserting into the mapping cache
\* never finds the range taken (BUG_ON).
ChunksDisjoint == \A c, e \in chunks : c # e => ~Overlap(c, e)

\* Redundancy is real: stripes of one chunk are on different devices, except
\* for dup, whose two stripes share one.
StripesSpread ==
    \A c \in chunks \ FirstChunks : \A i, j \in DOMAIN c.stripes :
        i # j => IF c.type.profile = "dup" THEN c.stripes[i][1] = c.stripes[j][1]
                 ELSE c.stripes[i][1] # c.stripes[j][1]

\* No path through btrfs_alloc_chunk, also those that give up or try again,
\* loses a device from the device list or repeats one.
DeviceListKept ==
    pc \in {"idle", "open"} =>
        /\ {dev_list[i] : i \in DOMAIN dev_list} = DOMAIN dev_extents
        /\ Len(dev_list) = NumDevs

\* Chunk tree, device tree and device list fit together after every call,
\* whatever profiles were asked for and whichever calls gave up.
TreesAgree == TypeOK /\ StripesAreExtents /\ ChunksDisjoint /\ StripesSpread /\ DeviceListKept

\* The array in the super block is enough to read the chunk tree: it maps all
\* system chunks, so that reopening finds every chunk.
SystemChunksMapped ==
    pc = "open" => \A c \in chunks : c.type.kind = "system" => c \in mapping

\* The "again" loop ends.
AllocReturns == (pc \in {"again", "collect", "place"}) ~> (pc \in {"idle", "bug_extent", "bug_array"})

\* Once enough devices with enough free bytes are on the private list, the
\* device extents are found: BUG_ON(ret) after btrfs_alloc_dev_extent.
StripesFound == pc # "bug_extent"

\* The array has room for 14 chunks with 3 stripes each (comment in ctree.h).
RoomFor14 == pc = "bug_array" => Len(sys_array) >= 14

\* The array keeps within its 2048 bytes.
ArrayInBounds == ArrayBytes <= SysArraySize
=============================================================================

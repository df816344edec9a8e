---------------------------- MODULE ChunkRecords ----------------------------
(***************************************************************************)
(* Chunks, block groups and device extents compared with each other        *)
(* (cmds-check.c: check_chunks, check_devices), by btrfs check and by      *)
(* chunk-recover.c.                                                        *)
(*                                                                         *)
(* A chunk is [offset, length, flags, stripes], stripes a sequence of      *)
(* [devid, offset]; a block group [objectid, offset, flags], offset its    *)
(* length; a device extent [objectid, offset, chunk_offset, length],       *)
(* objectid the device; a device item [devid, byte_used].  flags is the    *)
(* set of the type and profile bits.                                       *)
(***************************************************************************)
EXTENDS Integers, SequencesExt

Meet(a, n, b, m) == a < b + m /\ b < a + n

\* The length of a device extent of a chunk.  Mutant: the parity stripe of
\* RAID5 is counted as data.
calc_stripe_length_Parity(flags, length, n) ==
    IF "RAID0" \in flags THEN length \div n
    ELSE IF "RAID10" \in flags THEN (length * 2) \div n
    ELSE IF "RAID5" \in flags THEN length \div n
    ELSE IF "RAID6" \in flags THEN length \div (n - 2)
    ELSE length
calc_stripe_length(flags, length, n) ==
    IF "RAID0" \in flags THEN length \div n
    ELSE IF "RAID10" \in flags THEN (length * 2) \div n
    ELSE IF "RAID5" \in flags THEN length \div (n - 1)
    ELSE IF "RAID6" \in flags THEN length \div (n - 2)
    ELSE length

\* check_chunk_refs: the block group and the device extents that are the
\* chunk's own; ok when all are there.
OwnGroup(c, groups) ==
    {b \in groups : c.length = b.offset /\ c.offset = b.objectid /\ c.flags = b.flags}
StripeExtent(c, i, extents) ==
    {d \in extents : /\ d.objectid = c.stripes[i].devid /\ d.offset = c.stripes[i].offset
                     /\ d.chunk_offset = c.offset
                     /\ d.length = calc_stripe_length(c.flags, c.length, Len(c.stripes))}
OwnExtents(c, extents) == UNION {StripeExtent(c, i, extents) : i \in 1 .. Len(c.stripes)}
check_chunk_refs(c, groups, extents) ==
    /\ OwnGroup(c, groups) # {}
    /\ \A i \in 1 .. Len(c.stripes) : StripeExtent(c, i, extents) # {}

\* check_chunks: good and bad chunks, and the block groups and device extents
\* no chunk took off their lists.
Orphans(chunks, groups) == groups \ UNION {OwnGroup(c, groups) : c \in chunks}
NoChunk(chunks, extents) == extents \ UNION {OwnExtents(c, extents) : c \in chunks}
ChunksRet_First(good, chunks, groups, extents) == IF good = chunks THEN 0 ELSE -1
ChunksRet(good, chunks, groups, extents) ==
    IF good # chunks THEN -1
    ELSE IF Orphans(chunks, groups) # {} \/ NoChunk(chunks, extents) # {} THEN 1 ELSE 0
check_chunks(chunks, groups, extents) ==
    LET good == {c \in chunks : check_chunk_refs(c, groups, extents)} IN
    [ret |-> ChunksRet(good, chunks, groups, extents),
     good |-> good, bad |-> chunks \ good,
     orphans |-> Orphans(chunks, groups), no_chunk |-> NoChunk(chunks, extents)]

\* check_device_used and check_devices: the extents of a device add up to its
\* bytes_used, and every extent has a device.
Total(S) == FoldSet(LAMBDA d, sum : d.length + sum, 0, S)
check_device_used(d, extents) == d.byte_used = Total({x \in extents : x.objectid = d.devid})
check_devices(devices, extents) ==
    /\ \A d \in devices : check_device_used(d, extents)
    /\ \A x \in extents : \E d \in devices : d.devid = x.objectid
=============================================================================

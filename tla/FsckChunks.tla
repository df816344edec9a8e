----------------------------- MODULE FsckChunks -----------------------------
(***************************************************************************)
(* btrfs check: the chunk, block group, device extent and device items are *)
(* collected while the trees are scanned, then compared (cmds-check.c).    *)
(***************************************************************************)
EXTENDS ChunkRecords

CONSTANT Worlds     \* of [chunks, groups, extents, devices], sequences of items

VARIABLES todo,     \* the items not scanned yet
          found,    \* the caches: [chunks, groups, extents, devices], sets
          result    \* of check_chunks and check_devices, <<>> before
vars == <<todo, found, result>>

\* insert_cache_extent, insert_cache_extent2 and rb_insert: a record that meets
\* one already there is left out, and run_next_block does not look at the error.
process_chunk_item(cache, r) ==
    IF \E c \in cache : Meet(c.offset, c.length, r.offset, r.length) THEN cache ELSE cache \cup {r}
process_block_group_item(cache, r) ==
    IF \E b \in cache : Meet(b.objectid, b.offset, r.objectid, r.offset) THEN cache ELSE cache \cup {r}
process_device_extent_item(cache, r) ==
    IF \E d \in cache : d.objectid = r.objectid /\ Meet(d.offset, d.length, r.offset, r.length)
    THEN cache ELSE cache \cup {r}
process_device_item(cache, r) == IF \E d \in cache : d.devid = r.devid THEN cache ELSE cache \cup {r}

-----------------------------------------------------------------------------
Empty == [chunks |-> {}, groups |-> {}, extents |-> {}, devices |-> {}]
Init == todo \in Worlds /\ found = Empty /\ result = <<>>

Process(kind, cache, r) ==
    CASE kind = "chunks" -> process_chunk_item(cache, r)
      [] kind = "groups" -> process_block_group_item(cache, r)
      [] kind = "extents" -> process_device_extent_item(cache, r)
      [] kind = "devices" -> process_device_item(cache, r)

\* The items of a tree come in its order, the trees in any order.
scan_item ==
    \E kind \in DOMAIN todo :
       /\ todo[kind] # <<>>
       /\ todo' = [todo EXCEPT ![kind] = Tail(@)]
       /\ found' = [found EXCEPT ![kind] = Process(kind, @, Head(todo[kind]))]
       /\ UNCHANGED result

\* The end of check_chunks_and_extents.
CheckAll ==
    /\ result = <<>> /\ \A kind \in DOMAIN todo : todo[kind] = <<>>
    /\ result' = <<check_chunks(found.chunks, found.groups, found.extents).ret,
                   check_devices(found.devices, found.extents)>>
    /\ UNCHANGED <<todo, found>>

Next == scan_item \/ CheckAll
Spec == Init /\ [][Next]_vars

-----------------------------------------------------------------------------
(* Properties *)

\* The space a chunk promises and the space it takes: check passes exactly when
\* the records fit together in both directions.  Said without the lists and
\* lookups of the code: the block groups are the chunks, and the device extents
\* are the stripes, each as long as the profile makes it.
DataStripes(c) == LET n == Len(c.stripes) IN
                  CASE "RAID0" \in c.flags -> n [] "RAID10" \in c.flags -> n \div 2
                    [] "RAID5" \in c.flags -> n - 1 [] "RAID6" \in c.flags -> n - 2 [] OTHER -> 1
StripesOf(c) == {[objectid |-> c.stripes[i].devid, offset |-> c.stripes[i].offset,
                  chunk_offset |-> c.offset, length |-> c.length \div DataStripes(c)] : i \in 1 .. Len(c.stripes)}
ChunkVerdictIsRight ==
    result # <<>> =>
       (result[1] = 0) = (/\ found.groups = {[objectid |-> c.offset, offset |-> c.length, flags |-> c.flags] : c \in found.chunks}
                          /\ found.extents = UNION {StripesOf(c) : c \in found.chunks})

\* On every device the stripes of the chunks fill exactly what its item says is
\* used, when both checks pass.
DeviceSpaceIsChunks ==
    result = <<0, TRUE>> =>
       \A d \in found.devices :
          d.byte_used = Total({x \in UNION {StripesOf(c) : c \in found.chunks} : x.objectid = d.devid})

-----------------------------------------------------------------------------
\* The instance TLC checks: chunk, block group, device extent and device items,
\* consistent or with one slip.

Ch(o, n, fl, st) == [offset |-> o, length |-> n, flags |-> fl, stripes |-> [i \in 1 .. Len(st) |-> [devid |-> st[i][1], offset |-> st[i][2]]]]
Bg(o, n, fl) == [objectid |-> o, offset |-> n, flags |-> fl]
De(d, o, c, n) == [objectid |-> d, offset |-> o, chunk_offset |-> c, length |-> n]
Dv(d, u) == [devid |-> d, byte_used |-> u]
Sets == {
  << <<Ch(0, 4, {"DATA"}, <<<<1, 0>>>>), Ch(4, 4, {"METADATA", "DUP"}, <<<<1, 4>>, <<1, 8>>>>)>> >>,
  << <<Ch(0, 4, {"DATA", "RAID0"}, <<<<1, 0>>, <<2, 0>>>>), Ch(4, 4, {"METADATA", "RAID1"}, <<<<1, 2>>, <<2, 2>>>>)>> >>,
  << <<Ch(0, 4, {"DATA", "RAID5"}, <<<<1, 0>>, <<2, 0>>, <<3, 0>>>>)>> >>,
  << <<Ch(0, 4, {"DATA", "RAID6"}, <<<<1, 0>>, <<2, 0>>, <<3, 0>>, <<4, 0>>>>)>> >>,
  << <<Ch(0, 4, {"DATA", "RAID10"}, <<<<1, 0>>, <<2, 0>>, <<3, 0>>, <<4, 0>>>>)>> >>}
Bgs(cs) == [i \in 1 .. Len(cs) |-> Bg(cs[i].offset, cs[i].length, cs[i].flags)]
RECURSIVE Des(_)
Des(cs) == IF cs = <<>> THEN <<>> ELSE
   LET c == Head(cs) IN [i \in 1 .. Len(c.stripes) |-> De(c.stripes[i].devid, c.stripes[i].offset, c.offset, c.length \div DataStripes(c))] \o Des(Tail(cs))
Devs(ds) == LET ids == {ds[i].objectid : i \in DOMAIN ds} IN
            [i \in 1 .. Cardinality(ids) |-> Dv(i, Total({ds[j] : j \in {k \in DOMAIN ds : ds[k].objectid = i}}))]
Good(cs) == [chunks |-> cs, groups |-> Bgs(cs), extents |-> Des(cs), devices |-> Devs(Des(cs))]
Slips(w) ==
   {w} \cup {[w EXCEPT ![k] = SubSeq(@, 2, Len(@))] : k \in DOMAIN w}
   \cup {[w EXCEPT ![k] = SubSeq(@, 1, Len(@) - 1)] : k \in DOMAIN w}
   \cup {[w EXCEPT !.extents[1].length = n] : n \in {1, 3}}
   \cup {[w EXCEPT !.extents[1].chunk_offset = 4], [w EXCEPT !.groups[1].flags = {"DATA", "DUP"}], [w EXCEPT !.groups[1].offset = 3],
         [w EXCEPT !.chunks[1].stripes[1].offset = 2], [w EXCEPT !.devices[1].byte_used = @ + 1],
         [w EXCEPT !.chunks = @ \o <<[@[1] EXCEPT !.length = 3]>>],
         [w EXCEPT !.extents = @ \o <<De(1, 13, 7, 2)>>, !.devices[1].byte_used = @ + 2]}
MCWorlds == UNION {Slips(Good(s[1])) : s \in Sets}
=============================================================================

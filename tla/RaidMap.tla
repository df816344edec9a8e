------------------------------ MODULE RaidMap ------------------------------
(***************************************************************************)
(* From logical addresses to devices (volumes.c, disk-io.c, extent_io.c,   *)
(* raid6.c): where the copies, stripes and parities of a block are, how    *)
(* blocks are written to them and read back, and which addresses are kept  *)
(* from the allocator because a super block lies under them.               *)
(*                                                                         *)
(* Addresses count sectors. A place is <<device, sector>>; disk holds one  *)
(* byte per place, which stands for all bytes of the sector. A world is    *)
(* [chunks, devs, sectors, leafsize, supers, writes]: the mapping cache,   *)
(* the devices and their size, the size of tree blocks, the sectors of     *)
(* super blocks on each device and a bound on the writes. A chunk is       *)
(* [start, size, type, sub, stripes], stripes the places where its stripes *)
(* start.                                                                  *)
(***************************************************************************)
EXTENDS Integers, SequencesExt, TLC, Bitwise

CONSTANTS Worlds, STRIPE_LEN, MaxCrashes

VARIABLES world,     \* the file system: does not change
          disk,      \* [place -> byte]
          eb,        \* what is left to write, of which addresses, of which full stripe
          ios,       \* the device writes of the piece being written
          want,      \* [address -> byte] of what is known to be written
          sound,     \* full stripes whose write was not cut short
          writes, crashes
vars == <<world, disk, eb, ios, want, sound, writes, crashes>>

Super == 255             \* what the sector of a super block holds
Garbage == 201           \* what a device holds where nothing was written
Unknown == -1
NoData == [start |-> 0, data |-> <<>>, tree |-> FALSE, of |-> {}, row |-> -1]
P_STRIPE == 10000        \* BTRFS_RAID5_P_STRIPE, above every address
Q_STRIPE == 10001

Is56(c) == c.type \in {"raid5", "raid6"}
nr_parity_stripes(c) == IF c.type = "raid6" THEN 2 ELSE IF c.type = "raid5" THEN 1 ELSE 0
num_stripes(c) == Len(c.stripes)
nr_data_stripes(c) == num_stripes(c) - nr_parity_stripes(c)

\* search_cache_extent: the chunk at the address or the next one behind it.
search_cache_extent(logical) ==
    LET behind == {c \in world.chunks : c.start + c.size > logical} IN
    {c \in behind : \A e \in behind : c.start <= e.start}

btrfs_num_copies(c) ==
    CASE c.type \in {"dup", "raid1"} -> num_stripes(c)
      [] c.type = "raid10" -> c.sub
      [] c.type = "raid5" -> 2
      [] c.type = "raid6" -> 3
      [] OTHER -> 1

\* sort_parity_stripes: data stripes in the order of their addresses, P, Q.
sort_parity_stripes(stripes) == SortSeq(stripes, LAMBDA a, b : a.logical < b.logical)

\* The number of the stripe in the chunk's list at which the access starts, and
\* the number of rows before it.
Mirror(mirror, default) == IF mirror > 0 THEN mirror - 1 ELSE default
StripeIndex(c, nr, write, mirror) ==
    CASE c.type = "raid1" -> IF write THEN 0 ELSE Mirror(mirror, nr % num_stripes(c))
      [] c.type = "dup" -> IF write THEN 0 ELSE Mirror(mirror, 0)
      [] c.type = "raid10" -> (nr % (num_stripes(c) \div c.sub)) * c.sub + (IF write THEN 0 ELSE Mirror(mirror, 0))
      [] Is56(c) -> ((nr \div nr_data_stripes(c)) +
                     (IF mirror > 1 THEN nr_data_stripes(c) + mirror - 2 ELSE nr % nr_data_stripes(c)))
                    % num_stripes(c)
      [] OTHER -> nr % num_stripes(c)
Row(c, nr) ==
    CASE c.type \in {"raid1", "dup"} -> nr
      [] c.type = "raid10" -> nr \div (num_stripes(c) \div c.sub)
      [] Is56(c) -> nr \div nr_data_stripes(c)
      [] OTHER -> nr \div num_stripes(c)
At(c, index, row, off) ==
    LET s == c.stripes[index + 1] IN <<s[1], s[2] + off + row * STRIPE_LEN>>

\* The stripes of a full stripe with their addresses.  The list starts one device
\* further in every row.
Rotation(c, row) == row % num_stripes(c)
FullStripe(c, row) ==
    LET n == nr_data_stripes(c)
        of(i) == (i + num_stripes(c) - Rotation(c, row)) % num_stripes(c)
        address(i) == CASE of(i) < n -> c.start + (row * n + of(i)) * STRIPE_LEN
                        [] of(i) = n -> P_STRIPE
                        [] OTHER -> Q_STRIPE
    IN  [i \in 1 .. num_stripes(c) |-> [logical |-> address(i - 1), at |-> At(c, i - 1, row, 0)]]

\* __btrfs_map_block: how far the mapping goes and the places of the first
\* sector; of all stripes, sorted, when blocks with parity are written.
ENOENT == [ret |-> -2, length |-> 0, raid |-> FALSE, stripes |-> <<>>]
btrfs_map_block(write, logical, mirror) ==
    LET ce == search_cache_extent(logical) IN
    IF \A c \in ce : c.start > logical THEN ENOENT
    ELSE LET c == CHOOSE x \in ce : TRUE
             offset == logical - c.start
             nr == offset \div STRIPE_LEN
             rest == Min({c.size - offset, STRIPE_LEN - (offset % STRIPE_LEN)})
             first == StripeIndex(c, nr, write, mirror)
             count == IF ~write THEN 1 ELSE IF c.type \in {"raid1", "dup"} THEN num_stripes(c)
                      ELSE IF c.type = "raid10" THEN c.sub ELSE 1
         IN  IF write /\ Is56(c)
             THEN [ret |-> 0, length |-> STRIPE_LEN, raid |-> TRUE,
                   stripes |-> sort_parity_stripes(FullStripe(c, offset \div (nr_data_stripes(c) * STRIPE_LEN)))]
             ELSE [ret |-> 0, length |-> IF c.type = "single" THEN c.size - offset ELSE rest, raid |-> FALSE,
                   stripes |-> [i \in 1 .. count |-> [logical |-> logical,
                                at |-> At(c, first + i - 1, Row(c, nr), offset % STRIPE_LEN)]]]

\* read_extent_from_disk: consecutive sectors of a device.
ReadDevice(at, len) == [i \in 1 .. len |-> disk[<<at[1], at[2] + i - 1>>]]

\* read_whole_eb and read_data_from_disk: piece by piece, as far as each mapping
\* goes.  An address without a chunk gives EIO.
EIO == <<>>
RECURSIVE ReadRange(_, _, _)
ReadRange(start, len, mirror) ==
    IF len = 0 THEN <<>>
    ELSE LET m == btrfs_map_block(FALSE, start, mirror)
             n == Min({m.length, len})
         IN  IF m.ret # 0 THEN EIO ELSE ReadDevice(m.stripes[1].at, n) \o ReadRange(start + n, len - n, mirror)

-----------------------------------------------------------------------------
(* Writing *)

\* split_eb_for_raid56 and rmw_eb: the data stripes of the row with the new data
\* in it; what the block does not cover is read.
\* Mutant: a stripe that the block does not reach is not read.
split_eb_for_raid56_Blank(start, data, s) ==
    LET old == ReadRange(s, STRIPE_LEN, 0)
        apart == s + STRIPE_LEN <= start \/ start + Len(data) <= s
    IN  [i \in 1 .. STRIPE_LEN |->
            IF apart THEN 0
            ELSE IF s + i - 1 \in start .. start + Len(data) - 1 THEN data[s + i - start] ELSE old[i]]
split_eb_for_raid56(start, data, s) ==
    LET old == ReadRange(s, STRIPE_LEN, 0) IN
    [i \in 1 .. STRIPE_LEN |->
        IF s + i - 1 \in start .. start + Len(data) - 1 THEN data[s + i - start] ELSE old[i]]

\* raid6_gen_syndrome, sector by sector: MASK and SHLBYTE multiply by two in the
\* field of 256 elements.
SHLBYTE(v) == (2 * v) % 256
MASK(v) == IF v >= 128 THEN 255 ELSE 0
Twice(v) == SHLBYTE(v) ^^ (MASK(v) & 29)
XorAll(q) == FoldSeq(LAMBDA d, p : p ^^ d, 0, q)
raid6_gen_syndrome(q) ==
    LET wq[z \in 1 .. Len(q)] == IF z = Len(q) THEN q[z] ELSE Twice(wq[z + 1]) ^^ q[z] IN wq[1]

\* write_raid56_with_parity: all stripes of the row are written, parities last.
write_raid56_with_parity(start, data, stripes) ==
    LET n == Cardinality({i \in DOMAIN stripes : stripes[i].logical < P_STRIPE})
        ebs == [i \in 1 .. n |-> split_eb_for_raid56(start, data, stripes[i].logical)]
        column(k) == [i \in 1 .. n |-> ebs[i][k]]
    IN  [i \in DOMAIN stripes |->
            [at |-> stripes[i].at,
             data |-> IF i <= n THEN ebs[i]
                      ELSE [k \in 1 .. STRIPE_LEN |->
                              IF stripes[i].logical = P_STRIPE THEN XorAll(column(k))
                              ELSE raid6_gen_syndrome(column(k))]]]

\* write_and_map_eb sends the whole block to every place of its first sector,
\* write_data_to_disk what the mapping covers, a tree block at a time when there
\* is parity.
PieceLen(m) ==
    IF eb.tree THEN Len(eb.data)
    ELSE Min({m.length, Len(eb.data)} \cup (IF m.raid THEN {world.leafsize} ELSE {}))
MapPiece ==
    /\ eb.data # <<>> /\ ios = <<>>
    /\ LET m == btrfs_map_block(TRUE, eb.start, 0)
           n == PieceLen(m)
           piece == SubSeq(eb.data, 1, n)
           row == IF m.raid THEN m.stripes[1].logical ELSE -1
       IN  /\ ios' = IF m.raid THEN write_raid56_with_parity(eb.start, piece, m.stripes)
                     ELSE [i \in DOMAIN m.stripes |-> [at |-> m.stripes[i].at, data |-> piece]]
           /\ eb' = [eb EXCEPT !.start = @ + n, !.data = SubSeq(@, n + 1, Len(@)), !.row = row]
           /\ sound' = sound \ {row}
    /\ UNCHANGED <<world, disk, want, writes, crashes>>

\* write_extent_to_disk and pwrite, of which a crash may leave a part.
Written(io, n) ==
    LET to == {<<io.at[1], io.at[2] + i - 1>> : i \in 1 .. n} IN
    [p \in DOMAIN disk |-> IF p \in to THEN io.data[p[2] - io.at[2] + 1] ELSE disk[p]]
Byte(n, l) == 16 * n + (l % 16)
write_extent_to_disk ==
    /\ ios # <<>>
    /\ disk' = Written(Head(ios), Len(Head(ios).data))
    /\ ios' = Tail(ios)
    /\ sound' = IF ios' = <<>> THEN sound \cup ({eb.row} \ {-1}) ELSE sound
    /\ IF ios' = <<>> /\ eb.data = <<>>
       THEN /\ want' = [l \in DOMAIN want |-> IF l \in eb.of THEN Byte(writes, l) ELSE want[l]]
            /\ eb' = NoData
       ELSE UNCHANGED <<want, eb>>
    /\ UNCHANGED <<world, writes, crashes>>

\* The process ends in the middle of a write.
Crash ==
    /\ ios # <<>> /\ crashes < MaxCrashes
    /\ \E n \in 0 .. Len(Head(ios).data) - 1 : disk' = Written(Head(ios), n)
    /\ eb' = NoData /\ ios' = <<>> /\ crashes' = crashes + 1
    /\ UNCHANGED <<world, want, sound, writes>>

-----------------------------------------------------------------------------
(* The addresses the allocator may use *)

\* btrfs_rmap_block: the addresses of the stripes a sector of any device is in;
\* with parity those of the full stripe.
RmapLen(c) == IF Is56(c) THEN STRIPE_LEN * nr_data_stripes(c) ELSE STRIPE_LEN
DeviceLength(c) ==
    CASE c.type = "raid10" -> c.size \div (num_stripes(c) \div c.sub)
      [] c.type = "raid0" -> c.size \div num_stripes(c)
      [] Is56(c) -> c.size \div nr_data_stripes(c)
      [] OTHER -> c.size
RmapNr(c, i, nr) ==
    CASE c.type = "raid10" -> (nr * num_stripes(c) + i) \div c.sub
      [] c.type = "raid0" -> nr * num_stripes(c) + i
      [] OTHER -> nr
btrfs_rmap_block(c, physical) ==
    {c.start + RmapLen(c) * RmapNr(c, i - 1, (physical - c.stripes[i][2]) \div STRIPE_LEN) :
        i \in {j \in DOMAIN c.stripes : physical \in c.stripes[j][2] .. c.stripes[j][2] + DeviceLength(c) - 1}}

\* remove_sb_from_cache
remove_sb_from_cache(c) ==
    (c.start .. c.start + c.size - 1) \
        UNION {l .. l + RmapLen(c) - 1 : l \in UNION {btrfs_rmap_block(c, s) : s \in world.supers}}
Usable == UNION {remove_sb_from_cache(c) : c \in world.chunks}

\* A tree block, at a multiple of its size, or several blocks in a row that
\* btrfs-image restores at once.
IsBlock(l) == \E c \in world.chunks : l >= c.start /\ l < c.start + c.size /\ (l - c.start) % world.leafsize = 0
Begin(l, len, tree) ==
    /\ eb = NoData /\ writes < world.writes
    /\ IsBlock(l) /\ l .. l + len - 1 \subseteq Usable
    /\ writes' = writes + 1
    /\ eb' = [start |-> l, data |-> [i \in 1 .. len |-> Byte(writes', l + i - 1)], tree |-> tree,
              of |-> l .. l + len - 1, row |-> -1]
    /\ want' = [a \in DOMAIN want |-> IF a \in eb'.of THEN Unknown ELSE want[a]]
    /\ UNCHANGED <<world, disk, ios, sound, crashes>>
write_and_map_eb == \E l \in Usable : Begin(l, world.leafsize, TRUE)
write_data_to_disk == \E l \in Usable : \E n \in 2 .. 3 : Begin(l, n * world.leafsize, FALSE)

Init ==
    /\ world \in Worlds
    /\ disk = [p \in world.devs \X (0 .. world.sectors - 1) |-> IF p[2] \in world.supers THEN Super ELSE Garbage]
    /\ eb = NoData /\ ios = <<>> /\ sound = {} /\ writes = 0 /\ crashes = 0
    /\ want = [l \in UNION {c.start .. c.start + c.size - 1 : c \in world.chunks} |-> Unknown]
Next == write_and_map_eb \/ write_data_to_disk \/ MapPiece \/ write_extent_to_disk \/ Crash
Spec == Init /\ [][Next]_vars

-----------------------------------------------------------------------------
(* Properties *)

\* What was written is read back, from every copy and in pieces of any length,
\* while other blocks are written and after a write was cut short: rewriting the
\* other stripes of a row never changes them.
Mirrors(c) == IF Is56(c) THEN 0 .. 1 ELSE 0 .. btrfs_num_copies(c)
ReadsBack ==
    \A c \in world.chunks : \A l \in c.start .. c.start + c.size - 1 : \A len \in 1 .. 2 * STRIPE_LEN :
        l + len <= c.start + c.size /\ (\A a \in l .. l + len - 1 : want[a] # Unknown) =>
            \A m \in Mirrors(c) : ReadRange(l, len, m) = [i \in 1 .. len |-> want[l + i - 1]]

\* Once the last write to a full stripe has ended, copies 2 and 3 as the readers
\* map them are its P and Q, also after an earlier write was cut short: the sum of
\* the data stripes, and their sum weighted with the powers of two, in the field of
\* 256 elements (x^8 + x^4 + x^3 + x^2 + 1).
Double(v) == IF v < 128 THEN 2 * v ELSE (2 * v) ^^ 285
Weighted(n, v) == LET w[k \in 0 .. n] == IF k = 0 THEN v ELSE Double(w[k - 1]) IN w[n]
ParityHolds ==
    \A c \in world.chunks : \A s \in sound \cap (c.start .. c.start + c.size - 1) : \A k \in 0 .. STRIPE_LEN - 1 :
        LET n == nr_data_stripes(c)
            d == [i \in 1 .. n |-> ReadRange(s + (i - 1) * STRIPE_LEN + k, 1, 0)[1]]
        IN  /\ ReadRange(s + k, 1, 2)[1] = XorAll(d)
            /\ c.type = "raid6" =>
                  ReadRange(s + k, 1, 3)[1] = XorAll([i \in 1 .. n |-> Weighted(i - 1, d[i])])

\* No write reaches a super block.
SupersKept == \A p \in DOMAIN disk : p[2] \in world.supers => disk[p] = Super

\* The copies of a mirrored address are on different devices.
MirrorsApart ==
    \A c \in {x \in world.chunks : x.type \in {"raid1", "raid10"}} : \A l \in c.start .. c.start + c.size - 1 :
        \A m, n \in 1 .. btrfs_num_copies(c) : m # n =>
            btrfs_map_block(FALSE, l, m).stripes[1].at[1] # btrfs_map_block(FALSE, l, n).stripes[1].at[1]

-----------------------------------------------------------------------------
(* The instance TLC checks: every profile, with a super block under the first *)
(* or second row and stripes at different sectors of their devices.           *)

Chunk(start, size, type, sub, stripes) ==
    [start |-> start, size |-> size, type |-> type, sub |-> sub, stripes |-> stripes]
World(chunks, devs, leafsize, supers, writes_) ==
    [chunks |-> chunks, writes |-> writes_, devs |-> devs, sectors |-> 14, leafsize |-> leafsize, supers |-> supers]
MCWorlds ==
    {World({Chunk(0, 6, "single", 1, <<<<1, 2>>>>), Chunk(6, 8, "raid0", 1, <<<<1, 8>>, <<2, 4>>>>)}, 1 .. 2, 1, {4}, 2),
     World({Chunk(0, 6, "dup", 1, <<<<1, 0>>, <<1, 6>>>>)}, {1}, 2, {2}, 2),
     World({Chunk(4, 8, "raid1", 1, <<<<1, 0>>, <<2, 6>>>>)}, 1 .. 2, 1, {2, 13}, 2),
     World({Chunk(0, 8, "raid10", 2, <<<<1, 0>>, <<2, 2>>, <<3, 4>>, <<4, 6>>>>)}, 1 .. 4, 1, {1}, 2),
     World({Chunk(0, 8, "raid5", 1, <<<<1, 0>>, <<2, 2>>>>)}, 1 .. 2, 2, {2}, 3),
     World({Chunk(0, 12, "raid5", 1, <<<<1, 0>>, <<2, 4>>, <<3, 4>>>>)}, 1 .. 3, 1, {8}, 2),
     World({Chunk(0, 18, "raid6", 1, <<<<1, 2>>, <<2, 2>>, <<3, 2>>, <<4, 8>>, <<5, 2>>>>)}, 1 .. 5, 2, {4}, 2)}
=============================================================================

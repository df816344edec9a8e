---------------------------- MODULE MCChunkAlloc ----------------------------
(* Instances of ChunkAlloc for TLC.  Sizes are in units of 16 KiB.          *)
EXTENDS ChunkAlloc

Ty(k, p) == [kind |-> k, profile |-> p]
Ch(s, n, t, st) == [start |-> s, length |-> n, type |-> t, stripes |-> st]

Setup(sizes, devs, cs, types, data, max, reopens) ==
    [sizes |-> sizes, devs |-> devs, chunks |-> cs, types |-> types, data |-> data,
     max |-> max, reopens |-> reopens]

\* What make_btrfs leaves on the first device: one system chunk of 4 MiB.
MkfsChunks == {Ch(0, 4 * MB, Ty("system", "single"), <<<<1, 0>>>>)}

\* mkfs on three devices of different sizes: mixes of all the profiles that
\* fit, on a file system where chunks are a few MiB.
SmallSizes == <<40 * MB, 12 * MB, 20 * MB>>
MkfsTypes == {Ty("system", "raid1"), Ty("system", "dup"), Ty("data", "single"), Ty("system", "raid0")}

Small == Setup(SmallSizes, 1, MkfsChunks, MkfsTypes, {8 * MB}, 4, TRUE)

\* Four devices, parity and mirrored stripes.
RaidSizes == <<24 * MB, 16 * MB, 6 * MB, 20 * MB>>
RaidTypes == {Ty("system", "raid10"), Ty("system", "raid5"), Ty("system", "raid6")}
Raid == Setup(RaidSizes, 4, MkfsChunks, RaidTypes, {}, 7, FALSE)

\* A device of 80 MiB on which the kernel deleted chunks: 4 MiB holes.
HolesChunks == MkfsChunks \cup
    {Ch(4 * MB + 4 * MB * i, 4 * MB, Ty("data", "single"), <<<<1, 8 * MB * i>>>>) : i \in 1 .. 9}
Holes == {Setup(<<80 * MB>>, 1, HolesChunks, {Ty("data", "single")}, {}, 12, FALSE)}

\* Three devices with holes of 3 MiB and an array with room for one chunk.
FullSizes == <<72 * MB, 72 * MB, 72 * MB>>
FullChunks == {Ch(6 * MB * i, 6 * MB, Ty("system", "raid0"), [d \in 1 .. 3 |-> <<d, (4 + 5 * i) * MB>>])
               : i \in 0 .. 10}
FullTypes == {Ty("system", "raid0"), Ty("system", "dup"), Ty("data", "single")}
Full == Setup(FullSizes, 3, FullChunks, FullTypes, {}, 14, TRUE)

MCSetups == {Small, Raid, Full}

ThreeChunks == {Ch(0, 3 * MB, Ty("system", "raid0"), <<<<1, MB>>, <<2, MB>>, <<3, MB>>>>)}
Three == {Setup(<<128 * MB, 128 * MB, 128 * MB>>, 3, ThreeChunks, {Ty("system", "raid0")}, {}, 16, FALSE)}
TwoChunks == {Ch(0, MB, Ty("system", "raid1"), <<<<1, MB>>, <<2, MB>>>>)}
Two == {Setup(<<200 * MB, 200 * MB>>, 2, TwoChunks, {Ty("system", "raid1")}, {}, 17, FALSE)}
=============================================================================

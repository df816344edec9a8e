------------------------------- MODULE MCFsck -------------------------------
(* The programs that check and rescue a file system for TLC: btrfs check,   *)
(* rescue chunk-recover and super-recover, the cache of tree blocks they    *)
(* read through, and the end of a btrfs scrub.  Each is checked by itself:  *)
(* part says which of them a behaviour is about, and v1 .. v13 are its      *)
(* variables.                                                               *)
EXTENDS Integers

VARIABLES part, v1, v2, v3, v4, v5, v6, v7, v8, v9, v10, v11, v12, v13
vars == <<part, v1, v2, v3, v4, v5, v6, v7, v8, v9, v10, v11, v12, v13>>
Spare == <<v10, v11, v12, v13>>

IW == INSTANCE FsckInodes WITH Forests <- {}, RootDir <- 1, forest <- v1, shared <- v2, results <- v3
I == INSTANCE FsckInodes WITH Forests <- IW!MCForests, RootDir <- 1, forest <- v1, shared <- v2, results <- v3

RW == INSTANCE FsckRoots WITH Worlds <- {}, FsTree <- 5, TreeReloc <- 9,
        world <- v1, slot <- v2, root_cache <- v3, reported <- v4
R == INSTANCE FsckRoots WITH Worlds <- RW!MCWorlds, FsTree <- 5, TreeReloc <- 9,
        world <- v1, slot <- v2, root_cache <- v3, reported <- v4

EW == INSTANCE FsckExtents WITH Worlds <- {},
        fs <- v1, items <- v2, sc <- v3, ec <- v4, pc <- v5, err <- v6, passes <- v7
E == INSTANCE FsckExtents WITH Worlds <- EW!MCWorlds,
        fs <- v1, items <- v2, sc <- v3, ec <- v4, pc <- v5, err <- v6, passes <- v7

SW == INSTANCE FsckSpace WITH Worlds <- {}, BITS_PER_BITMAP <- 4, SUPER_INFO_OFFSET <- 1,
        world <- v1, group <- v2, bad_groups <- v3, bad_runs <- v4, pc <- v5
S == INSTANCE FsckSpace WITH Worlds <- SW!MCWorlds, BITS_PER_BITMAP <- 4, SUPER_INFO_OFFSET <- 1,
        world <- v1, group <- v2, bad_groups <- v3, bad_runs <- v4, pc <- v5

CW == INSTANCE FsckChunks WITH Worlds <- {}, todo <- v1, found <- v2, result <- v3
C == INSTANCE FsckChunks WITH Worlds <- CW!MCWorlds, todo <- v1, found <- v2, result <- v3

KW == INSTANCE ChunkRecover WITH Worlds <- {}, world <- v1, todo <- v2, pending <- v3, found <- v4,
        eb_cache <- v5, lists <- v6, disk <- v7, pc <- v8
K == INSTANCE ChunkRecover WITH Worlds <- KW!MCWorlds, world <- v1, todo <- v2, pending <- v3, found <- v4,
        eb_cache <- v5, lists <- v6, disk <- v7, pc <- v8

MW == INSTANCE FsckCommand WITH Worlds <- {}, MaxAllocs <- 3, world <- v1, pinned <- v2, given <- v3,
        in_place <- v4, dropped <- v5, pc <- v6, ret <- v7, recow_ebs <- v8, reported <- v9
M == INSTANCE FsckCommand WITH Worlds <- MW!MCWorlds, MaxAllocs <- 3, world <- v1, pinned <- v2, given <- v3,
        in_place <- v4, dropped <- v5, pc <- v6, ret <- v7, recow_ebs <- v8, reported <- v9

BW == INSTANCE MCSuperBlocks WITH Devs <- {}, Setups <- {}, MaxGen <- 3, fs <- v1, disk <- v2, pc <- v3,
        super_copy <- v4, mirror <- v5, devices <- v6, dev <- v7, next <- v8, todo <- v9, tool <- v10,
        result <- v11, source <- v12, newest <- v13
B == INSTANCE SuperBlocks WITH Devs <- BW!MCDevs, Setups <- BW!MCSetups, MaxGen <- 3, fs <- v1, disk <- v2, pc <- v3,
        super_copy <- v4, mirror <- v5, devices <- v6, dev <- v7, next <- v8, todo <- v9, tool <- v10,
        result <- v11, source <- v12, newest <- v13

TW == INSTANCE BufferCache WITH Worlds <- {}, SoftMax <- 2, HardMax <- 3, ScanMax <- 1, MaxHeld <- 1, MaxTrans <- 5,
        world <- v1, disk <- v2, want <- v3, bufs <- v4, lru <- v5, held <- v6, pinned <- v7, transid <- v8,
        last <- v9, hang <- v10
T == INSTANCE BufferCache WITH Worlds <- TW!MCWorlds, SoftMax <- 2, HardMax <- 3, ScanMax <- 1, MaxHeld <- 1,
        MaxTrans <- 5, world <- v1, disk <- v2, want <- v3, bufs <- v4, lru <- v5, held <- v6, pinned <- v7,
        transid <- v8, last <- v9, hang <- v10

\* One scrub of two devices whose ioctls may fail.
D == INSTANCE Scrub WITH MaxDevs <- 2, FirstDevs <- 2, Size <- 1, MaxRuns <- 1, Fails <- TRUE, Crashes <- FALSE,
        ndev <- v1, file <- v2, main <- v3, sp <- v4, dev <- v5, prog <- v6, cancel <- v7, mutex <- v8,
        kernel <- v9, runs <- v10, checked <- v11, outcome <- v12, crashed <- v13

Is(p) == part = p /\ UNCHANGED part
Unused == v10 = 0 /\ v11 = 0 /\ v12 = 0 /\ v13 = 0
Init ==
    \/ part = "inodes" /\ I!Init /\ v4 = 0 /\ v5 = 0 /\ v6 = 0 /\ v7 = 0 /\ v8 = 0 /\ v9 = 0 /\ Unused
    \/ part = "roots" /\ R!Init /\ v5 = 0 /\ v6 = 0 /\ v7 = 0 /\ v8 = 0 /\ v9 = 0 /\ Unused
    \/ part = "extents" /\ E!Init /\ v8 = 0 /\ v9 = 0 /\ Unused
    \/ part = "space" /\ S!Init /\ v6 = 0 /\ v7 = 0 /\ v8 = 0 /\ v9 = 0 /\ Unused
    \/ part = "chunks" /\ C!Init /\ v4 = 0 /\ v5 = 0 /\ v6 = 0 /\ v7 = 0 /\ v8 = 0 /\ v9 = 0 /\ Unused
    \/ part = "recover" /\ K!Init /\ v9 = 0 /\ Unused
    \/ part = "command" /\ M!Init /\ Unused
    \/ part = "buffers" /\ T!Init /\ v11 = 0 /\ v12 = 0 /\ v13 = 0
    \/ part = "super" /\ B!Init
    \/ part = "scrub" /\ D!Init
Next ==
    \/ Is("inodes") /\ I!Next /\ UNCHANGED <<v4, v5, v6, v7, v8, v9, Spare>>
    \/ Is("roots") /\ R!Next /\ UNCHANGED <<v5, v6, v7, v8, v9, Spare>>
    \/ Is("extents") /\ E!Next /\ UNCHANGED <<v8, v9, Spare>>
    \/ Is("space") /\ S!Next /\ UNCHANGED <<v6, v7, v8, v9, Spare>>
    \/ Is("chunks") /\ C!Next /\ UNCHANGED <<v4, v5, v6, v7, v8, v9, Spare>>
    \/ Is("recover") /\ K!Next /\ UNCHANGED <<v9, Spare>>
    \/ Is("command") /\ M!Next /\ UNCHANGED Spare
    \/ Is("buffers") /\ T!Next /\ UNCHANGED <<v11, v12, v13>>
    \/ Is("super") /\ B!Next
    \/ Is("scrub") /\ D!Next
\* The threads of the scrub run, the kernel goes on, and a pending cancellation
\* is delivered.
FairSpec ==
    /\ Init /\ [][Next]_vars
    /\ WF_vars(Is("scrub") /\ D!MainStep) /\ WF_vars(Is("scrub") /\ D!ProgStep)
    /\ WF_vars(Is("scrub") /\ D!ProgCanceled)
    /\ \A d \in {1, 2} : WF_vars(Is("scrub") /\ D!DevStep(d)) /\ WF_vars(Is("scrub") /\ D!KernelStep(d))

-----------------------------------------------------------------------------
(* What the run checks: for each part the properties stated in its module. *)

\* FsckRoots: check_root_refs complains about exactly the wrong subvolumes, and
\* found_ref counts the names that still carry a subvolume.
RootsAreJudged == part = "roots" => R!RootsAreJudged /\ R!CountsAreNames
\* FsckExtents: the check complains exactly when extent items and trees differ,
\* in whatever order blocks, items and references are met.
ExtentsVerdictIsRight == part = "extents" => E!VerdictIsRight
\* FsckExtents: a repair carried through leaves the items of the trees, and no
\* repair undoes another.
ExtentsRepairIsComplete == part = "extents" => E!RepairIsComplete /\ E!RescansEnd
\* FsckSpace and FreeSpace: loading a free space cache yields the units written
\* in it, a cache is reported exactly when it is not the free space, and checksums
\* without an extent are reported.
SpaceVerdictIsRight == part = "space" => S!LoadIsExact /\ S!CacheVerdictIsRight /\ S!CsumVerdictIsRight
\* FsckChunks: chunks are reported exactly when the four kinds of item differ, and
\* a device that passes holds exactly the chunks' stripes.
ChunksVerdictIsRight == part = "chunks" => C!ChunkVerdictIsRight /\ C!DeviceSpaceIsChunks
\* BufferCache: references are those of the holders, what callers see passed the
\* checks, read_tree_block finds the copy the pointer names wherever it is and gives
\* a block up only for a reason, and the cache keeps its limit and its scan ends
\* unless a full cache is in use as a whole.
BuffersAreTheBlocks == part = "buffers" =>
    /\ T!RefsAccounted /\ T!UptodateIsSound /\ T!WantedIsFound /\ T!GivenUpForAReason
    /\ T!CacheBounded /\ T!ScanEnds
\* SuperBlocks: opening through any device and copy gives the newest commit, a
\* generation names one commit, and a commit that has returned is found.
SuperOpenSeesNewest == part = "super" =>
    B!TypeOK /\ B!OpenSeesNewest /\ B!GenerationNamesCommit /\ B!CommitVisible
\* SuperBlocks: after super-recover returned 2 nothing is left to recover, and where
\* it finds nothing bad all copies are the same.
SuperRecoverComplete == part = "super" => B!RecoverComplete /\ B!ValidMeansEqual
\* Scrub: every scrub comes to where all devices are joined and the progress
\* thread is gone.
ScrubDevicesEnd == (part = "scrub" /\ D!Spawning) ~> (part = "scrub" /\ D!Joined)
=============================================================================

------------------------------ MODULE MCTools ------------------------------
(* btrfs-image, btrfs send and receive, btrfs-convert, btrfs scrub, the     *)
(* sharing of tree blocks and the mapping of addresses to devices for TLC.  *)
(* They are separate programs, or separate layers: part says which of them  *)
(* a behaviour is about, and v1 .. v13 are its variables.                   *)
EXTENDS Integers

VARIABLES part, v1, v2, v3, v4, v5, v6, v7, v8, v9, v10, v11, v12, v13
vars == <<part, v1, v2, v3, v4, v5, v6, v7, v8, v9, v10, v11, v12, v13>>
Spare == <<v9, v10, v11, v12, v13>>

DW == INSTANCE ImageDump WITH Worlds <- {}, MAX_PENDING_SIZE <- 2, ITEMS_PER_CLUSTER <- 2,
        world <- v1, at <- v2, md <- v3, worker <- v4, out <- v5, pc <- v6, err <- v7
D == INSTANCE ImageDump WITH Worlds <- DW!MCWorlds, MAX_PENDING_SIZE <- 2, ITEMS_PER_CLUSTER <- 2,
        world <- v1, at <- v2, md <- v3, worker <- v4, out <- v5, pc <- v6, err <- v7

RW == INSTANCE ImageRestore WITH Worlds <- {}, world <- v1, cur <- v2, mdres <- v3, worker <- v4,
        disk <- v5, pc <- v6, ret <- v7, round <- v8
R == INSTANCE ImageRestore WITH Worlds <- RW!MCWorlds, world <- v1, cur <- v2, mdres <- v3, worker <- v4,
        disk <- v5, pc <- v6, ret <- v7, round <- v8

SW == INSTANCE SendReceive WITH Worlds <- {}, world <- v1, stream <- v2, snd <- v3, rcv <- v4, subvols <- v5
S == INSTANCE SendReceive WITH Worlds <- SW!MCWorlds, world <- v1, stream <- v2, snd <- v3, rcv <- v4, subvols <- v5

TW == INSTANCE SharedTrees WITH Worlds <- {}, MAX_INLINE <- 2, HASHES <- 2, MaxTransid <- 4, MaxBlocks <- 10,
        MaxWrites <- 2, world <- v1, roots <- v2, blocks <- v3, ext <- v4, transid <- v5, writes <- v6, bug <- v7
T == INSTANCE SharedTrees WITH Worlds <- TW!MCWorlds, MAX_INLINE <- 2, HASHES <- 2, MaxTransid <- 4, MaxBlocks <- 10,
        MaxWrites <- 2, world <- v1, roots <- v2, blocks <- v3, ext <- v4, transid <- v5, writes <- v6, bug <- v7

\* A device of 22 sectors, a super block at 2 and a mirror at 8.
ConvertGroups == {[start |-> 0, end |-> 6, sys |-> TRUE], [start |-> 6, end |-> 13, sys |-> FALSE],
                  [start |-> 13, end |-> 22, sys |-> FALSE]}
CW == INSTANCE Convert WITH Worlds <- {}, Sectors <- 22, SbOffset <- <<2, 8>>, STRIPE_LEN <- 2, Groups <- ConvertGroups,
        world <- v1, disk <- v2, fs <- v3, move <- v4, back <- v5, crashes <- v6, pc <- v7
C == INSTANCE Convert WITH Worlds <- CW!MCWorlds, Sectors <- 22, SbOffset <- <<2, 8>>, STRIPE_LEN <- 2,
        Groups <- ConvertGroups,
        world <- v1, disk <- v2, fs <- v3, move <- v4, back <- v5, crashes <- v6, pc <- v7

\* Starts and resumes with cancels, failing ioctls and crashes: two of them, with
\* a device that is added in between, and three on one device of two blocks.
U == INSTANCE Scrub WITH MaxDevs <- 2, FirstDevs <- 1, Size <- 1, MaxRuns <- 2, Fails <- TRUE, Crashes <- TRUE,
        ndev <- v1, file <- v2, main <- v3, sp <- v4, dev <- v5, prog <- v6, cancel <- v7, mutex <- v8,
        kernel <- v9, runs <- v10, checked <- v11, outcome <- v12, crashed <- v13
V == INSTANCE Scrub WITH MaxDevs <- 1, FirstDevs <- 1, Size <- 2, MaxRuns <- 3, Fails <- TRUE, Crashes <- TRUE,
        ndev <- v1, file <- v2, main <- v3, sp <- v4, dev <- v5, prog <- v6, cancel <- v7, mutex <- v8,
        kernel <- v9, runs <- v10, checked <- v11, outcome <- v12, crashed <- v13

\* Every profile of two to five devices in stripes of two sectors.
PW == INSTANCE RaidMap WITH Worlds <- {}, STRIPE_LEN <- 2, MaxCrashes <- 1,
        world <- v1, disk <- v2, eb <- v3, ios <- v4, want <- v5, sound <- v6, writes <- v7, crashes <- v8
P == INSTANCE RaidMap WITH Worlds <- PW!MCWorlds, STRIPE_LEN <- 2, MaxCrashes <- 1,
        world <- v1, disk <- v2, eb <- v3, ios <- v4, want <- v5, sound <- v6, writes <- v7, crashes <- v8

Is(p) == part = p /\ UNCHANGED part
Unused == v9 = 0 /\ v10 = 0 /\ v11 = 0 /\ v12 = 0 /\ v13 = 0
Init ==
    \/ part = "dump" /\ D!Init /\ v8 = 0 /\ Unused
    \/ part = "restore" /\ R!Init /\ Unused
    \/ part = "send" /\ S!Init /\ v6 = 0 /\ v7 = 0 /\ v8 = 0 /\ Unused
    \/ part = "sharing" /\ T!Init /\ v8 = 0 /\ Unused
    \/ part = "convert" /\ C!Init /\ v8 = 0 /\ Unused
    \/ part = "raid" /\ P!Init /\ Unused
    \/ part = "scrub" /\ U!Init
    \/ part = "resume" /\ V!Init
Next ==
    \/ Is("dump") /\ D!Next /\ UNCHANGED <<v8, Spare>>
    \/ Is("restore") /\ R!Next /\ UNCHANGED Spare
    \/ Is("send") /\ S!Next /\ UNCHANGED <<v6, v7, v8, Spare>>
    \/ Is("sharing") /\ T!Next /\ UNCHANGED <<v8, Spare>>
    \/ Is("convert") /\ C!Next /\ UNCHANGED <<v8, Spare>>
    \/ Is("raid") /\ P!Next /\ UNCHANGED Spare
    \/ Is("scrub") /\ U!Next
    \/ Is("resume") /\ V!Next
Spec == Init /\ [][Next]_vars

-----------------------------------------------------------------------------
(* What the run checks: for each part the properties stated in its module. *)

\* SharedTrees: the backreferences of an item are the pointers there are, and every
\* pointer to a block or to data is counted in its item.
SharingBackrefsMatch == part = "sharing" => T!BackrefsMatch /\ T!NoRefIsMissed
\* SharedTrees: what a snapshot reads never changes.
SharingSnapshotsAreKept == [][part = "sharing" => T!SnapshotStep]_vars
\* Convert: a rollback gives every ext2 block back, interrupted or not, and is refused
\* only for a missing image or a balance; until the super block is written every ext2
\* block is as it was, then the image reads as the device did, files are kept and the
\* btrfs can be mounted up to the last write of a rollback.
ConvertRollbackRestores == part = "convert" =>
    /\ C!RollbackRestores /\ C!RollbackIsPossible /\ C!ExtIsUntouched /\ C!ImageIsExt
    /\ C!FilesAreKept /\ C!BtrfsIsMountable /\ C!RelocationEnds /\ C!TypeOK
\* RaidMap: in every profile blocks are read back from every copy whatever else is
\* written or cut short, copies are on different devices, P and Q are those of the
\* data once the last write to a full stripe has ended, and no write reaches a super
\* block.
RaidReadsBack == part = "raid" => P!ReadsBack /\ P!ParityHolds /\ P!SupersKept /\ P!MirrorsApart
\* Scrub: the results of the ioctls stand in the file when scrub exits, and the bytes
\* recorded are those that were checked, never more.
ScrubRecordIsTrue ==
    /\ part = "scrub" => U!TypeOK /\ U!ResultRecorded /\ U!BytesExact /\ U!NeverOverstated
    /\ part = "resume" => V!TypeOK /\ V!ResultRecorded /\ V!BytesExact /\ V!NeverOverstated
=============================================================================

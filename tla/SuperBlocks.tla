----------------------------- MODULE SuperBlocks -----------------------------
(***************************************************************************)
(* The copies of the super block on the devices of a file system: how a    *)
(* commit writes them device by device and copy by copy, how opening the   *)
(* file system chooses one, and how super-recover and btrfs-select-super   *)
(* rewrite them.  A process may die between two writes or, where Tears,    *)
(* within one.  A super block is what the choice looks at: the place it    *)
(* says it is at, magic, file system, generation, the commit whose roots   *)
(* it holds, and whether its checksum matches.                             *)
(***************************************************************************)
EXTENDS Integers, FiniteSets, FiniteSetsExt

CONSTANTS
    Devs,       \* devices of the file system
    Setups,     \* file systems and the tools used on them: see below
    MaxGen      \* bound on generations

Mirrors == 0 .. 2   \* BTRFS_SUPER_MIRROR_MAX

Torn == 0           \* root of a super block that is half old and half new
Supers == [at : Mirrors, magic : {"btrfs", "none"}, fsid : {"this", "other"},
           generation : 0 .. MaxGen + 1, root : 0 .. MaxGen, csum : BOOLEAN]

VARIABLES
    fs,         \* the setup; does not change
    disk,       \* device -> copy -> super block
    pc,         \* "closed", "open" or "write"
    super_copy, \* fs_info->super_copy
    mirror,     \* fs_info->super_bytenr, as a copy
    devices,    \* fs_devices->devices
    dev, next,  \* write_all_supers: device and copy being written
    todo,       \* devices still to be written
    tool,       \* who writes: "commit", "recover", "select", or "none"
    result,     \* return code of the last super-recover, -1 for none
    source,     \* history: super blocks super-recover took for good
    newest      \* history: last commit of which a super block was written

vars == <<fs, disk, pc, super_copy, mirror, devices, dev, next, todo, tool, result,
          source, newest>>
Mem == <<super_copy, mirror, devices>>
Walk == <<dev, next, todo, tool>>

Fits == fs.fits             \* device -> number of copies within its total_bytes
Readable == fs.readable     \* device -> number of copies within the block device
Copies == fs.copies         \* copies that a tool may be told to use (-s), 0 the default
Rescue == fs.rescue         \* rescue tools in use: "recover", "select"
Tears == fs.tears           \* a super block write may be torn by a crash

Blank(m) == [at |-> m, magic |-> "none", fsid |-> "other", generation |-> 0,
             root |-> Torn, csum |-> FALSE]
Foreign(m) == [at |-> m, magic |-> "btrfs", fsid |-> "other",
               generation |-> MaxGen + 1, root |-> Torn, csum |-> TRUE]
Made(m) == [at |-> m, magic |-> "btrfs", fsid |-> "this", generation |-> 1,
            root |-> 1, csum |-> TRUE]

-----------------------------------------------------------------------------
(* Reading *)

\* A copy that can be read and looks like a super block.
Valid(d, m) ==
    m < Readable[d] /\ disk[d][m].at = m /\ disk[d][m].magic = "btrfs"

\* btrfs_read_dev_super: the copy asked for, or of the copies with the file
\* system id of the first valid one the first with the highest generation.
btrfs_read_dev_super(d, m) ==
    IF m # 0 THEN {disk[d][m] : i \in {x \in {m} : Valid(d, x)}}
    ELSE LET first == {i \in Mirrors : Valid(d, i) /\ \A j \in Mirrors : Valid(d, j) => i <= j}
             same == {i \in Mirrors : Valid(d, i) /\ \E f \in first : disk[d][i].fsid = disk[d][f].fsid}
             gen(i) == disk[d][i].generation
         IN {disk[d][i] : i \in {x \in same : /\ gen(x) > 0
                                              /\ \A y \in same : gen(y) < gen(x) \/ (gen(y) = gen(x) /\ x <= y)}}

\* btrfs_scan_fs_devices: the device named, read at copy m, then all others.
Scanned(path, m) ==
    {path} \cup {d \in Devs : \E s \in btrfs_read_dev_super(d, 0), t \in btrfs_read_dev_super(path, m) :
                                 s.fsid = t.fsid}
ScanGen(d, path, m) ==
    Max({s.generation : s \in btrfs_read_dev_super(d, 0)
                              \cup (IF d = path THEN btrfs_read_dev_super(d, m) ELSE {})})

\* Faulty variant: the device named is the one to read from.
latest_named(path, m) == {path}

\* device_list_add: latest_devid moves only to a higher generation.
latest_bdev(path, m) ==
    LET found == Scanned(path, m)
        top == Max({ScanGen(d, path, m) : d \in found})
    IN IF \E s \in btrfs_read_dev_super(path, m) : s.generation = top THEN {path}
       ELSE {d \in found : ScanGen(d, path, m) = top}

\* __open_ctree_fd without OPEN_CTREE_RECOVER_SUPER.
OpenCtree(path, m) ==
    /\ pc = "closed" /\ btrfs_read_dev_super(path, m) # {}
    /\ \E d \in latest_bdev(path, m) : \E s \in btrfs_read_dev_super(d, m) : super_copy' = s
    /\ devices' = Scanned(path, m)

-----------------------------------------------------------------------------
(* Writing *)

\* write_all_supers begins with some device of the list.
BeginWrite(found, t) ==
    /\ pc' = "write" /\ tool' = t
    /\ \E d \in found : dev' = d /\ todo' = found \ {d}
    /\ next' = mirror'

\* The last copy write_dev_supers writes.
Last == IF mirror = 0 THEN Fits[dev] - 1 ELSE mirror

\* write_dev_supers goes on with the next copy that fits, write_all_supers
\* with the next device.
Advance ==
    \/ next < Last /\ next' = next + 1 /\ UNCHANGED <<dev, todo, pc>>
    \/ /\ next = Last
       /\ \/ \E d \in todo : dev' = d /\ todo' = todo \ {d} /\ next' = mirror /\ UNCHANGED pc
          \/ todo = {} /\ pc' = "open" /\ UNCHANGED <<dev, next, todo>>

Written(m) == [super_copy EXCEPT !.at = m, !.csum = TRUE]

\* Faulty variant: the checksum of the super block it was read from is kept.
WriteSuperStaleCsum ==
    /\ pc = "write" /\ next < Readable[dev]
    /\ disk' = [disk EXCEPT ![dev][next] = [super_copy EXCEPT !.at = next]]
    /\ newest' = IF tool = "commit" THEN super_copy.root ELSE newest
    /\ Advance
    /\ result' = IF pc' = "open" /\ tool = "recover" THEN 2 ELSE -1
    /\ UNCHANGED <<fs, Mem, tool, source>>

\* One pwrite64 of write_dev_supers.
WriteSuper ==
    /\ pc = "write" /\ next < Readable[dev]
    /\ disk' = [disk EXCEPT ![dev][next] = Written(next)]
    /\ newest' = IF tool = "commit" THEN super_copy.root ELSE newest
    /\ Advance
    /\ result' = IF pc' = "open" /\ tool = "recover" THEN 2 ELSE -1
    /\ UNCHANGED <<fs, Mem, tool, source>>

\* Nothing of the process is left.
Gone ==
    /\ pc' = "closed" /\ super_copy' = Blank(0) /\ mirror' = 0 /\ devices' = {}
    /\ dev' = (CHOOSE d \in Devs : TRUE) /\ next' = 0 /\ todo' = {} /\ tool' = "none"
    /\ result' = -1 /\ source' = {}

\* The process dies in a pwrite64 that changes the copy: the first sectors are
\* new, the others old.
TornWrite ==
    /\ Tears /\ pc = "write" /\ next < Readable[dev]
    /\ disk[dev][next].root # super_copy.root
    /\ disk' = [disk EXCEPT ![dev][next] =
                  [Written(next) EXCEPT !.root = Torn, !.csum = FALSE]]
    /\ Gone
    /\ UNCHANGED <<fs, newest>>

\* The process ends or dies; a pwrite64 behind the end of the device is a BUG_ON.
Exit ==
    /\ pc # "closed" /\ Gone
    /\ UNCHANGED <<fs, disk, newest>>

-----------------------------------------------------------------------------
(* Tools *)

\* open_ctree of any tool, with -s m or without.  A copy named with -s is one
\* that is up to date.
Open(path, m) ==
    /\ OpenCtree(path, m)
    /\ m # 0 => super_copy'.root = newest
    /\ mirror' = m /\ pc' = "open" /\ tool' = "none" /\ result' = -1
    /\ UNCHANGED <<fs, disk, dev, next, todo, source, newest>>

\* write_ctree_super at the end of a commit.
Commit ==
    /\ pc = "open" /\ super_copy.generation < MaxGen /\ newest < MaxGen
    /\ super_copy' = [super_copy EXCEPT !.generation = @ + 1, !.root = newest + 1]
    /\ UNCHANGED <<fs, disk, mirror, devices, source, newest>>
    /\ BeginWrite(devices, "commit") /\ result' = -1

\* btrfs-select-super -s m: the copy overwrites all others.
SelectSuper(path, m) ==
    /\ "select" \in Rescue /\ OpenCtree(path, m)
    /\ m # 0 => super_copy'.root = newest
    /\ mirror' = 0 /\ BeginWrite(devices', "select") /\ result' = -1
    /\ UNCHANGED <<fs, disk, source, newest>>

\* check_super, the records of read_dev_supers and the lists of read_fs_supers.
check_super(d, m) == disk[d][m].at = m /\ disk[d][m].magic = "btrfs" /\ disk[d][m].csum
Records(found) == {r \in found \X Mirrors : r[2] < Readable[r[1]]}
Checked(found) == {r \in Records(found) : check_super(r[1], r[2])}

good_supers(found) ==
    {r \in Checked(found) : \A q \in Checked(found) :
        disk[q[1]][q[2]].generation <= disk[r[1]][r[2]].generation}
bad_supers(found) == Records(found) \ good_supers(found)

\* btrfs_recover_superblocks, up to write_all_supers: the first good record is
\* opened at its copy, on its own device.  An empty good list makes a record
\* of the list head; opening its name fails.
RecoverSuperblocks(path) ==
    /\ "recover" \in Rescue /\ pc = "closed" /\ btrfs_read_dev_super(path, 0) # {}
    /\ LET found == Scanned(path, 0)
           good == good_supers(found)
       IN
       /\ \/ /\ bad_supers(found) = {} /\ result' = 0
             /\ UNCHANGED <<pc, Mem, Walk, source>>
          \/ /\ bad_supers(found) # {} /\ good = {} /\ result' = 3
             /\ UNCHANGED <<pc, Mem, Walk, source>>
          \/ /\ bad_supers(found) # {} /\ result' = -1
             /\ source' = {disk[r[1]][r[2]] : r \in good}
             /\ \E r \in {q \in good : \A p \in good : p[1] = q[1] => q[2] <= p[2]} :
                   \E s \in btrfs_read_dev_super(r[1], r[2]) : super_copy' = s
             /\ devices' = found /\ mirror' = 0 /\ BeginWrite(found, "recover")
    /\ UNCHANGED <<fs, disk, newest>>

\* After mkfs: the copies that fit are written, the others were not touched
\* (btrfs_prepare_device clears only copies below the size it was given).
Init ==
    /\ fs \in Setups
    /\ disk \in [Devs -> [Mirrors -> UNION {{Made(m), Blank(m), Foreign(m)} : m \in Mirrors}]]
    /\ \A d \in Devs, m \in Mirrors :
          disk[d][m] \in IF m < Fits[d] THEN {Made(m)} ELSE {Blank(m), Foreign(m)}
    /\ pc = "closed" /\ super_copy = Blank(0) /\ mirror = 0 /\ devices = {}
    /\ dev = (CHOOSE d \in Devs : TRUE) /\ next = 0 /\ todo = {} /\ tool = "none"
    /\ result = -1 /\ source = {} /\ newest = 1

Next == \/ \E path \in Devs, m \in Copies : Open(path, m) \/ SelectSuper(path, m)
        \/ \E path \in Devs : RecoverSuperblocks(path)
        \/ Commit \/ WriteSuper \/ TornWrite \/ Exit
Spec == Init /\ [][Next]_vars

-----------------------------------------------------------------------------
(* Properties *)

\* Super blocks on the devices, the copy in memory and the loops of
\* write_all_supers and write_dev_supers stay in range.
TypeOK ==
    /\ disk \in [Devs -> [Mirrors -> Supers]] /\ super_copy \in Supers
    /\ pc \in {"closed", "open", "write"} /\ mirror \in Mirrors
    /\ devices \subseteq Devs /\ dev \in Devs /\ next \in Mirrors /\ todo \subseteq Devs
    /\ tool \in {"none", "commit", "recover", "select"} /\ result \in {-1, 0, 2, 3}
    /\ source \subseteq Supers /\ newest \in 1 .. MaxGen

\* Opening through any device and any copy gives the last commit whose super
\* block reached a device, also when a commit died half way through the
\* copies or devices and when copies of an older file system are left behind
\* the end of this one.  Torn writes are left out: checksums are not checked.
OpenSeesNewest ==
    ~Tears /\ pc = "open" => super_copy.fsid = "this" /\ super_copy.root = newest

\* A generation names one commit: no two super blocks of the file system have
\* the same generation and different roots.
Mine == {s \in {disk[d][m] : d \in Devs, m \in Mirrors} : s.magic = "btrfs" /\ s.fsid = "this"}
GenerationNamesCommit ==
    ~Tears => \A s, t \in Mine : s.generation = t.generation => s.root = t.root

\* A commit that has returned is found by the next open without -s on every
\* device it wrote, whatever copies it wrote and whatever was torn before.
CommitVisible ==
    pc = "open" /\ tool = "commit" => \A d \in devices :
        \E s \in btrfs_read_dev_super(d, 0) : s.root = super_copy.root

\* super-recover takes the super block it writes everywhere from the ones it
\* found good ("Recover bad superblocks from good copies").
RecoverFromGood ==
    pc = "write" /\ tool = "recover" =>
        \E s \in source : s.generation = super_copy.generation /\ s.root = super_copy.root

\* When super-recover returns 2, a second run has nothing to do ("Recover all
\* bad superblocks successfully").
RecoverComplete == result = 2 => bad_supers(devices) = {}

\* When super-recover finds nothing to do, all copies on all devices hold the
\* same commit ("All superblocks are valid, no need to recover").
ValidMeansEqual ==
    result = 0 => \A s, t \in Mine : s.csum /\ s.root = t.root
=============================================================================

----------------------------- MODULE FsckCommand -----------------------------
(***************************************************************************)
(* btrfs check as a command (cmd_check of cmds-check.c): the order of its  *)
(* stages and the exit code, and what --init-extent-tree does before the   *)
(* stages run: it pins every tree block in use, forgets all block groups   *)
(* and the extent tree, and then allocates from space that looks empty but *)
(* for the pins.                                                           *)
(*                                                                         *)
(* A world is one invocation on one filesystem:                            *)
(*   repair, init_csum, init_extent   options                              *)
(*   mounted, critical_bad, mixed     what stops the command early         *)
(*   faulty    the stages that find errors                                 *)
(*   recow     blocks read with a wrong transid, lost: those no owner root *)
(*             is found for                                                *)
(*   old_backref  the old backref format is met                            *)
(*   block     tree blocks: [level, kids, roots, readable], roots being the*)
(*             root items <<tree, block>> of a leaf of the tree root       *)
(*   chunk_root, tree_root, balance   their blocks; is a balance item there*)
(*   metadata  the blocks of the metadata block groups                     *)
(***************************************************************************)
EXTENDS Integers, FiniteSets, Sequences

CONSTANTS Worlds, MaxAllocs      \* allocations one transaction makes at most

VARIABLES world,
          pinned,      \* fs_info->pinned_extents
          given,       \* blocks handed out by btrfs_alloc_free_block
          in_place,    \* blocks overwritten where they are
          dropped,     \* trees whose root item is deleted or points elsewhere
          pc, ret, recow_ebs, reported
vars == <<world, pinned, given, in_place, dropped, pc, ret, recow_ebs, reported>>
reinit_vars == <<pinned, given, in_place, dropped>>

EIO == -5
EBUSY == -16
EINVAL == -22

Init ==
    /\ world \in Worlds
    /\ pinned = {} /\ given = {} /\ in_place = {} /\ dropped = {}
    /\ pc = "open" /\ ret = 0 /\ recow_ebs = {} /\ reported = {}

-----------------------------------------------------------------------------
(* Pinning *)

Skipped == {"extent", "tree_reloc", "data_reloc"}
RootBlocks(leaf) == {r[2] : r \in {x \in leaf.roots : x[1] \notin Skipped}}

UnreadKids(b, tree_root) ==
    IF world.block[b].level = 1 /\ ~tree_root THEN world.block[b].kids ELSE {}
RECURSIVE pin_down_tree_blocks(_, _)
pin_down_tree_blocks(b, tree_root) ==
    LET eb == world.block[b]
        leaf == eb.level = 0
        unread == eb.level = 1 /\ ~tree_root
        below == IF leaf THEN RootBlocks(eb) ELSE IF unread THEN {} ELSE eb.kids
        walk == {pin_down_tree_blocks(c, ~leaf /\ tree_root) : c \in {d \in below : world.block[d].readable}}
    IN  [pins |-> {b} \cup UnreadKids(b, tree_root) \cup UNION {w.pins : w \in walk},
         ok |-> (\A c \in below : world.block[c].readable) /\ (\A w \in walk : w.ok)]

\* pin_metadata_blocks.  The order matters only when it fails, and then the
\* command ends.
pin_metadata_blocks ==
    LET c == pin_down_tree_blocks(world.chunk_root, FALSE)
        t == pin_down_tree_blocks(world.tree_root, TRUE)
    IN  [pins |-> c.pins \cup t.pins, ok |-> c.ok /\ t.ok]

\* The block a root item names.
RootOf(t) == {r[2] : r \in {x \in UNION {world.block[b].roots : b \in DOMAIN world.block} : x[1] = t}}

-----------------------------------------------------------------------------
(* --init-extent-tree *)

Fail(r) == pc' = "done" /\ ret' = r
Go(p) == pc' = p /\ ret' = 0

\* From the start of cmd_check to its first stage.
open ==
    /\ pc = "open"
    /\ IF world.mounted THEN Fail(EBUSY)
       ELSE IF world.critical_bad THEN Fail(EIO)
       ELSE Go(IF world.init_extent THEN "pin" ELSE "start")
    /\ recow_ebs' = IF pc' = "done" THEN {} ELSE world.recow
    /\ UNCHANGED <<world, reinit_vars, reported>>

\* reinit_extent_tree up to the block groups: all space is free again but for
\* the pins; the root of the extent tree is made an empty leaf where it is.
reinit_extent_tree ==
    /\ pc = "pin"
    /\ IF world.mixed THEN Fail(EINVAL) /\ UNCHANGED <<pinned, in_place>>
       ELSE IF ~pin_metadata_blocks.ok THEN Fail(EIO) /\ UNCHANGED <<pinned, in_place>>
       ELSE /\ Go("balance")
            /\ pinned' = pin_metadata_blocks.pins
            /\ in_place' = RootOf("extent")
    /\ UNCHANGED <<world, given, dropped, recow_ebs, reported>>

\* find_free_extent after reset_block_groups: anything of a metadata group that
\* is not pinned and not handed out before.
Available == world.metadata \ (pinned \cup given)
btrfs_alloc_free_block(b) ==
    /\ Cardinality(given) < MaxAllocs
    /\ b \in Available
    /\ given' = given \cup {b}

\* reset_balance: only when a balance was interrupted are the relocation trees
\* dropped and the data relocation tree replaced by a new leaf.
reset_balance ==
    /\ pc = "balance"
    /\ Go("groups")
    /\ IF world.balance
       THEN \E b \in Available :
                /\ btrfs_alloc_free_block(b)
                /\ dropped' = {"tree_reloc", "data_reloc"}
       ELSE UNCHANGED <<given, dropped>>
    /\ UNCHANGED <<world, pinned, in_place, recow_ebs, reported>>

\* Inserting the block group items and committing copy and split blocks.
insert_block_groups ==
    /\ pc = "groups"
    /\ \E b \in Available : btrfs_alloc_free_block(b)
    /\ UNCHANGED <<world, pinned, in_place, dropped, pc, ret, recow_ebs, reported>>
commit_reinit ==
    /\ pc = "groups"
    /\ Go("start")
    /\ UNCHANGED <<world, reinit_vars, recow_ebs, reported>>

-----------------------------------------------------------------------------
(* The stages *)

\* What the next stage is, and which stages end the command when they find
\* errors.
Order == <<"extents", "space_cache", "fs_roots", "csums", "root_refs">>

\* --init-csum-tree makes an empty checksum tree and skips every check.
init_csum_tree ==
    /\ pc = "start"
    /\ Go(IF world.init_csum THEN "out" ELSE Order[1])
    /\ UNCHANGED <<world, reinit_vars, recow_ebs, reported>>

GoesOn(stage) == stage = "extents"
run_stage ==
    \E i \in DOMAIN Order :
        /\ pc = Order[i]
        /\ LET bad == Order[i] \in world.faulty IN
           /\ ret' = IF bad THEN 1 ELSE 0
           /\ reported' = IF bad THEN reported \cup {Order[i]} ELSE reported
           /\ pc' = IF bad /\ ~GoesOn(Order[i]) THEN "out"
                    ELSE IF i < Len(Order) THEN Order[i + 1] ELSE "recow"
        /\ UNCHANGED <<world, reinit_vars, recow_ebs>>

\* recow_extent_buffer: copying the block takes it off the list.
recow_extent_buffer ==
    /\ pc = "recow" /\ world.repair /\ recow_ebs # {}
    /\ \E b \in recow_ebs :
          IF b \in world.lost
          THEN ret' = EIO /\ pc' = "recowed" /\ UNCHANGED recow_ebs
          ELSE ret' = 0 /\ recow_ebs' = recow_ebs \ {b} /\ UNCHANGED pc
    /\ UNCHANGED <<world, reinit_vars, reported>>

\* The list is looked at once more.
Transid ==
    /\ \/ pc = "recowed"
       \/ pc = "recow" /\ (~world.repair \/ recow_ebs = {})
    /\ pc' = "out"
    /\ ret' = IF recow_ebs # {} THEN 1 ELSE ret
    /\ reported' = IF recow_ebs # {} THEN reported \cup {"transid"} ELSE reported
    /\ UNCHANGED <<world, reinit_vars, recow_ebs>>

\* From out: to the end; found_old_backref is set while extents are checked.
OldFormat == world.old_backref /\ ~world.init_csum
out ==
    /\ pc = "out"
    /\ pc' = "done"
    /\ ret' = IF OldFormat THEN 1 ELSE ret
    /\ reported' = IF OldFormat THEN reported \cup {"old_backref"} ELSE reported
    /\ UNCHANGED <<world, reinit_vars, recow_ebs>>

Next ==
    \/ open \/ reinit_extent_tree \/ reset_balance \/ insert_block_groups
    \/ commit_reinit \/ init_csum_tree \/ run_stage \/ recow_extent_buffer
    \/ Transid \/ out
Spec == Init /\ [][Next]_vars

-----------------------------------------------------------------------------
(* Properties *)

TypeOK ==
    /\ pinned \subseteq DOMAIN world.block
    /\ given \subseteq world.metadata /\ reported \subseteq
         ({Order[i] : i \in DOMAIN Order} \cup {"transid", "old_backref"})

\* The blocks of a tree, by its structure alone.
RECURSIVE BlocksBelow(_)
BlocksBelow(b) == {b} \cup UNION {BlocksBelow(c) : c \in world.block[b].kids}
Trees == {r[1] : r \in UNION {world.block[b].roots : b \in DOMAIN world.block}}
BlocksOf(t) == UNION {BlocksBelow(b) : b \in RootOf(t)}

\* While --init-extent-tree allocates without an extent tree to tell what is
\* in use, no block of the chunk tree, the tree root, or of any tree the tree
\* root names, is handed out, the skipped trees excepted
\* (pin_down_tree_blocks reads only some of these blocks).
TreesAreSafe ==
    given \cap (BlocksBelow(world.chunk_root) \cup BlocksBelow(world.tree_root)
                \cup UNION {BlocksOf(t) : t \in Trees \ Skipped}) = {}

\* "so we don't overwrite any existing metadata" (cmds-check.c:5902): the same
\* for every tree the filesystem still has, the new root of the extent tree
\* and the data relocation tree included.
MetadataIsSafe ==
    given \cap (in_place \cup UNION {BlocksOf(t) : t \in Trees \ ({"extent"} \cup dropped)}) = {}

\* The exit code is 0 exactly when no stage after the extents reported an
\* error: a later stage never hides what an earlier one of them found, and
\* blocks with a wrong transid count unless all of them were rewritten.
LaterStagesDecide ==
    pc = "done" /\ ret \notin {EIO, EBUSY, EINVAL} =>
        /\ (ret = 0) = (reported \subseteq {"extents"})
        /\ ~world.init_csum /\ ret = 0 => world.faulty \subseteq {"extents"}

\* "btrfsck will return 0 exit code if no error happened. Other exit code
\* means some problems happened." (man/btrfsck.8.in:22)
ExitCodeTells == pc = "done" => (ret = 0 => reported = {})

-----------------------------------------------------------------------------
\* The instance TLC checks: invocations of btrfs check.

B(l, k, r, ok) == [level |-> l, kids |-> k, roots |-> r, readable |-> ok]
\* Block 1 is the chunk root, 2 to 4 the tree root, 5 and 6 the extent tree,
\* 7 to 9 a file tree of two or three levels, 10 and 11 the relocation trees.
Block(bad, deep) == [b \in 1..11 |->
   CASE b = 1 -> B(0, {}, {}, TRUE)
     [] b = 2 -> B(1, {3, 4}, {}, TRUE)
     [] b = 3 -> B(0, {}, {<<"extent", 5>>, <<"fs", 7>>}, TRUE)
     [] b = 4 -> B(0, {}, {<<"data_reloc", 10>>, <<"tree_reloc", 11>>}, 4 \notin bad)
     [] b = 5 -> B(1, {6}, {}, TRUE)
     [] b = 7 -> B(IF deep THEN 2 ELSE 1, IF deep THEN {8} ELSE {8, 9}, {}, 7 \notin bad)
     [] b = 8 -> B(IF deep THEN 1 ELSE 0, IF deep THEN {9} ELSE {}, {}, 8 \notin bad)
     [] OTHER -> B(0, {}, {}, b \notin bad)]
W(rep, cs, ext, mnt, crit, mix, f, rc, lost, old, bad, deep, bal) ==
  [repair |-> rep, init_csum |-> cs, init_extent |-> ext, mounted |-> mnt, critical_bad |-> crit, mixed |-> mix,
   faulty |-> f, recow |-> rc, lost |-> lost, old_backref |-> old, block |-> Block(bad, deep),
   chunk_root |-> 1, tree_root |-> 2, balance |-> bal, metadata |-> 1..13]
ST == {"extents", "space_cache", "fs_roots", "csums", "root_refs"}
MCWorlds ==
  {W(r, c, FALSE, FALSE, FALSE, FALSE, f, rc, {9}, o, {}, FALSE, FALSE) :
     r \in BOOLEAN, c \in BOOLEAN, f \in {x \in SUBSET ST : Cardinality(x) < 3}, rc \in {{}, {8}, {8, 9}}, o \in BOOLEAN}
  \cup {W(TRUE, FALSE, TRUE, m, cr, mx, f, {}, {}, FALSE, bad, d, bal) :
     m \in BOOLEAN, cr \in BOOLEAN, mx \in BOOLEAN, f \in {{}, {"extents"}}, bad \in {{}, {4}, {7}, {8}, {9}}, d \in BOOLEAN, bal \in BOOLEAN}
=============================================================================

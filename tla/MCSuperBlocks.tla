---------------------------- MODULE MCSuperBlocks ----------------------------
(***************************************************************************)
(* Two devices: d1 holds all three copies, d2 two.  In the "long" instance *)
(* the second block device is larger than the file system on it.           *)
(***************************************************************************)
EXTENDS SuperBlocks

MCDevs == {"d1", "d2"}
MCFits == [d \in MCDevs |-> IF d = "d1" THEN 3 ELSE 2]
MCLong == [d \in MCDevs |-> 3]

Setup(fits, readable, copies, rescue, tears) ==
    [fits |-> fits, readable |-> readable, copies |-> copies, rescue |-> rescue, tears |-> tears]
\* Crashes between writes, -s and btrfs-select-super; torn writes and
\* super-recover.
MCSetups == {Setup(MCFits, MCLong, Mirrors, {"select"}, FALSE),
             Setup(MCFits, MCFits, {0}, {"recover"}, TRUE)}
TornCopy == {Setup(MCFits, MCFits, {0, 1}, {"recover"}, TRUE)}
Long == {Setup(MCFits, MCLong, {0}, {"recover"}, TRUE)}
=============================================================================

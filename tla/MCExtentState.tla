--------------------------- MODULE MCExtentState ---------------------------
(***************************************************************************)
(* ExtentState as the code uses it.  Dirty trees: free_space_cache and     *)
(* pinned_extents, one bit, any range.  Locked trees: extent_ins,          *)
(* pending_del and block_group_cache, whole blocks or block groups with    *)
(* EXTENT_LOCKED and a private pointer, where groups are marked dirty.     *)
(* One instance has both uses, side by side on offsets of their own.       *)
(***************************************************************************)
EXTENDS ExtentState

Ranges(n) == {r \in [start : 0 .. n, end : 0 .. n] : r.start <= r.end}
CallsOn(rs, bs) == {[start |-> r.start, end |-> r.end, bits |-> b] : r \in rs, b \in bs}

MCBits == {"locked", "metadata", "dirty"}
MCLocked == {"locked"}
MCDirty == {"dirty"}
MCGroups == {[start |-> 5, end |-> 6], [start |-> 7, end |-> 7]}
MCSetCalls == CallsOn(Ranges(4), {MCDirty}) \cup CallsOn(MCGroups, {{"locked"}, {"locked", "metadata"}})
MCClearCalls == CallsOn(Ranges(4), {MCDirty}) \cup CallsOn(MCGroups, {MCBits})

\* These are uses that the proofs assume.
ASSUME MCAsUsed == Bits = MCBits => AsUsed

\* Two bits on arbitrary ranges, as the interface allows.
MCTwoBits == {"dirty", "uptodate"}
MCTwoBitCalls == CallsOn(Ranges(MaxOff), {{"dirty"}, {"uptodate"}})
=============================================================================

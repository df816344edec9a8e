----------------------------- MODULE ExtentState -----------------------------
(***************************************************************************)
(* The extent_state tree of extent_io.c: ranges of offsets with state bits *)
(* and a private pointer, kept disjoint and merged.  The allocator keeps   *)
(* its free space, pinned extents, queues and block groups in such trees.  *)
(* One action is one round of the "again" loop of a call; the calls are    *)
(* those the code makes: on trees of one bit any range, on trees that hold *)
(* IO bits (queues, block groups) whole extents.                           *)
(***************************************************************************)
EXTENDS Integers, FiniteSets

CONSTANTS
    MaxOff,     \* last offset; no caller passes (u64)-1
    Bits,       \* state bits
    IoBits,     \* EXTENT_IOBITS: states with one of them are not merged
    Privates,   \* values of xprivate
    NoPrivate,  \* xprivate of a new state
    SetCalls,   \* calls to set_extent_bits: records start, end, bits
    ClearCalls, \* calls to clear_extent_bits
    MarkBits    \* bits set on and cleared from a whole existing extent

Offsets == 0 .. MaxOff
Calls == [start : Offsets, end : Offsets, bits : SUBSET Bits]

ASSUME ExtentAssumption ==
    /\ MaxOff \in Nat /\ IoBits \subseteq Bits /\ MarkBits \subseteq Bits
    /\ NoPrivate \notin Privates
    /\ SetCalls \subseteq Calls /\ ClearCalls \subseteq Calls
    /\ \A c \in SetCalls \cup ClearCalls : c.start <= c.end
    /\ \A c \in SetCalls : c.bits # {}

States == [start : Offsets, end : Offsets, bits : SUBSET Bits,
           xprivate : Privates \cup {NoPrivate}]
NoCall == [kind |-> "none", start |-> 0, end |-> 0, bits |-> {}]

VARIABLES
    tree,   \* tree->state: the extent_state structs
    call,   \* call in progress: start is the local variable of the loop
    want,   \* history: offset -> bits the finished calls should leave
    saved   \* history: offset -> private pointer stored there

vars == <<tree, call, want, saved>>

-----------------------------------------------------------------------------
(* cache tree and helpers *)

\* search_cache_extent: the extent that holds start, or the next one.
search_cache_extent(t, s) ==
    {e \in t : e.end >= s /\ \A f \in t : f.end >= s => e.start <= f.start}

BitsAt(t, x) == UNION {e.bits : e \in {f \in t : x \in f.start .. f.end}}

\* Faulty variant: merges extents with IO bits as well.
merge_state_io(t, e) ==
    LET prev == {o \in t : o.end = e.start - 1 /\ o.bits = e.bits}
        next == {o \in t : o.start = e.end + 1 /\ o.bits = e.bits}
        low == IF prev = {} THEN e.start ELSE (CHOOSE o \in prev : TRUE).start
        kept == IF next = {} THEN e ELSE CHOOSE o \in next : TRUE
    IN (t \ ({e} \cup prev \cup next)) \cup {[kept EXCEPT !.start = low]}

\* merge_state: e absorbs the extent before it, the extent after it absorbs e.
merge_state(t, e) ==
    IF e.bits \cap IoBits # {} THEN t
    ELSE LET prev == {o \in t : o.end = e.start - 1 /\ o.bits = e.bits}
             next == {o \in t : o.start = e.end + 1 /\ o.bits = e.bits}
             low == IF prev = {} THEN e.start ELSE (CHOOSE o \in prev : TRUE).start
             kept == IF next = {} THEN e ELSE CHOOSE o \in next : TRUE
         IN (t \ ({e} \cup prev \cup next)) \cup {[kept EXCEPT !.start = low]}

\* split_state: prealloc becomes the first half, e keeps the second.
FirstHalf(e, split) == [e EXCEPT !.end = split - 1, !.xprivate = NoPrivate]
SecondHalf(e, split) == [e EXCEPT !.start = split]
split_state(t, e, split) == (t \ {e}) \cup {FirstHalf(e, split), SecondHalf(e, split)}

\* state->state |= bits, on an extent and in the tree.
with_bits(e, b) == [e EXCEPT !.bits = @ \cup b]
set_bits(t, e, b) == (t \ {e}) \cup {with_bits(e, b)}

\* clear_state_bit: an extent left without bits is removed.
clear_state_bit(t, e, b) ==
    LET f == [e EXCEPT !.bits = @ \ b] IN
    IF f.bits = {} THEN t \ {e} ELSE merge_state((t \ {e}) \cup {f}, f)

-----------------------------------------------------------------------------
Init == /\ tree = {} /\ call = NoCall
        /\ want = [x \in Offsets |-> {}]
        /\ saved = [x \in Offsets |-> NoPrivate]

Enter(k, c) == /\ call = NoCall
               /\ call' = [kind |-> k, start |-> c.start, end |-> c.end, bits |-> c.bits]
               /\ UNCHANGED tree
InCall(c) == c.start .. c.end

BeginSet(c) == /\ Enter("set", c)
               /\ want' = [x \in Offsets |-> IF x \in InCall(c) THEN want[x] \cup c.bits
                                             ELSE want[x]]
               /\ UNCHANGED saved
BeginClear(c) == /\ Enter("clear", c)
                 /\ want' = [x \in Offsets |-> IF x \in InCall(c) THEN want[x] \ c.bits
                                               ELSE want[x]]
                 /\ saved' = [x \in Offsets |-> IF x \in InCall(c) /\ want'[x] = {}
                                                THEN NoPrivate ELSE saved[x]]
\* update_block_group and btrfs_write_dirty_block_groups: mark and unmark a
\* whole block group they looked up.
Group(e, b) == [start |-> e.start, end |-> e.end, bits |-> b]
BeginMark == \E e \in tree : e.bits \cap IoBits # {} /\ BeginSet(Group(e, MarkBits))
BeginUnmark == \E e \in tree : e.bits \cap MarkBits # {} /\ BeginClear(Group(e, MarkBits))

\* Faulty variant: start is not moved.
GoOnWithout(x) == call' = IF x + 1 > call.end THEN NoCall ELSE call

\* search_again: the loop goes on behind offset x.
GoOnAfter(x) == call' = IF x + 1 > call.end THEN NoCall ELSE [call EXCEPT !.start = x + 1]
GoOnAt(x) == call' = [call EXCEPT !.start = x]
Found == search_cache_extent(tree, call.start)

-----------------------------------------------------------------------------
(* set_extent_bits *)

\* Nothing found: insert_state for the rest of the range.
SetRest ==
    /\ call.kind = "set"
    /\ \A e \in tree : e.end < call.start
    /\ LET n == [start |-> call.start, end |-> call.end, bits |-> call.bits,
                 xprivate |-> NoPrivate]
       IN tree' = merge_state(tree \cup {n}, n)
    /\ call' = NoCall
    /\ UNCHANGED <<want, saved>>

\* The extent starts at start and ends in the range.
SetWhole ==
    /\ call.kind = "set"
    /\ \E e \in Found :
         /\ e.start = call.start /\ e.end <= call.end
         /\ tree' = merge_state(set_bits(tree, e, call.bits), with_bits(e, call.bits))
         /\ GoOnAfter(e.end)
    /\ UNCHANGED <<want, saved>>

\* The extent starts before the range: split it there.
SetSplitHead ==
    /\ call.kind = "set"
    /\ \E e \in Found :
         /\ e.start < call.start
         /\ LET t == split_state(tree, e, call.start)
                s == SecondHalf(e, call.start)
            IN IF e.end <= call.end
               THEN /\ tree' = merge_state(set_bits(t, s, call.bits), with_bits(s, call.bits))
                    /\ GoOnAfter(e.end)
               ELSE tree' = t /\ GoOnAt(call.start)
    /\ UNCHANGED <<want, saved>>

\* Faulty variant: the new extent is not cut at the extent found.
SetHoleUncut ==
    /\ call.kind = "set"
    /\ \E e \in Found :
         /\ e.start > call.start
         /\ LET n == [start |-> call.start, end |-> call.end, bits |-> call.bits,
                      xprivate |-> NoPrivate]
            IN tree' = merge_state(tree \cup {n}, n) /\ GoOnAfter(call.end)
    /\ UNCHANGED <<want, saved>>

\* A hole before the extent: insert_state for the hole.
SetHole ==
    /\ call.kind = "set"
    /\ \E e \in Found :
         /\ e.start > call.start
         /\ LET last == IF call.end < e.start THEN call.end ELSE e.start - 1
                n == [start |-> call.start, end |-> last, bits |-> call.bits,
                      xprivate |-> NoPrivate]
            IN tree' = merge_state(tree \cup {n}, n) /\ GoOnAfter(last)
    /\ UNCHANGED <<want, saved>>

\* The extent starts at start and goes past the range: it is split behind the
\* range, and the bits are set on the second half.
SetSplitTail ==
    /\ call.kind = "set"
    /\ \E e \in Found :
         /\ e.start = call.start /\ e.end > call.end
         /\ LET t == split_state(tree, e, call.end + 1)
            IN tree' = merge_state(set_bits(t, SecondHalf(e, call.end + 1), call.bits),
                                   FirstHalf(e, call.end + 1))
    /\ call' = NoCall
    /\ UNCHANGED <<want, saved>>

-----------------------------------------------------------------------------
(* clear_extent_bits *)

ClearNothing ==
    /\ call.kind = "clear"
    /\ \A e \in Found : e.start > call.end
    /\ call' = NoCall
    /\ UNCHANGED <<tree, want, saved>>

ClearSplitHead ==
    /\ call.kind = "clear"
    /\ \E e \in Found :
         /\ e.start < call.start
         /\ LET t == split_state(tree, e, call.start)
                s == SecondHalf(e, call.start)
            IN IF e.end <= call.end
               THEN tree' = clear_state_bit(t, s, call.bits) /\ GoOnAfter(e.end)
               ELSE tree' = t /\ GoOnAt(call.start)
    /\ UNCHANGED <<want, saved>>

\* Faulty variant: clears the second half.
ClearSplitTailSecond ==
    /\ call.kind = "clear"
    /\ \E e \in Found :
         /\ call.start <= e.start /\ e.start <= call.end /\ e.end > call.end
         /\ tree' = clear_state_bit(split_state(tree, e, call.end + 1),
                                    SecondHalf(e, call.end + 1), call.bits)
    /\ call' = NoCall
    /\ UNCHANGED <<want, saved>>

ClearSplitTail ==
    /\ call.kind = "clear"
    /\ \E e \in Found :
         /\ call.start <= e.start /\ e.start <= call.end /\ e.end > call.end
         /\ tree' = clear_state_bit(split_state(tree, e, call.end + 1),
                                    FirstHalf(e, call.end + 1), call.bits)
    /\ call' = NoCall
    /\ UNCHANGED <<want, saved>>

ClearWhole ==
    /\ call.kind = "clear"
    /\ \E e \in Found :
         /\ call.start <= e.start /\ e.end <= call.end
         /\ tree' = clear_state_bit(tree, e, call.bits)
         /\ GoOnAfter(e.end)
    /\ UNCHANGED <<want, saved>>

-----------------------------------------------------------------------------
(* Private pointers *)

StateAt(s) == {e \in search_cache_extent(tree, s) : e.start = s}
set_state_private(s, p) ==
    /\ call = NoCall
    /\ \E e \in StateAt(s) : tree' = (tree \ {e}) \cup {[e EXCEPT !.xprivate = p]}
    /\ saved' = [saved EXCEPT ![s] = p]
    /\ UNCHANGED <<call, want>>
\* The callers store pointers in extents that they locked.
Queued(s) == \E e \in StateAt(s) : e.bits \cap IoBits # {}
get_state_private(s) == {e.xprivate : e \in StateAt(s)}

-----------------------------------------------------------------------------
(* Lookups *)

FoundFrom(s, b) == {e \in tree : e.end >= s /\ e.bits \cap b # {}}

\* find_first_extent_bit: the first extent from s on that has a bit of b.
find_first_extent_bit(s, b) ==
    {e \in FoundFrom(s, b) : \A f \in FoundFrom(s, b) : e.start <= f.start}

\* test_range_bit: the walk over the extents that overlap s .. t.  With filled
\* it stops at a hole at s or behind an extent, and at an extent without b.
Overlap(s, t) == {e \in tree : e.end >= s /\ e.start <= t}
test_range_bit(s, t, b, filled) ==
    LET range == Overlap(s, t) IN
    IF filled
    THEN /\ \A e \in range : e.bits \cap b # {}
         /\ \A x \in {s} \cup {y \in s .. t : \E e \in range : e.end = y - 1} :
               \E e \in range : x \in e.start .. e.end
    ELSE \E e \in range : e.bits \cap b # {}

-----------------------------------------------------------------------------
Round == \/ SetRest \/ SetWhole \/ SetSplitHead \/ SetHole \/ SetSplitTail
         \/ ClearNothing \/ ClearSplitHead \/ ClearSplitTail \/ ClearWhole
Next == \/ Round \/ BeginMark \/ BeginUnmark
        \/ \E c \in SetCalls : BeginSet(c)
        \/ \E c \in ClearCalls : BeginClear(c)
        \/ \E s \in Offsets, p \in Privates : Queued(s) /\ set_state_private(s, p)
Spec == Init /\ [][Next]_vars
\* A call runs to its end before the program goes on.
FairSpec == Spec /\ WF_vars(Round)

-----------------------------------------------------------------------------
(* How the allocator uses the trees *)

\* Calls that lock whole extents: alloc_tree_block and btrfs_free_extent queue
\* tree blocks, btrfs_add_block_group and btrfs_read_block_groups add groups.
LockCalls == {c \in SetCalls : c.bits \cap IoBits # {}}
Same(c, g) == c.start = g.start /\ c.end = g.end
Meets(c, g) == c.start <= g.end /\ g.start <= c.end

\* Locked extents do not overlap and are marked with other bits
\* (update_block_group).  They lose the lock with all other bits
\* (finish_current_insert, btrfs_free_block_groups) or keep it
\* (btrfs_write_dirty_block_groups).  Elsewhere ranges are set and cleared as
\* they come, with one bit b (set_extent_dirty, clear_extent_dirty).
UsedWith(b) ==
    /\ MarkBits \cap IoBits = {}
    /\ \A g, h \in LockCalls : Same(g, h) \/ ~Meets(g, h)
    /\ \A c \in SetCalls \ LockCalls : c.bits = {b} /\ \A g \in LockCalls : ~Meets(c, g)
    /\ \A c \in ClearCalls :
          \/ b \in c.bits /\ \A g \in LockCalls : ~Meets(c, g)
          \/ /\ \E g \in LockCalls : Same(c, g)
             /\ c.bits = Bits \/ c.bits \cap IoBits = {}
AsUsed == \E b \in Bits : UsedWith(b)

-----------------------------------------------------------------------------
(* Properties *)

\* The states are well formed and the loop variable stays in the call's range.
TypeOK ==
    /\ tree \subseteq States
    /\ \A e \in tree : e.start <= e.end
    /\ call = NoCall \/ (/\ call \in [kind : {"set", "clear"}, start : Offsets,
                                      end : Offsets, bits : SUBSET Bits]
                         /\ call.start <= call.end)
    /\ want \in [Offsets -> SUBSET Bits]
    /\ saved \in [Offsets -> Privates \cup {NoPrivate}]

\* insert_cache_extent never meets an overlapping extent: the BUG_ONs after
\* insert_state and split_state (-EEXIST) are unreachable.
Disjoint ==
    \A e, f \in tree : e # f => e.end < f.start \/ f.end < e.start

\* When a call has returned, every offset has exactly the bits that the calls
\* so far asked for: set_extent_bits sets its range and nothing else,
\* clear_extent_bits clears its range and nothing else.
CallsExact == call = NoCall => \A x \in Offsets : BitsAt(tree, x) = want[x]

\* No two neighbours that merge_state would join are left apart, so that
\* find_first_extent_bit returns whole runs to the allocator.
FullyMerged ==
    call = NoCall => \A e, f \in tree :
        e.end + 1 = f.start /\ e.bits = f.bits => e.bits \cap IoBits # {}

\* The two lookups answer as a map from offsets to bits would: the queues of
\* the allocator lose no block and find no block twice.
BitsFound ==
    call = NoCall => \A b \in SUBSET Bits : \A s \in Offsets :
        LET hits == {x \in s .. MaxOff : want[x] \cap b # {}} IN
        /\ (find_first_extent_bit(s, b) = {}) = (hits = {})
        /\ \A e \in find_first_extent_bit(s, b) :
              /\ \A x \in hits : e.start <= x
              /\ \A x \in e.start .. e.end : want[x] \cap b # {}
        /\ \A t \in s .. MaxOff :
              /\ test_range_bit(s, t, b, TRUE) = (s .. t \subseteq hits)
              /\ test_range_bit(s, t, b, FALSE) = ((s .. t) \cap hits # {})

\* A private pointer stays with its extent until the extent is cleared: the
\* queues keep their pending operations and the block groups are found again.
PrivateKept ==
    call = NoCall => \A s \in Offsets :
        saved[s] # NoPrivate => get_state_private(s) = {saved[s]}

\* What the users of a state tree read is what was stored in it: runs of bits,
\* whole ones, and private pointers.
LookupsExact == BitsFound /\ FullyMerged /\ PrivateKept

\* The loops end.
CallReturns == (call # NoCall) ~> (call = NoCall)
=============================================================================

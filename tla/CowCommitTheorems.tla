------------------------- MODULE CowCommitTheorems --------------------------
(***************************************************************************)
(* The theorems about CowCommit: its two inductive invariants, the safety  *)
(* properties that follow from them, and that it implements AtomicStore.   *)
(***************************************************************************)
EXTENDS CowCommitExtentTree, CowCommitFileTree, CowCommitControl, CowCommitDevice,
        FiniteSetTheorems

\* The blocks are finitely many, so the extent items can be counted.
LEMMA BlocksAreCounted == Counting
<1> SUFFICES ASSUME NEW S \in SUBSET Blocks
             PROVE  /\ Cardinality(S) \in Nat
                    /\ \A b \in Blocks \ S : Cardinality(S \cup {b}) = Cardinality(S) + 1
                    /\ \A b \in S : Cardinality(S \ {b}) = Cardinality(S) - 1
  BY Zenon DEF Counting
<1>1. IsFiniteSet(S)
  BY CowAssumption, FS_Subset, Zenon
<1>2. Cardinality(S) \in Nat
  BY <1>1, FS_CardinalityType, Zenon
<1>3. \A b \in Blocks \ S : Cardinality(S \cup {b}) = Cardinality(S) + 1
  BY <1>1, FS_AddElement, Zenon
<1>4. \A b \in S : Cardinality(S \ {b}) = Cardinality(S) - 1
  BY <1>1, FS_RemoveElement, Zenon
<1> QED
  BY <1>2, <1>3, <1>4, Zenon

\* Next is made of the actions of the four modules.
LEMMA NextSteps ==
    Next <=> ExtentTreeStep \/ FileTreeStep \/ CommitStep \/ Call \/ DeviceStep
  BY Zenon DEF Next, Step, ExtentTreeStep, FileTreeStep, CommitStep, DeviceStep

\* A step that changes nothing keeps both invariants and is silent.
LEMMA StutterKeeps ==
    ASSUME IInv, UNCHANGED vars
    PROVE  IInv' /\ Silent /\ (FsckInv => FsckInv')
<1>1. /\ TypeOK /\ ControlInv /\ SuperInv /\ DiskInv /\ MemInv /\ SpaceInv
      /\ FreshInv /\ DirtyInv /\ RootInv
  BY Parts, Zenon
<1>2. /\ UNCHANGED <<disk, super, cache, dirty, node, commit_root, dirty_roots,
                     free_space_cache, pinned_extents, extent_ins, pending_del,
                     generation, used, bg_dirty>>
      /\ UNCHANGED <<item, cont, goal, pc, mirror, calls, crashes>>
  BY Zenon DEF vars, memory, control
<1>3. IInv'
  <2>1. DiskNode' = DiskNode /\ Durable' = Durable /\ DiskInv' /\ SuperInv'
    BY <1>1, <1>2, DiskFrame, Zenon
  <2>2. MemInv' /\ SpaceInv'
    BY <1>1, <1>2, <2>1, MemFrame, SpaceFrame, SMTT(30)
  <2>3. TypeOK' /\ DirtyInv'
    BY <1>1, <1>2, <2>1, SMTT(30) DEF TypeOK, DirtyInv
  <2>4. ControlInv'
    BY <1>1, <1>2 DEF ControlInv, NothingPending
  <2>5. FreshInv'
    BY <1>1, <1>2, <2>1 DEF FreshInv, Fresh, Where, Changing
  <2>6. RootInv'
    BY <1>1, <1>2, <2>1, Zenon DEF RootInv, Synced
  <2> QED
    BY <2>1, <2>2, <2>3, <2>4, <2>5, <2>6, Zenon DEF IInv
<1>4. ASSUME FsckInv PROVE FsckInv'
  <2>1. RootItemInv /\ CountInv
    BY <1>4, Zenon DEF FsckInv
  <2>2. RootItemInv'
    BY <1>2, <2>1, RootItemsControl, Zenon
  <2>3. CountInv'
    <3>1. Fresh(node["extent_root"])' <=> Fresh(node["extent_root"])
      BY <1>2, Zenon DEF Fresh
    <3> QED
      BY <1>2, <2>1, <3>1, Zenon DEF CountInv, Where
  <2> QED
    BY <1>2, <1>3, <1>4, <2>2, <2>3, ControlFsck, Zenon
<1>5. Silent
  BY <1>2, CommittedKept, Zenon DEF Silent, Open, Staged, FsVal, At
<1> QED
  BY <1>3, <1>4, <1>5, Zenon

\* Every step of the program, a crash included, preserves the invariant.
LEMMA NextInv == IInv /\ [Next]_vars => IInv'
  BY NextSteps, ExtentTreeInv, FileTreeInv, ControlInvKept, DeviceInv, StutterKeeps, Zenon

\* The invariant of the trees, the allocator's sets and the control state
\* holds in every reachable state.
THEOREM Inductive == Spec => []IInv
<1>1. Init => IInv
  BY BlocksAreCounted, InitInv, Zenon
<1> QED
  BY <1>1, NextInv, PTL DEF Spec

\* The variables keep their types.
THEOREM TypeCorrect == Spec => []TypeOK
<1>1. IInv => TypeOK
  BY Zenon DEF IInv
<1> QED
  BY <1>1, Inductive, PTL

\* find_free_extent never offers a block that is committed, in use in memory
\* or waiting to be freed.
THEOREM AllocatorSafe == Spec => []NeverHandedOutTwice
BY FreeIsFree, Inductive, PTL

\* No device write changes a block of the committed trees, so a crash at any
\* moment finds the last committed state.
THEOREM CommittedSafe == Spec => CommittedNotOverwritten
BY CommittedStays, Inductive, PTL DEF Spec, CommittedNotOverwritten

\* Every step of the program, a crash included, preserves FsckInv.
LEMMA NextFsck ==
    ASSUME Counting, FsckInv, IInv', [Next]_vars
    PROVE  FsckInv'
<1>1. IInv
  BY Zenon DEF FsckInv
<1> QED
  BY <1>1, NextSteps, ExtentTreeFsck, FileTreeFsck, ControlFsckKept, DeviceFsck, StutterKeeps,
     Zenon

\* FsckInv, the invariant of the trees, the extent items and the counts in
\* memory and on the device, holds in every reachable state.
THEOREM BooksInductive == Spec => []FsckInv
<1>1. Init => FsckInv
  BY BlocksAreCounted, InitInv, InitFsck, Zenon
<1>2. FsckInv /\ [Next]_vars => FsckInv'
  <2> SUFFICES ASSUME FsckInv, [Next]_vars PROVE FsckInv'
    BY Zenon
  <2>1. IInv
    BY Zenon DEF FsckInv
  <2>2. IInv'
    BY <2>1, NextInv, Zenon
  <2> QED
    BY <2>2, BlocksAreCounted, NextFsck, Zenon
<1> QED
  BY <1>1, <1>2, PTL DEF Spec

\* What a crash leaves at any moment is what btrfs check accepts: pointers name
\* the generations of the blocks they lead to, no block is in two places, the
\* extent items are exactly the blocks in use, and both byte counts match.
THEOREM CrashLeavesCleanTrees == Spec => []FsckClean
BY BooksAreClean, BooksInductive, PTL

\* No extent item is inserted twice or missed when it is to be deleted, and
\* between transactions a block is free exactly when no tree holds it, has an
\* item exactly when one does, and is counted once.
THEOREM NothingLeaks == Spec => []SpaceAccounted
BY BooksAccount, BooksInductive, PTL

\* A step of the program is a step of the store.
LEMMA StepRefines ==
    IInv /\ IInv' /\ [Next]_vars => [Atomic!Next]_(Atomic!store)
<1> SUFFICES ASSUME IInv, IInv', [Next]_vars PROVE [Atomic!Next]_(Atomic!store)
  BY Zenon
<1>1. \/ Silent
      \/ ~Open /\ Open' /\ Committed' = Committed /\ Staged' = Staged
      \/ /\ Open /\ Open' /\ Committed' = Committed
         /\ \E k \in FsLeaves, c \in Values \cup {NoValue} : Staged' = [Staged EXCEPT ![k] = c]
      \/ Open /\ Open' /\ Committed' = Staged /\ Staged' = Staged
      \/ /\ Open /\ ~Open' /\ Committed = Staged
         /\ Committed' = Committed /\ Staged' = Staged
      \/ ~Open' /\ Staged' = Committed /\ Committed' = Committed
  BY NextSteps, ExtentTreeSilent, FileTreeRefines, ControlRefines, DeviceRefines, StutterKeeps,
     Zenon
<1> QED
  BY <1>1, Mapping, Zenon DEF Silent, Open, Atomic!Next, Atomic!store, Atomic!Begin,
     Atomic!Commit, Atomic!Return, Atomic!Lose, Atomic!Change

\* The transaction code implements the store it promises a tool: a commit
\* makes all changes since the last one durable in one step, and a crash
\* between any two steps, device writes included, loses what was not
\* committed and nothing else.
THEOREM ImplementsStore == Spec => ImplementsAtomicStore
<1>1. Init => Atomic!Init
  BY BlocksAreCounted, InitInv, InitRefines, Zenon
<1> QED
  BY <1>1, StepRefines, Inductive, PTL DEF Spec, ImplementsAtomicStore, Atomic!Spec
=============================================================================

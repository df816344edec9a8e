------------------------------ MODULE Backrefs ------------------------------
(***************************************************************************)
(* The references recorded for one extent (extent-tree.c).  An extent item *)
(* [refs, full, inl, keyed] has a count, the FULL_BACKREF flag, a sequence *)
(* of inline references and, once these do not fit, keyed items beside it. *)
(* A reference is an entry [type, key, id, count]: id is <<root, owner,    *)
(* offset>> for file data, <<parent>> when it is shared, <<root>> for a    *)
(* tree block; key is the hash of id, or its only member.  A keyed item    *)
(* has its place, off, as well.                                            *)
(***************************************************************************)
EXTENDS Integers, Sequences, FiniteSets

CONSTANTS MAX_INLINE,      \* inline references that fit (BTRFS_MAX_EXTENT_ITEM_SIZE)
          HASHES           \* number of different hash values

FIRST_FREE == 256
TREE_BLOCK_REF == 176
EXTENT_DATA_REF == 178
SHARED_BLOCK_REF == 182
SHARED_DATA_REF == 184
hash_extent_data_ref(root, owner, offset) == (root + owner + offset) % HASHES
extent_ref_type(parent, owner) ==
    IF owner < FIRST_FREE THEN IF parent > 0 THEN SHARED_BLOCK_REF ELSE TREE_BLOCK_REF
    ELSE IF parent > 0 THEN SHARED_DATA_REF ELSE EXTENT_DATA_REF
Ref(parent, root, owner, offset) ==
    LET type == extent_ref_type(parent, owner)
        id == IF parent > 0 THEN <<parent>> ELSE IF type = TREE_BLOCK_REF THEN <<root>> ELSE <<root, owner, offset>>
    IN  [type |-> type, id |-> id, count |-> 1,
         key |-> IF type = EXTENT_DATA_REF THEN hash_extent_data_ref(root, owner, offset) ELSE id[1]]
IsData(ref) == ref.type \in {EXTENT_DATA_REF, SHARED_DATA_REF}
Same(e, ref) == e.type = ref.type /\ e.id = ref.id      \* match_extent_data_ref
NewItem == [refs |-> 0, full |-> FALSE, inl |-> <<>>, keyed |-> {}]
BAD == [NewItem EXCEPT !.refs = -1]      \* an assertion fails

\* lookup_inline_extent_backref: types go up and keys go down along the item;
\* where the reference is, or where it would be inserted.
Past(e, ref) == e.key < ref.key
RECURSIVE lookup_inline(_, _, _)
lookup_inline(it, ref, i) ==
    IF i > Len(it.inl) THEN [at |-> i, found |-> FALSE]
    ELSE LET e == it.inl[i] IN
         IF ref.type < e.type THEN [at |-> i, found |-> FALSE]
         ELSE IF ref.type > e.type THEN lookup_inline(it, ref, i + 1)
         ELSE IF Same(e, ref) THEN [at |-> i, found |-> TRUE]
         ELSE IF Past(e, ref) THEN [at |-> i, found |-> FALSE]
         ELSE lookup_inline(it, ref, i + 1)
\* No inline reference is added to a full item, or while there is a keyed one.
MustBeKeyed(it) == Len(it.inl) >= MAX_INLINE \/ it.keyed # {}
setup_inline_extent_backref(it, ref, at) ==
    [it EXCEPT !.refs = @ + 1, !.inl = SubSeq(@, 1, at - 1) \o <<ref>> \o SubSeq(@, at, Len(@))]
\* A count that comes to nothing takes the reference with it.
update_inline_extent_backref(it, at, mod) ==
    LET n == it.inl[at].count + mod
        one == [it EXCEPT !.refs = @ + mod]
    IN  IF n > 0 THEN [one EXCEPT !.inl[at].count = n]
        ELSE [one EXCEPT !.inl = SubSeq(@, 1, at - 1) \o SubSeq(@, at + 1, Len(@))]

\* insert_extent_data_ref: a place taken by another reference is passed over.
RECURSIVE InsertAt(_, _, _)
InsertAt(it, ref, off) ==
    LET there == {e \in it.keyed : e.type = ref.type /\ e.off = off} IN
    IF there = {} THEN [it EXCEPT !.keyed = @ \cup {[type |-> ref.type, key |-> ref.key, id |-> ref.id, count |-> 1, off |-> off]}]
    ELSE LET e == CHOOSE x \in there : TRUE IN
         IF ~IsData(ref) THEN BAD      \* insert_tree_block_ref: -EEXIST
         ELSE IF Same(e, ref) THEN [it EXCEPT !.keyed = (@ \ {e}) \cup {[e EXCEPT !.count = @ + 1]}]
         ELSE InsertAt(it, ref, off + 1)
insert_extent_backref(it, ref) == InsertAt([it EXCEPT !.refs = @ + 1], ref, ref.key)

\* btrfs_inc_extent_ref on the item of the extent
Inc(it, ref) ==
    LET l == lookup_inline(it, ref, 1) IN
    IF l.found THEN IF IsData(ref) THEN update_inline_extent_backref(it, l.at, 1) ELSE BAD
    ELSE IF MustBeKeyed(it) THEN insert_extent_backref(it, ref)
    ELSE setup_inline_extent_backref(it, ref, l.at)

\* lookup_extent_data_ref and lookup_tree_block_ref: the search goes on from the
\* place of the hash as long as the items are data references.
Reaches(e, ref) == e.off = ref.key \/ (e.type = EXTENT_DATA_REF /\ e.off > ref.key)
lookup_keyed(it, ref) == {e \in it.keyed : /\ Same(e, ref) /\ Reaches(e, ref)
                                           /\ \A f \in it.keyed : Same(f, ref) => e.off <= f.off}
\* remove_extent_data_ref
remove_keyed(it, e) ==
    [it EXCEPT !.keyed = (@ \ {e}) \cup (IF e.count > 1 THEN {[e EXCEPT !.count = @ - 1]} ELSE {})]
\* The last reference goes with the item, which it must lie beside
\* (BUG_ON(path->slots[0] != extent_slot + 1)) and count for (extent_data_ref_count).
LastIsBad(it, e) == it.refs = 1 /\ (e.count # 1 \/ Cardinality(it.keyed) # 1)

\* __free_extent on the item: refs = 0 means that the extent is free.
Dec(it, ref) ==
    LET l == lookup_inline(it, ref, 1)
        k == lookup_keyed(it, ref)
    IN  IF l.found THEN IF it.refs = 1 /\ it.inl[l.at].count # 1 THEN BAD ELSE update_inline_extent_backref(it, l.at, -1)
        ELSE IF k = {} THEN BAD      \* unable to find ref: -EIO
        ELSE LET e == CHOOSE x \in k : TRUE IN
             IF LastIsBad(it, e) THEN BAD ELSE remove_keyed([it EXCEPT !.refs = @ - 1], e)

\* How often a reference is recorded, all told.
RECURSIVE SumCounts(_)
SumCounts(S) == IF S = {} THEN 0 ELSE LET e == CHOOSE x \in S : TRUE IN e[2].count + SumCounts(S \ {e})
Recorded(it, type, id) ==
    SumCounts({<<i, it.inl[i]>> : i \in {j \in DOMAIN it.inl : it.inl[j].type = type /\ it.inl[j].id = id}}) +
    SumCounts({<<e.off, e>> : e \in {f \in it.keyed : f.type = type /\ f.id = id}})
RecordedIds(it) == {<<it.inl[i].type, it.inl[i].id>> : i \in DOMAIN it.inl} \cup {<<e.type, e.id>> : e \in it.keyed}
=============================================================================

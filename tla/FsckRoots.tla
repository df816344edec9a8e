------------------------------ MODULE FsckRoots ------------------------------
(***************************************************************************)
(* The part of btrfs check that decides which subvolumes are referenced    *)
(* (cmds-check.c): the walk over the tree of tree roots collects, for      *)
(* every subvolume, the names by which others refer to it; a name is told  *)
(* by a DIR_ITEM and a DIR_INDEX in the referring subvolume (found by the  *)
(* walk of FsckInodes) and by a ROOT_REF and a ROOT_BACKREF item.          *)
(*                                                                         *)
(* world.tree is the sequence of root tree items in key order, world.names *)
(* the directory entries for subvolumes found in each tree, world.orphans  *)
(* the ids that have an orphan item.                                       *)
(***************************************************************************)
EXTENDS Integers, FiniteSets, SequencesExt

CONSTANTS Worlds,
          FsTree,       \* BTRFS_FS_TREE_OBJECTID
          TreeReloc     \* BTRFS_TREE_RELOC_OBJECTID

VARIABLES world,
          slot,         \* items of the root tree processed so far
          root_cache,   \* id -> root_record
          reported      \* ids check_root_refs complains about, or the sequence <<>>

vars == <<world, slot, root_cache, reported>>

FirstFree == 6          \* BTRFS_FIRST_FREE_OBJECTID: ids above it are subvolumes

get_root_rec(cache, id) ==
    IF id \in DOMAIN cache THEN cache
    ELSE (id :> [found_root_item |-> FALSE, found_ref |-> 0, backrefs |-> <<>>]) @@ cache

Same(b, l) == b.ref_root = l.ref_root /\ b.dir = l.dir /\ b.name = l.name

get_root_backref(backrefs, l) ==
    IF \E k \in DOMAIN backrefs : Same(backrefs[k], l) THEN backrefs
    ELSE Append(backrefs, [ref_root |-> l.ref_root, dir |-> l.dir, name |-> l.name,
                           index |-> l.index, found |-> {}, reachable |-> FALSE, errors |-> {}])

\* found_ref counts names for which both the entry and the ROOT_REF are known.
NewRef(b, type) ==
    \/ type = "dir_item" /\ "root_ref" \in b.found
    \/ type = "root_ref" /\ "root_ref" \notin b.found /\ "dir_item" \in b.found

add_root_backref(cache0, id, l, type, errors) ==
    LET cache == get_root_rec(cache0, id)
        refs == get_root_backref(cache[id].backrefs, l)
        k == SelectInSeq(refs, LAMBDA b : Same(b, l))
        b == refs[k]
        fresh == b.found \ {"dir_item"} = {}
        bad == (IF type # "dir_item" /\ ~fresh /\ b.index # l.index THEN {"INDEX_UNMATCH"} ELSE {})
                 \cup (IF type \in {"root_ref", "root_backref"} \cap b.found THEN {"DUP"} ELSE {})
        c == [b EXCEPT !.errors = @ \cup errors \cup bad,
                       !.index = IF type # "dir_item" /\ fresh THEN l.index ELSE @,
                       !.found = @ \cup {type},
                       !.reachable = {"dir_item", "root_ref"} \subseteq b.found \cup {type}]
    IN [cache EXCEPT ![id].backrefs = [refs EXCEPT ![k] = c],
                     ![id].found_ref = IF NewRef(b, type) THEN @ + 1 ELSE @]

RootRefs(child) == {k \in DOMAIN world.tree : world.tree[k].type = "root_backref"
                                               /\ world.tree[k].child = child}

\* 1: the parent and the child know of each other; 0: the child has other
\* parents only; -1: nothing is known.
is_child_root(parent, child) ==
    IF \E k \in DOMAIN world.tree :
          world.tree[k].type = "root_ref" /\ world.tree[k].parent = parent /\ world.tree[k].child = child
      THEN 1
    ELSE IF \E k \in RootRefs(child) : world.tree[k].parent = parent THEN 1
    ELSE IF RootRefs(child) # {} THEN 0 ELSE -1

\* The entries a tree's directories hold for other subvolumes.
merge_root_recs(cache, root) ==
    IF root = TreeReloc THEN cache
    ELSE LET one(c, n) ==
               IF is_child_root(root, n.child) = 0 THEN c
               ELSE LET l == [ref_root |-> root, dir |-> n.dir, name |-> n.name, index |-> n.index]
                        d == IF "dir_item" \in n.found
                               THEN add_root_backref(c, n.child, l, "dir_item", n.errors) ELSE c
                    IN IF "dir_index" \in n.found
                         THEN add_root_backref(d, n.child, l, "dir_index", n.errors) ELSE d
         IN FoldLeft(one, cache, world.names[root])

\* check_fs_root, as far as it concerns the references (the inodes of the tree are
\* FsckInodes); a tree being deleted (refs = 0) has no names.
check_fs_root(cache, it) ==
    LET c == IF it.id = TreeReloc THEN cache ELSE get_root_rec(cache, it.id)
        d == IF it.id # TreeReloc /\ it.refs > 0 THEN [c EXCEPT ![it.id].found_root_item = TRUE] ELSE c
    IN IF it.refs > 0 THEN merge_root_recs(d, it.id) ELSE d

process_root_ref(cache, it) ==
    add_root_backref(cache, it.child,
        [ref_root |-> it.parent, dir |-> it.dir, name |-> it.name, index |-> it.index],
        it.type, IF it.long THEN {"NAME_TOO_LONG"} ELSE {})

fs_root_objectid(id) == id = FsTree \/ id = TreeReloc \/ id >= FirstFree

\* check_fs_roots: one item of the root tree.
check_fs_roots ==
    /\ slot < Len(world.tree)
    /\ slot' = slot + 1
    /\ \E it \in {world.tree[slot + 1]} :
         root_cache' = IF it.type = "root_item"
                         THEN IF fs_root_objectid(it.id) THEN check_fs_root(root_cache, it) ELSE root_cache
                         ELSE process_root_ref(root_cache, it)
    /\ UNCHANGED <<world, reported>>

\* One record of one round of check_root_refs: names in unreferenced subvolumes go.
Prune(cache, id) ==
    IF cache[id].found_ref = 0 THEN cache
    ELSE LET gone == {k \in DOMAIN cache[id].backrefs :
                        /\ cache[id].backrefs[k].reachable
                        /\ cache[id].backrefs[k].ref_root \in DOMAIN cache
                             => cache[cache[id].backrefs[k].ref_root].found_ref = 0}
             refs == [k \in DOMAIN cache[id].backrefs |->
                        IF k \in gone THEN [cache[id].backrefs[k] EXCEPT !.reachable = FALSE]
                                      ELSE cache[id].backrefs[k]]
         IN [cache EXCEPT ![id].backrefs = refs, ![id].found_ref = @ - Cardinality(gone)]

\* search_cache_extent / next_cache_extent: the ids in order.
Ascending(S) == [k \in 1 .. Cardinality(S) |-> CHOOSE x \in S : Cardinality({y \in S : y < x}) = k - 1]

\* A plausible slip: one round only.
PruneAll_Once(cache) ==
    FoldLeft(Prune, cache, Ascending(DOMAIN cache))

\* Rounds until no record loses its last name.
RECURSIVE PruneAll(_)
PruneAll(cache) ==
    LET next == FoldLeft(Prune, cache, Ascending(DOMAIN cache)) IN
    IF \E i \in DOMAIN cache : cache[i].found_ref > 0 /\ next[i].found_ref = 0
      THEN PruneAll(next) ELSE next

Complains(rec, id) ==
    LET missing(b) == {"dir_item", "dir_index", "root_ref", "root_backref"} \ b.found IN
    IF rec.found_ref = 0 /\ id >= FirstFree /\ (id \in world.orphans \/ ~rec.found_root_item) THEN FALSE
    ELSE \/ rec.found_ref = 0 /\ id >= FirstFree
         \/ rec.found_ref > 0 /\ ~rec.found_root_item
         \/ \E k \in DOMAIN rec.backrefs : /\ rec.backrefs[k].reachable
                                           /\ rec.backrefs[k].errors \cup missing(rec.backrefs[k]) # {}

check_root_refs ==
    /\ slot = Len(world.tree) /\ reported = <<>>
    /\ \E c \in {PruneAll([get_root_rec(root_cache, FsTree) EXCEPT ![FsTree].found_ref = 1])} :
         /\ root_cache' = c
         /\ reported' = <<{i \in DOMAIN c : Complains(c[i], i)}>>
    /\ UNCHANGED <<world, slot>>

Init == world \in Worlds /\ slot = 0 /\ root_cache = <<>> /\ reported = <<>>
Next == check_fs_roots \/ check_root_refs
Spec == Init /\ [][Next]_vars

-----------------------------------------------------------------------------
(* The same, from the items alone.                                         *)

TreeItems == {world.tree[k] : k \in DOMAIN world.tree}
Alive(id) == \E it \in TreeItems : it.type = "root_item" /\ it.id = id /\ it.refs > 0
NamesIn(p) == IF Alive(p) /\ p # TreeReloc /\ fs_root_objectid(p)
                THEN {n \in ToSet(world.names[p]) : is_child_root(p, n.child) # 0} ELSE {}
Of(p, c, l) == {n \in NamesIn(p) : n.child = c /\ n.dir = l.dir /\ n.name = l.name}
RefItems(type, p, c, l) ==
    {it \in TreeItems : it.type = type /\ it.parent = p /\ it.child = c /\ it.dir = l.dir /\ it.name = l.name}
Links(p, c) ==
    {[dir |-> n.dir, name |-> n.name] : n \in {m \in NamesIn(p) : m.child = c}}
      \cup {[dir |-> it.dir, name |-> it.name] :
              it \in {j \in TreeItems : j.type # "root_item" /\ j.parent = p /\ j.child = c}}
HasEntry(p, c, l) == \E n \in Of(p, c, l) : "dir_item" \in n.found
Carries(p, c, l) == HasEntry(p, c, l) /\ RefItems("root_ref", p, c, l) # {}

Ids == {FsTree} \cup {it.id : it \in {j \in TreeItems : j.type = "root_item"}}
         \cup UNION {{it.parent, it.child} : it \in {j \in TreeItems : j.type # "root_item"}}
         \cup UNION {{n.child : n \in NamesIn(p)} : p \in DOMAIN world.names}

\* The largest set of subvolumes each of which is named by another of the set.
Referenced ==
    LET supported(S) == \A c \in S \ {FsTree} : \E p \in S : \E l \in Links(p, c) : Carries(p, c, l)
    IN UNION {S \in SUBSET Ids : FsTree \in S /\ supported(S)}

FullName(p, c, l) ==
    LET idx == {n.index : n \in Of(p, c, l)} \cup
               {it.index : it \in RefItems("root_ref", p, c, l) \cup RefItems("root_backref", p, c, l)}
    IN /\ \E n \in Of(p, c, l) : n.found = {"dir_item", "dir_index"} /\ n.errors = {}
       /\ RefItems("root_backref", p, c, l) # {}
       /\ \A it \in RefItems("root_ref", p, c, l) \cup RefItems("root_backref", p, c, l) : ~it.long
       /\ Cardinality(idx) = 1

WrongRoot(c) ==
    IF c \notin Referenced THEN c >= FirstFree /\ Alive(c) /\ c # TreeReloc /\ c \notin world.orphans
    ELSE \/ ~Alive(c)
         \/ c # FsTree /\ \E p \in Referenced : \E l \in Links(p, c) : Carries(p, c, l) /\ ~FullName(p, c, l)

\* Whatever the order of the root tree's items, check_root_refs complains about a
\* subvolume exactly when it is alive but not referenced, or referenced but gone,
\* or one of the names that carry it is told incompletely.
RootsAreJudged ==
    reported # <<>> => reported[1] = {c \in Ids : WrongRoot(c)}

\* found_ref is the number of names that still carry the subvolume, so it reaches
\* zero exactly for those that nothing reachable names ("fixme: this can not detect
\* circular references": a cycle that nothing else names keeps itself alive, which
\* is the largest fixed point).
CountsAreNames ==
    /\ \A c \in DOMAIN root_cache : c # FsTree =>
          root_cache[c].found_ref = Cardinality({k \in DOMAIN root_cache[c].backrefs :
                                                   root_cache[c].backrefs[k].reachable})
    /\ reported # <<>> => {c \in DOMAIN root_cache : root_cache[c].found_ref > 0} = Referenced

-----------------------------------------------------------------------------
\* The instance TLC checks: root trees with subvolumes and the names that
\* lead to them, each name complete, absent or partly written.

\* Parent and child of a possible name, and how much of it is written.
Pairs == {<<5, 7>>, <<5, 8>>, <<7, 8>>, <<8, 7>>}
Pat == {"none", "full", "noentry", "noindex", "noref", "noback", "badindex", "entryonly", "otherdir"}
Idx(p) == p[1] + p[2]
Entry(p, x) == IF x \in {"none", "noentry"} THEN <<>> ELSE
   <<[child |-> p[2], dir |-> 1, name |-> "n", index |-> Idx(p), errors |-> {},
      found |-> IF x = "noindex" THEN {"dir_item"} ELSE {"dir_item", "dir_index"}]>>
RI(type, p, x) == [type |-> type, parent |-> p[1], child |-> p[2], dir |-> IF x = "otherdir" /\ type = "root_ref" THEN 2 ELSE 1,
     name |-> "n", index |-> IF x = "badindex" /\ type = "root_backref" THEN 3 ELSE Idx(p), long |-> FALSE]
RefSet(p, x) == (IF x \in {"none", "noref", "entryonly"} THEN {} ELSE {RI("root_ref", p, x)})
           \cup (IF x \in {"none", "noback", "entryonly"} THEN {} ELSE {RI("root_backref", p, x)})
KeyOf(it) == IF it.type = "root_item" THEN <<it.id, 1, 0>> ELSE IF it.type = "root_backref" THEN <<it.child, 2, it.parent>> ELSE <<it.parent, 3, it.child>>
Lt(a, b) == LET x == KeyOf(a) y == KeyOf(b) IN x[1] < y[1] \/ (x[1] = y[1] /\ (x[2] < y[2] \/ (x[2] = y[2] /\ x[3] < y[3])))
RootItem(i, r) == [type |-> "root_item", id |-> i, refs |-> r]
SortBy(S, L(_,_)) == [k \in 1 .. Cardinality(S) |-> CHOOSE x \in S : Cardinality({y \in S : L(y, x)}) = k - 1]
WorldOf(f, has, orph) ==
  LET P == DOMAIN f
      S == DOMAIN has
      after(p, q) == p[2] < q[2]
      from(r) == SortBy({p \in P : p[1] = r}, after)
  IN [tree |-> SortBy({RootItem(5, 1)} \cup {RootItem(i, has[i]) : i \in S} \cup UNION {RefSet(p, f[p]) : p \in P}, Lt),
      names |-> [r \in {5} \cup S |-> FlattenSeq([k \in DOMAIN from(r) |-> Entry(from(r)[k], f[from(r)[k]])])],
      orphans |-> orph]
\* Every pattern of a name in one place.
OneOdd == {g \in [Pairs -> Pat] : Cardinality({p \in Pairs : g[p] \notin {"none", "full"}}) <= 1}
\* A chain of subvolumes each named by the next, so that one that is not named
\* takes the others with it, in as many rounds.
Chain == {<<5, 10>>, <<10, 8>>, <<8, 7>>, <<5, 7>>}
MCWorlds == {WorldOf(f, h, o) : f \in OneOdd, h \in [{7, 8} -> {0, 1}], o \in {{}, {7}}}
      \cup {WorldOf(f, [i \in {7, 8, 10} |-> 1], o) : f \in [Chain -> {"none", "full", "noref"}], o \in {{}, {8}}}
=============================================================================

-------------------------- MODULE ExtentStateProofs --------------------------
(***************************************************************************)
(* The extent_state tree stays a set of disjoint extents, for any number   *)
(* of offsets, any bits and any calls: the BUG_ONs on -EEXIST in           *)
(* insert_state, set_extent_bits and clear_extent_bits cannot fire.        *)
(***************************************************************************)
EXTENDS ExtentState, WellFoundedInduction, TLAPS

\* A set of extents as the tree may hold it, at constant level.
Apart(e, f) == e.end < f.start \/ f.end < e.start
WellFormed(t) ==
    /\ t \subseteq States
    /\ \A e \in t : e.start <= e.end
    /\ \A e, f \in t : e # f => Apart(e, f)

\* An extent that meets no other can be inserted (insert_cache_extent).
LEMMA InsertOK ==
    ASSUME NEW t, WellFormed(t), NEW n \in States, n.start <= n.end,
           \A e \in t : Apart(e, n)
    PROVE  WellFormed(t \cup {n})
  BY Zenon DEF WellFormed, Apart

\* Taking extents away leaves the rest well formed (remove_cache_extent).
LEMMA RemoveOK ==
    ASSUME NEW t, WellFormed(t), NEW u, u \subseteq t
    PROVE  WellFormed(u)
  BY Zenon DEF WellFormed

\* An extent may be replaced by one inside it.
LEMMA ReplaceOK ==
    ASSUME NEW t, WellFormed(t), NEW e \in t, NEW f \in States,
           e.start <= f.start, f.start <= f.end, f.end <= e.end
    PROVE  WellFormed((t \ {e}) \cup {f})
  <1>1. WellFormed(t \ {e})
    BY RemoveOK, Zenon
  <1>2. \A g \in t \ {e} : Apart(g, f)
    <2> SUFFICES ASSUME NEW g \in t \ {e} PROVE Apart(g, f)
      BY Zenon
    <2>1. Apart(g, e) /\ g \in States /\ e \in States
      BY Zenon DEF WellFormed
    <2> QED
      BY <2>1 DEF Apart, States, Offsets
  <1> QED
    BY <1>1, <1>2, InsertOK, Zenon

\* The record updates of merge_state, split_state and clear_state_bit.
LEMMA Fields ==
    ASSUME ExtentAssumption, NEW e \in States, NEW x \in Offsets, NEW b \in SUBSET Bits
    PROVE  /\ [e EXCEPT !.start = x] \in States
           /\ [e EXCEPT !.start = x].start = x
           /\ [e EXCEPT !.start = x].end = e.end
           /\ [e EXCEPT !.bits = b] \in States
           /\ [e EXCEPT !.bits = b].start = e.start
           /\ [e EXCEPT !.bits = b].end = e.end
           /\ [e EXCEPT !.end = x, !.xprivate = NoPrivate] \in States
           /\ [e EXCEPT !.end = x, !.xprivate = NoPrivate].start = e.start
           /\ [e EXCEPT !.end = x, !.xprivate = NoPrivate].end = x
  BY Zenon DEF States

\* merge_state keeps the tree well formed.
LEMMA MergeOK ==
    ASSUME ExtentAssumption, NEW t, WellFormed(t), NEW e \in t
    PROVE  WellFormed(merge_state(t, e))
  <1> DEFINE prev == {o \in t : o.end = e.start - 1 /\ o.bits = e.bits}
             next == {o \in t : o.start = e.end + 1 /\ o.bits = e.bits}
             low == IF prev = {} THEN e.start ELSE (CHOOSE o \in prev : TRUE).start
             kept == IF next = {} THEN e ELSE CHOOSE o \in next : TRUE
             rest == t \ ({e} \cup prev \cup next)
             m == [kept EXCEPT !.start = low]
  <1>1. CASE e.bits \cap IoBits # {}
    BY <1>1, Zenon DEF merge_state
  <1>2. CASE e.bits \cap IoBits = {}
    <2>1. e \in States /\ e.start <= e.end /\ e.start \in Int /\ e.end \in Int
      BY DEF WellFormed, States, Offsets
    <2>2. /\ low \in Offsets /\ low <= e.start
          /\ low = e.start \/ \E o \in prev : low = o.start
      <3>1. CASE prev = {}
        BY <3>1, <2>1 DEF States
      <3>2. CASE prev # {}
        <4>1. PICK o \in prev : o = CHOOSE p \in prev : TRUE
          BY <3>2, Zenon
        <4>2. o \in States /\ o.start <= o.end /\ o.end = e.start - 1 /\ low = o.start
          BY <4>1, <3>2, Zenon DEF WellFormed
        <4>3. o \in prev /\ low = o.start
          BY <4>1, <4>2, Zenon
        <4> HIDE DEF low, prev
        <4>4. low \in Offsets /\ low <= e.start
          BY <4>2, <2>1 DEF States, Offsets
        <4> QED
          BY <4>3, <4>4, Zenon
      <3> QED
        BY <3>1, <3>2, Zenon
    <2>3. /\ kept \in States /\ e.end <= kept.end
          /\ kept = e \/ kept \in next
      <3>1. CASE next = {}
        BY <3>1, <2>1
      <3>2. CASE next # {}
        <4>1. kept \in next
          BY <3>2, Zenon
        <4>2. kept \in States /\ kept.start <= kept.end /\ kept.start = e.end + 1
          BY <4>1, Zenon DEF WellFormed
        <4> QED
          BY <4>1, <4>2, <2>1 DEF States, Offsets
      <3> QED
        BY <3>1, <3>2, Zenon
    <2>4. m \in States /\ m.start = low /\ m.end = kept.end
      <3>1. low \in Offsets /\ kept \in States
        BY <2>2, <2>3, Zenon
      <3> HIDE DEF low, kept
      <3> QED
        BY <3>1, Zenon DEF States
    <2>5. WellFormed(rest)
      BY RemoveOK, Zenon
    <2>6. \A g \in rest : Apart(g, m)
      <3> SUFFICES ASSUME NEW g \in rest PROVE Apart(g, m)
        BY Zenon
      <3>0. g \in States /\ g.start <= g.end /\ g \in t /\ Apart(g, e)
        BY Zenon DEF WellFormed
      <3>1. CASE g.end < e.start
        <4>1. g.end < low
          <5>1. CASE low = e.start
            BY <5>1, <3>1, Zenon
          <5>2. CASE \E o \in prev : low = o.start
            <6>1. PICK o \in prev : low = o.start
              BY <5>2, Zenon
            <6>2. o \in States /\ o.end = e.start - 1 /\ o.start <= o.end /\ Apart(g, o)
              BY <6>1, Zenon DEF WellFormed
            <6> QED
              BY <6>1, <6>2, <3>0, <3>1, <2>1 DEF Apart, States, Offsets
          <5> QED
            BY <5>1, <5>2, <2>2, Zenon
        <4> HIDE DEF m
        <4> QED
          BY <4>1, <2>4, Zenon DEF Apart
      <3>2. CASE e.end < g.start
        <4>1. kept.end < g.start
          <5>1. CASE kept = e
            BY <5>1, <3>2, Zenon
          <5>2. CASE kept \in next
            <6>2. kept \in States /\ kept.start = e.end + 1 /\ kept.start <= kept.end /\ Apart(g, kept)
              BY <5>2, Zenon DEF WellFormed
            <6> HIDE DEF kept
            <6> QED
              BY <6>2, <3>0, <3>2, <2>1 DEF Apart, States, Offsets
          <5> QED
            BY <5>1, <5>2, <2>3, Zenon
        <4> HIDE DEF m
        <4> QED
          BY <4>1, <2>4, Zenon DEF Apart
      <3> QED
        BY <3>0, <3>1, <3>2, Zenon DEF Apart
    <2>7. m.start <= m.end
      <3> HIDE DEF m, kept, low
      <3> QED
        BY <2>1, <2>2, <2>3, <2>4 DEF States, Offsets
    <2>8. merge_state(t, e) = rest \cup {m}
      BY <1>2, Zenon DEF merge_state
    <2> HIDE DEF m, rest
    <2> QED
      BY <2>4, <2>5, <2>6, <2>7, <2>8, InsertOK
  <1> QED
    BY <1>1, <1>2, Zenon

\* split_state keeps the tree well formed, and both halves are in it.
LEMMA SplitOK ==
    ASSUME ExtentAssumption, NEW t, WellFormed(t), NEW e \in t,
           NEW x \in Offsets, e.start < x, x <= e.end
    PROVE  /\ WellFormed(split_state(t, e, x))
           /\ FirstHalf(e, x) \in split_state(t, e, x)
           /\ SecondHalf(e, x) \in split_state(t, e, x)
  <1>1. e \in States /\ x - 1 \in Offsets /\ e.start \in Int /\ e.end \in Int /\ x \in Int
    BY DEF WellFormed, States, Offsets, ExtentAssumption
  <1>2. /\ FirstHalf(e, x) \in States
        /\ FirstHalf(e, x).start = e.start /\ FirstHalf(e, x).end = x - 1
    BY <1>1, Fields, ZenonT(30) DEF FirstHalf
  <1>3. /\ SecondHalf(e, x) \in States
        /\ SecondHalf(e, x).start = x /\ SecondHalf(e, x).end = e.end
    BY <1>1, Fields, Zenon DEF SecondHalf
  <1>4. WellFormed((t \ {e}) \cup {SecondHalf(e, x)})
    BY <1>1, <1>3, ReplaceOK
  <1>5. \A g \in (t \ {e}) \cup {SecondHalf(e, x)} : Apart(g, FirstHalf(e, x))
    <2>1. Apart(SecondHalf(e, x), FirstHalf(e, x))
      BY <1>1, <1>2, <1>3 DEF Apart
    <2>2. ASSUME NEW g \in t \ {e} PROVE Apart(g, FirstHalf(e, x))
      <3>1. g \in States /\ Apart(g, e)
        BY Zenon DEF WellFormed
      <3> QED
        BY <3>1, <1>1, <1>2 DEF Apart, States, Offsets
    <2> QED
      BY <2>1, <2>2, Zenon
  <1>6. WellFormed(((t \ {e}) \cup {SecondHalf(e, x)}) \cup {FirstHalf(e, x)})
    BY <1>1, <1>2, <1>4, <1>5, InsertOK
  <1>7. split_state(t, e, x) = ((t \ {e}) \cup {SecondHalf(e, x)}) \cup {FirstHalf(e, x)}
    BY Zenon DEF split_state
  <1> QED
    BY <1>6, <1>7, Zenon

\* Setting bits on an extent and merging it keeps the tree well formed.
LEMMA SetBitsOK ==
    ASSUME ExtentAssumption, NEW t, WellFormed(t), NEW e \in t, NEW b \in SUBSET Bits
    PROVE  /\ WellFormed(set_bits(t, e, b))
           /\ WellFormed(merge_state(set_bits(t, e, b), with_bits(e, b)))
  <1>1. e \in States /\ e.bits \cup b \in SUBSET Bits /\ e.start <= e.end
    BY Zenon DEF WellFormed, States
  <1>2. with_bits(e, b) \in States /\ with_bits(e, b).start = e.start /\ with_bits(e, b).end = e.end
    BY <1>1, Zenon DEF with_bits, States
  <1>3. e.start \in Int /\ e.end \in Int
    BY <1>1 DEF States, Offsets
  <1>4. WellFormed(set_bits(t, e, b))
    BY <1>1, <1>2, <1>3, ReplaceOK DEF set_bits
  <1> QED
    BY <1>4, MergeOK, Zenon DEF set_bits

\* clear_state_bit keeps the tree well formed.
LEMMA ClearBitOK ==
    ASSUME ExtentAssumption, NEW t, WellFormed(t), NEW e \in t, NEW b \in SUBSET Bits
    PROVE  WellFormed(clear_state_bit(t, e, b))
  <1> DEFINE f == [e EXCEPT !.bits = @ \ b]
  <1>1. e \in States /\ e.bits \ b \in SUBSET Bits /\ e.start <= e.end
    BY Zenon DEF WellFormed, States
  <1>2. f \in States /\ f.start = e.start /\ f.end = e.end
    BY <1>1, Zenon DEF States
  <1>3. e.start \in Int /\ e.end \in Int
    BY <1>1 DEF States, Offsets
  <1>4. clear_state_bit(t, e, b) = IF f.bits = {} THEN t \ {e}
                                   ELSE merge_state((t \ {e}) \cup {f}, f)
    BY Zenon DEF clear_state_bit
  <1> HIDE DEF f
  <1>5. WellFormed((t \ {e}) \cup {f})
    BY <1>1, <1>2, <1>3, ReplaceOK
  <1>6. WellFormed(merge_state((t \ {e}) \cup {f}, f))
    BY <1>5, MergeOK, Zenon
  <1> QED
    BY <1>4, <1>6, RemoveOK, Zenon

-----------------------------------------------------------------------------
Inv == TypeOK /\ Disjoint

\* Inv in terms of WellFormed.
LEMMA InvWellFormed ==
    /\ TypeOK /\ Disjoint => WellFormed(tree)
    /\ WellFormed(tree') => (/\ tree' \subseteq States
                             /\ \A e \in tree' : e.start <= e.end
                             /\ Disjoint')
  BY Zenon DEF TypeOK, Disjoint, WellFormed, Apart

\* The loop variable of a call that is going on.
CallOK(c) == c = NoCall \/ (/\ c \in [kind : {"set", "clear"}, start : Offsets,
                                      end : Offsets, bits : SUBSET Bits]
                           /\ c.start <= c.end)

\* search_again moves the loop variable forward inside the range.
LEMMA GoOnOK ==
    ASSUME ExtentAssumption, CallOK(call), call.kind # "none", NEW x \in Offsets,
           GoOnAfter(x) \/ (GoOnAt(x) /\ x <= call.end)
    PROVE  CallOK(call')
  <1>1. /\ call \in [kind : {"set", "clear"}, start : Offsets, end : Offsets, bits : SUBSET Bits]
        /\ call.start <= call.end
    BY DEF CallOK, NoCall
  <1>2. CASE GoOnAfter(x)
    <2>1. CASE x + 1 > call.end
      BY <1>2, <2>1, Zenon DEF GoOnAfter, CallOK
    <2>2. CASE ~(x + 1 > call.end)
      <3>1. x + 1 \in Offsets /\ x + 1 <= call.end
        BY <1>1, <2>2 DEF Offsets, ExtentAssumption
      <3> QED
        BY <1>1, <1>2, <2>2, <3>1, Zenon DEF GoOnAfter, CallOK
    <2> QED
      BY <2>1, <2>2, Zenon
  <1>3. CASE GoOnAt(x) /\ x <= call.end
    BY <1>1, <1>3, Zenon DEF GoOnAt, CallOK
  <1> QED
    BY <1>2, <1>3, Zenon

\* What the rounds of set_extent_bits do to a well-formed tree.
LEMMA SetRound ==
    ASSUME ExtentAssumption, Inv,
           SetRest \/ SetWhole \/ SetSplitHead \/ SetHole \/ SetSplitTail
    PROVE  WellFormed(tree') /\ CallOK(call')
  <1>0. WellFormed(tree) /\ CallOK(call)
    BY InvWellFormed, Zenon DEF Inv, TypeOK, CallOK
  <1>1. /\ call \in [kind : {"set", "clear"}, start : Offsets, end : Offsets, bits : SUBSET Bits]
        /\ call.start <= call.end /\ call.kind # "none"
    BY <1>0 DEF CallOK, NoCall, SetRest, SetWhole, SetSplitHead, SetHole, SetSplitTail
  <1>2. \A e \in Found : /\ e \in tree /\ e \in States /\ e.start <= e.end
                         /\ e.start \in Int /\ e.end \in Offsets /\ call.start <= e.end
                         /\ \A g \in tree : g.end >= call.start => e.start <= g.start
    BY <1>0 DEF Found, search_cache_extent, WellFormed, States, Offsets
  <1>3. CASE SetRest
    <2> DEFINE n == [start |-> call.start, end |-> call.end, bits |-> call.bits,
                     xprivate |-> NoPrivate]
    <2>1. n \in States /\ n.start = call.start /\ n.end = call.end
      BY <1>1, Zenon DEF States
    <2>2. tree' = merge_state(tree \cup {n}, n) /\ call' = NoCall
          /\ \A e \in tree : e.end < call.start
      BY <1>3, Zenon DEF SetRest
    <2> HIDE DEF n
    <2>3. WellFormed(tree \cup {n})
      BY <1>0, <1>1, <2>1, <2>2, InsertOK, Zenon DEF Apart
    <2> QED
      BY <2>2, <2>3, MergeOK, Zenon DEF CallOK
  <1>4. CASE SetWhole
    <2>1. PICK e \in Found : /\ tree' = merge_state(set_bits(tree, e, call.bits), with_bits(e, call.bits))
                             /\ GoOnAfter(e.end)
      BY <1>4, Zenon DEF SetWhole
    <2> QED
      BY <1>0, <1>1, <1>2, <2>1, SetBitsOK, GoOnOK, Zenon
  <1>5. CASE SetSplitHead
    <2> DEFINE T(e) == split_state(tree, e, call.start)
               S(e) == SecondHalf(e, call.start)
    <2>1. PICK e \in Found :
             /\ e.start < call.start
             /\ \/ /\ tree' = merge_state(set_bits(T(e), S(e), call.bits), with_bits(S(e), call.bits))
                   /\ GoOnAfter(e.end)
                \/ tree' = T(e) /\ GoOnAt(call.start)
      BY <1>5, Zenon DEF SetSplitHead
    <2>2. WellFormed(T(e)) /\ S(e) \in T(e)
      BY <1>0, <1>1, <1>2, <2>1, SplitOK, Zenon
    <2>3. WellFormed(merge_state(set_bits(T(e), S(e), call.bits), with_bits(S(e), call.bits)))
      <3> HIDE DEF T, S
      <3> QED
        BY <1>1, <2>2, SetBitsOK, Zenon
    <2> HIDE DEF T, S
    <2>4. CallOK(call')
      BY <1>0, <1>1, <1>2, <2>1, GoOnOK, Zenon
    <2> QED
      BY <2>1, <2>2, <2>3, <2>4, Zenon
  <1>6. CASE SetHole
    <2> DEFINE L(e) == IF call.end < e.start THEN call.end ELSE e.start - 1
               N(e) == [start |-> call.start, end |-> L(e), bits |-> call.bits,
                        xprivate |-> NoPrivate]
    <2>1. PICK e \in Found : /\ e.start > call.start
                             /\ tree' = merge_state(tree \cup {N(e)}, N(e)) /\ GoOnAfter(L(e))
      BY <1>6, Zenon DEF SetHole
    <2>2. L(e) \in Offsets /\ call.start <= L(e) /\ L(e) < e.start
      BY <1>1, <1>2, <2>1 DEF Offsets, States
    <2>3. N(e) \in States /\ N(e).start = call.start /\ N(e).end = L(e)
      <3> HIDE DEF L
      <3> QED
        BY <1>1, <2>2, Zenon DEF States
    <2> HIDE DEF N, L
    <2>4. \A g \in tree : Apart(g, N(e))
      <3> SUFFICES ASSUME NEW g \in tree PROVE Apart(g, N(e))
        BY Zenon
      <3>1. g \in States
        BY <1>0, Zenon DEF WellFormed
      <3> QED
        BY <1>1, <1>2, <2>2, <2>3, <3>1 DEF Apart, States, Offsets
    <2>5. WellFormed(tree \cup {N(e)})
      BY <1>0, <2>2, <2>3, <2>4, InsertOK, Zenon
    <2> QED
      BY <1>0, <1>1, <2>1, <2>2, <2>5, MergeOK, GoOnOK, Zenon
  <1>7. CASE SetSplitTail
    <2>1. PICK e \in Found :
             /\ e.start = call.start /\ e.end > call.end /\ call' = NoCall
             /\ tree' = merge_state(set_bits(split_state(tree, e, call.end + 1),
                                             SecondHalf(e, call.end + 1), call.bits),
                                    FirstHalf(e, call.end + 1))
      BY <1>7, Zenon DEF SetSplitTail
    <2> DEFINE x == call.end + 1
               t == split_state(tree, e, x)
    <2>2. x \in Offsets /\ e.start < x /\ x <= e.end
      BY <1>1, <1>2, <2>1 DEF Offsets
    <2>3. WellFormed(t) /\ FirstHalf(e, x) \in t /\ SecondHalf(e, x) \in t
      <3> HIDE DEF x
      <3> QED
        BY <1>0, <1>2, <2>2, SplitOK, Zenon
    <2>4. FirstHalf(e, x) # SecondHalf(e, x)
      <3>1. FirstHalf(e, x).start = e.start /\ SecondHalf(e, x).start = x
        BY <1>2, Zenon DEF FirstHalf, SecondHalf, States
      <3> QED
        BY <2>2, <1>2, <3>1
    <2> HIDE DEF t, x
    <2>5. WellFormed(set_bits(t, SecondHalf(e, x), call.bits))
      BY <1>1, <2>3, SetBitsOK, Zenon
    <2>6. FirstHalf(e, x) \in set_bits(t, SecondHalf(e, x), call.bits)
      BY <2>3, <2>4, Zenon DEF set_bits
    <2>7. tree' = merge_state(set_bits(t, SecondHalf(e, x), call.bits), FirstHalf(e, x))
      BY <2>1, Zenon DEF t, x
    <2> QED
      BY <2>1, <2>5, <2>6, <2>7, MergeOK, Zenon DEF CallOK
  <1> QED
    BY <1>3, <1>4, <1>5, <1>6, <1>7, Zenon

\* What the rounds of clear_extent_bits do to a well-formed tree.
LEMMA ClearRound ==
    ASSUME ExtentAssumption, Inv,
           ClearNothing \/ ClearSplitHead \/ ClearSplitTail \/ ClearWhole
    PROVE  WellFormed(tree') /\ CallOK(call')
  <1>0. WellFormed(tree) /\ CallOK(call)
    BY InvWellFormed, Zenon DEF Inv, TypeOK, CallOK
  <1>1. /\ call \in [kind : {"set", "clear"}, start : Offsets, end : Offsets, bits : SUBSET Bits]
        /\ call.start <= call.end /\ call.kind # "none"
    BY <1>0 DEF CallOK, NoCall, ClearNothing, ClearSplitHead, ClearSplitTail, ClearWhole
  <1>2. \A e \in Found : /\ e \in tree /\ e \in States /\ e.start <= e.end
                         /\ e.start \in Int /\ e.end \in Offsets /\ call.start <= e.end
    BY <1>0 DEF Found, search_cache_extent, WellFormed, States, Offsets
  <1>3. CASE ClearNothing
    BY <1>0, <1>3, Zenon DEF ClearNothing, CallOK
  <1>4. CASE ClearSplitHead
    <2> DEFINE T(e) == split_state(tree, e, call.start)
               S(e) == SecondHalf(e, call.start)
    <2>1. PICK e \in Found :
             /\ e.start < call.start
             /\ \/ tree' = clear_state_bit(T(e), S(e), call.bits) /\ GoOnAfter(e.end)
                \/ tree' = T(e) /\ GoOnAt(call.start)
      BY <1>4, Zenon DEF ClearSplitHead
    <2>2. WellFormed(T(e)) /\ S(e) \in T(e)
      BY <1>0, <1>1, <1>2, <2>1, SplitOK, Zenon
    <2> HIDE DEF T, S
    <2>3. WellFormed(clear_state_bit(T(e), S(e), call.bits))
      BY <1>1, <2>2, ClearBitOK, Zenon
    <2>4. CallOK(call')
      BY <1>0, <1>1, <1>2, <2>1, GoOnOK, Zenon
    <2> QED
      BY <2>1, <2>2, <2>3, <2>4, Zenon
  <1>5. CASE ClearSplitTail
    <2> DEFINE x == call.end + 1
    <2>1. PICK e \in Found :
             /\ call.start <= e.start /\ e.start <= call.end /\ e.end > call.end /\ call' = NoCall
             /\ tree' = clear_state_bit(split_state(tree, e, x), FirstHalf(e, x), call.bits)
      BY <1>5, Zenon DEF ClearSplitTail
    <2>2. x \in Offsets /\ e.start < x /\ x <= e.end
      BY <1>1, <1>2, <2>1 DEF Offsets
    <2> HIDE DEF x
    <2>3. WellFormed(split_state(tree, e, x)) /\ FirstHalf(e, x) \in split_state(tree, e, x)
      BY <1>0, <1>2, <2>2, SplitOK, Zenon
    <2> QED
      BY <1>1, <2>1, <2>3, ClearBitOK, Zenon DEF CallOK
  <1>6. CASE ClearWhole
    <2>1. PICK e \in Found : /\ tree' = clear_state_bit(tree, e, call.bits)
                             /\ GoOnAfter(e.end)
      BY <1>6, Zenon DEF ClearWhole
    <2> QED
      BY <1>0, <1>1, <1>2, <2>1, ClearBitOK, GoOnOK, Zenon
  <1> QED
    BY <1>3, <1>4, <1>5, <1>6, Zenon

\* Beginning a call on a range leaves the tree alone.
LEMMA BeginOK ==
    ASSUME ExtentAssumption, Inv, NEW c \in Calls, c.start <= c.end,
           BeginSet(c) \/ BeginClear(c)
    PROVE  Inv'
  <1>1. tree' = tree /\ CallOK(call')
    BY DEF BeginSet, BeginClear, Enter, CallOK, Calls
  <1>2. want' \in [Offsets -> SUBSET Bits]
    BY DEF BeginSet, BeginClear, Inv, TypeOK, Calls
  <1>3. saved' \in [Offsets -> Privates \cup {NoPrivate}]
    <2>1. CASE BeginSet(c)
      BY <2>1, Zenon DEF BeginSet, Inv, TypeOK
    <2>2. CASE BeginClear(c)
      BY <2>2, Zenon DEF BeginClear, Inv, TypeOK
    <2> QED
      BY <2>1, <2>2, Zenon
  <1> QED
    BY <1>1, <1>2, <1>3, Zenon DEF Inv, TypeOK, Disjoint, CallOK

\* Every step keeps the extents disjoint.
LEMMA NextOK ==
    ASSUME ExtentAssumption, Inv, [Next]_vars
    PROVE  Inv'
  <1>0. WellFormed(tree)
    BY InvWellFormed, Zenon DEF Inv
  <1>1. CASE Round
    <2>1. WellFormed(tree') /\ CallOK(call')
      BY <1>1, SetRound, ClearRound, Zenon DEF Round
    <2>2. UNCHANGED <<want, saved>>
      BY <1>1, Zenon DEF Round, SetRest, SetWhole, SetSplitHead, SetHole, SetSplitTail,
                  ClearNothing, ClearSplitHead, ClearSplitTail, ClearWhole
    <2> QED
      BY <2>1, <2>2, InvWellFormed, Zenon DEF Inv, TypeOK, CallOK
  <1>2. CASE BeginMark \/ BeginUnmark
    <2>1. PICK e \in tree : BeginSet(Group(e, MarkBits)) \/ BeginClear(Group(e, MarkBits))
      BY <1>2, Zenon DEF BeginMark, BeginUnmark
    <2>2. Group(e, MarkBits) \in Calls /\ Group(e, MarkBits).start <= Group(e, MarkBits).end
      BY <1>0, Zenon DEF Group, WellFormed, States, Calls, ExtentAssumption
    <2> QED
      BY <2>1, <2>2, BeginOK, Zenon
  <1>3. CASE (\E c \in SetCalls : BeginSet(c)) \/ (\E c \in ClearCalls : BeginClear(c))
    BY <1>3, BeginOK, Zenon DEF ExtentAssumption
  <1>4. ASSUME NEW s \in Offsets, NEW p \in Privates, set_state_private(s, p)
        PROVE  Inv'
    <2>1. PICK e \in StateAt(s) : tree' = (tree \ {e}) \cup {[e EXCEPT !.xprivate = p]}
      BY <1>4, Zenon DEF set_state_private
    <2> DEFINE f == [e EXCEPT !.xprivate = p]
    <2>2. e \in tree /\ e \in States /\ e.start <= e.end
      BY <1>0, Zenon DEF StateAt, search_cache_extent, WellFormed
    <2>3. f \in States /\ f.start = e.start /\ f.end = e.end
      BY <2>2, Zenon DEF States
    <2>4. tree' = (tree \ {e}) \cup {f}
      BY <2>1, Zenon
    <2> HIDE DEF f
    <2>5. WellFormed(tree')
      BY <1>0, <2>2, <2>3, <2>4, ReplaceOK DEF States, Offsets
    <2>6. /\ UNCHANGED <<call, want>>
          /\ saved' \in [Offsets -> Privates \cup {NoPrivate}]
      BY <1>4, Zenon DEF set_state_private, Inv, TypeOK
    <2> QED
      BY <2>5, <2>6, InvWellFormed, Zenon DEF Inv, TypeOK
  <1>5. CASE UNCHANGED vars
    BY <1>5, Zenon DEF vars, Inv, TypeOK, Disjoint
  <1> QED
    BY <1>1, <1>2, <1>3, <1>4, <1>5, Zenon DEF Next

\* The extents of a tree are disjoint in every reachable state, whatever calls
\* set_extent_bits, clear_extent_bits and set_state_private get: inserting an
\* extent never finds it overlapped, so the BUG_ONs on -EEXIST cannot fire.
THEOREM TreeDisjoint == Spec => [](TypeOK /\ Disjoint)
  <1>1. Init => Inv
    BY ExtentAssumption, Zenon DEF Init, Inv, TypeOK, Disjoint
  <1>2. Inv /\ [Next]_vars => Inv'
    BY ExtentAssumption, NextOK, Zenon
  <1> QED
    BY <1>1, <1>2, PTL DEF Spec, Inv

-----------------------------------------------------------------------------
(* Trees used as the allocator uses them *)

\* A range of a tree of one bit, and an entry of a queue or a block group.
Plain(b, e) == /\ e.bits = {b} /\ b \notin IoBits /\ e.xprivate = NoPrivate
               /\ \A g \in LockCalls : ~Meets(e, g)
Locked(e) == e.bits \cap IoBits # {} /\ \E g \in LockCalls : Same(e, g)
Good(b, t) == WellFormed(t) /\ \A e \in t : Plain(b, e) \/ Locked(e)

\* Neighbours that merge_state would join are apart only at offset k.
Joined(t, k) == \A e, f \in t :
    e.end + 1 = f.start /\ e.bits = f.bits /\ f.start # k => e.bits \cap IoBits # {}
NoOffset == MaxOff + 1
Loop == IF call = NoCall THEN NoOffset ELSE call.start

\* What is left of a call: its range, and what it does to the bits there.
PlainCall(b) == /\ \A g \in LockCalls : ~Meets(call, g)
                /\ call.kind = "set" => call.bits = {b} /\ b \notin IoBits
                /\ call.kind = "clear" => b \in call.bits
LockCall == /\ \E g \in LockCalls : Same(call, g)
            /\ \/ call.kind = "set" /\ call.bits \cap IoBits # {}
               \/ call.kind = "set" /\ \E e \in tree : Same(e, call)
               \/ call.kind = "clear" /\ call.bits = Bits
               \/ call.kind = "clear" /\ call.bits \cap IoBits = {}
Apply(s) == IF call.kind = "set" THEN s \cup call.bits ELSE s \ call.bits
Exact == \A x \in Offsets :
    want[x] = IF call # NoCall /\ x \in InCall(call) THEN Apply(BitsAt(tree, x))
              ELSE BitsAt(tree, x)

\* A pointer that was stored is in a locked extent, and is forgotten when all
\* bits are to be cleared.
Pointers == \A s \in Offsets : saved[s] # NoPrivate =>
    /\ want[s] # {}
    /\ \E e \in tree : e.start = s /\ Locked(e) /\ e.xprivate = saved[s]

UseInv(b) == /\ Inv /\ Good(b, tree) /\ Joined(tree, Loop) /\ Exact /\ Pointers
             /\ call # NoCall => PlainCall(b) \/ LockCall

\* At most one extent of a tree holds an offset.
LEMMA BitsOf ==
    ASSUME NEW t, WellFormed(t), NEW x \in Offsets
    PROVE  /\ \A e \in t : x \in e.start .. e.end => BitsAt(t, x) = e.bits
           /\ (\A e \in t : x \notin e.start .. e.end) => BitsAt(t, x) = {}
<1> DEFINE H == {f \in t : x \in f.start .. f.end}
<1>1. BitsAt(t, x) = UNION {e.bits : e \in H}
  BY Zenon DEF BitsAt
<1>2. ASSUME NEW e \in t, x \in e.start .. e.end
      PROVE  H = {e}
  <2>1. ASSUME NEW f \in H PROVE f = e
    <3>1. SUFFICES ASSUME f # e PROVE FALSE
      BY Zenon
    <3>2. Apart(f, e) /\ f \in States /\ e \in States /\ x \in f.start .. f.end
      BY <1>2, <3>1, Zenon DEF WellFormed
    <3> QED
      BY <1>2, <3>2 DEF Apart, States, Offsets
  <2> QED
    BY <1>2, <2>1, Zenon
<1> QED
  BY <1>1, <1>2, Zenon

\* Two trees whose extents hold the same bits give the same bits.
LEMMA SameBits ==
    ASSUME NEW t, NEW u, WellFormed(t), WellFormed(u), NEW x \in Offsets,
           \A e \in u : x \in e.start .. e.end
              => \E f \in t : x \in f.start .. f.end /\ f.bits = e.bits,
           \A e \in t : x \in e.start .. e.end => \E f \in u : x \in f.start .. f.end
    PROVE  BitsAt(u, x) = BitsAt(t, x)
<1>1. CASE \E e \in u : x \in e.start .. e.end
  <2>1. PICK e \in u : x \in e.start .. e.end
    BY <1>1, Zenon
  <2>2. PICK f \in t : x \in f.start .. f.end /\ f.bits = e.bits
    BY <2>1, Zenon
  <2> QED
    BY <2>1, <2>2, BitsOf
<1>2. CASE \A e \in u : x \notin e.start .. e.end
  <2>1. \A e \in t : x \notin e.start .. e.end
    BY <1>2, Zenon
  <2> QED
    BY <1>2, <2>1, BitsOf, Zenon
<1> QED
  BY <1>1, <1>2, Zenon

\* The halves of an extent of one bit are such extents, and hold what it held.
LEMMA SplitGood ==
    ASSUME ExtentAssumption, NEW b, NEW t, Good(b, t), NEW e \in t, Plain(b, e),
           NEW k \in Offsets, e.start < k, k <= e.end
    PROVE  /\ Good(b, split_state(t, e, k))
           /\ FirstHalf(e, k) \in split_state(t, e, k) /\ SecondHalf(e, k) \in split_state(t, e, k)
           /\ Plain(b, FirstHalf(e, k)) /\ Plain(b, SecondHalf(e, k))
           /\ FirstHalf(e, k) \in States /\ SecondHalf(e, k) \in States
           /\ FirstHalf(e, k).start = e.start /\ FirstHalf(e, k).end = k - 1
           /\ SecondHalf(e, k).start = k /\ SecondHalf(e, k).end = e.end
           /\ \A x \in Offsets : BitsAt(split_state(t, e, k), x) = BitsAt(t, x)
<1> DEFINE u == split_state(t, e, k)
           f == FirstHalf(e, k)
           s == SecondHalf(e, k)
<1>1. WellFormed(t) /\ e \in States /\ e.start \in Int /\ e.end \in Int /\ k \in Int
  BY DEF Good, WellFormed, States, Offsets
<1>2. WellFormed(u) /\ f \in u /\ s \in u
  BY <1>1, SplitOK, Zenon
<1>3. /\ f.start = e.start /\ f.end = k - 1 /\ f.bits = e.bits /\ f.xprivate = NoPrivate
      /\ s.start = k /\ s.end = e.end /\ s.bits = e.bits /\ s.xprivate = e.xprivate
  BY <1>1, Zenon DEF FirstHalf, SecondHalf, States
<1>4. u = (t \ {e}) \cup {f, s}
  BY Zenon DEF split_state
<1> HIDE DEF u, f, s
<1>5. f \in States /\ s \in States
  BY <1>2, Zenon DEF WellFormed
<1>6. \A g \in LockCalls : g.start \in Int /\ g.end \in Int
  BY DEF LockCalls, ExtentAssumption, Calls, Offsets
<1>7. Plain(b, f) /\ Plain(b, s)
  BY <1>1, <1>3, <1>6 DEF Plain, Meets
<1>8. Good(b, u)
  BY <1>2, <1>4, <1>7, Zenon DEF Good
<1>9. ASSUME NEW x \in Offsets PROVE BitsAt(u, x) = BitsAt(t, x)
  <2>0. x \in Int
    BY DEF Offsets
  <2>1. \A g \in u : x \in g.start .. g.end
              => \E h \in t : x \in h.start .. h.end /\ h.bits = g.bits
    BY <1>1, <1>3, <1>4, <2>0
  <2>2. \A g \in t : x \in g.start .. g.end => \E h \in u : x \in h.start .. h.end
    BY <1>1, <1>3, <1>4, <2>0
  <2> QED
    BY <1>1, <1>2, <2>1, <2>2, SameBits
<1> QED
  BY <1>2, <1>3, <1>5, <1>7, <1>8, <1>9, Zenon DEF f, s, u

\* What merge_state makes of an extent e without IO bits: one extent over e
\* and its neighbours with the same bits.
LEMMA MergeShape ==
    ASSUME ExtentAssumption, NEW b, NEW t, Good(b, t), NEW e \in t, Plain(b, e)
    PROVE  \E m \in States, o \in t, n \in t :
              /\ merge_state(t, e) = {g \in t : g # e /\ g # o /\ g # n} \cup {m}
              /\ m.bits = {b} /\ m.xprivate = NoPrivate /\ m.start = o.start /\ m.end = n.end
              /\ o.bits = {b} /\ n.bits = {b}
              /\ \/ o = e /\ \A g \in t : g.end # e.start - 1 \/ g.bits # {b}
                 \/ o.end = e.start - 1
              /\ \/ n = e /\ \A g \in t : g.start # e.end + 1 \/ g.bits # {b}
                 \/ n.start = e.end + 1
<1> DEFINE prev == {g \in t : g.end = e.start - 1 /\ g.bits = e.bits}
           next == {g \in t : g.start = e.end + 1 /\ g.bits = e.bits}
           low == IF prev = {} THEN e.start ELSE (CHOOSE g \in prev : TRUE).start
           kept == IF next = {} THEN e ELSE CHOOSE g \in next : TRUE
           m == [kept EXCEPT !.start = low]
<1>1. /\ merge_state(t, e) = (t \ ({e} \cup prev \cup next)) \cup {m}
      /\ e.bits = {b}
  BY Zenon DEF merge_state, Plain
<1>2. \A g \in t : g \in States /\ g.start <= g.end /\ g.start \in Offsets /\ g.end \in Offsets
  BY Zenon DEF Good, WellFormed, States
<1>3. \A g, h \in t : g # h => g.end < h.start \/ h.end < g.start
  BY Zenon DEF Good, WellFormed, Apart
<1>4. \A g \in t : g.bits = {b} => g.xprivate = NoPrivate
  BY Zenon DEF Good, Plain, Locked
<1>5. PICK o \in t : /\ o.start = low /\ o.bits = {b} /\ prev \subseteq {o}
                     /\ \/ o = e /\ \A g \in t : g.end # e.start - 1 \/ g.bits # {b}
                        \/ o \in prev
  <2>1. CASE prev = {}
    BY <1>1, <2>1, Zenon
  <2>2. CASE prev # {}
    <3>1. PICK o \in prev : low = o.start
      BY <2>2, Zenon
    <3>2. \A g \in prev : g = o
      BY <1>2, <1>3, <3>1 DEF Offsets
    <3> QED
      BY <1>1, <3>1, <3>2, Zenon
  <2> QED
    BY <2>1, <2>2, Zenon
<1>6. /\ kept \in t /\ kept.bits = {b} /\ next \subseteq {kept}
      /\ \/ kept = e /\ \A g \in t : g.start # e.end + 1 \/ g.bits # {b}
         \/ kept \in next
  <2>1. CASE next = {}
    BY <1>1, <2>1, Zenon
  <2>2. CASE next # {}
    <3>1. kept \in next
      BY <2>2, Zenon
    <3>2. \A g \in next : g = kept
      BY <1>2, <1>3, <3>1 DEF Offsets
    <3> QED
      BY <1>1, <3>1, <3>2, Zenon
  <2> QED
    BY <2>1, <2>2, Zenon
<1>7. /\ m \in States /\ m.bits = {b} /\ m.xprivate = NoPrivate
      /\ m.start = o.start /\ m.end = kept.end
  <2>1. kept \in States /\ low \in Offsets /\ kept.xprivate = NoPrivate
    BY <1>2, <1>4, <1>5, <1>6, Zenon
  <2> HIDE DEF kept, low
  <2> QED
    BY <2>1, <1>5, <1>6, Zenon DEF States
<1>8. merge_state(t, e) = {g \in t : g # e /\ g # o /\ g # kept} \cup {m}
  <2>1. \A g \in t : g \in {e} \cup prev \cup next <=> g = e \/ g = o \/ g = kept
    BY <1>5, <1>6, Zenon
  <2> HIDE DEF m, prev, next, kept
  <2> QED
    BY <1>1, <2>1, Zenon
<1>9. /\ \/ o = e /\ \A g \in t : g.end # e.start - 1 \/ g.bits # {b}
         \/ o.end = e.start - 1
      /\ \/ kept = e /\ \A g \in t : g.start # e.end + 1 \/ g.bits # {b}
         \/ kept.start = e.end + 1
  BY <1>5, <1>6, Zenon
<1> HIDE DEF m, prev, next, kept, low
<1> QED
  BY <1>5, <1>6, <1>7, <1>8, <1>9, Zenon

\* Merging keeps what every offset holds and the locked extents, and leaves
\* nothing to join if everything away from e was joined.
LEMMA MergeGood ==
    ASSUME ExtentAssumption, NEW b, NEW t, Good(b, t), NEW e \in t, Plain(b, e),
           \A g, h \in t : g # e /\ h # e /\ g.end + 1 = h.start /\ g.bits = h.bits
              => g.bits \cap IoBits # {}
    PROVE  /\ Good(b, merge_state(t, e))
           /\ \A x \in Offsets : BitsAt(merge_state(t, e), x) = BitsAt(t, x)
           /\ Joined(merge_state(t, e), NoOffset)
           /\ \A g : Locked(g) => (g \in merge_state(t, e) <=> g \in t)
<1> DEFINE u == merge_state(t, e)
<1>1. PICK m \in States, o \in t, n \in t :
              /\ u = {g \in t : g # e /\ g # o /\ g # n} \cup {m}
              /\ m.bits = {b} /\ m.xprivate = NoPrivate /\ m.start = o.start /\ m.end = n.end
              /\ o.bits = {b} /\ n.bits = {b}
              /\ \/ o = e /\ \A g \in t : g.end # e.start - 1 \/ g.bits # {b}
                 \/ o.end = e.start - 1
              /\ \/ n = e /\ \A g \in t : g.start # e.end + 1 \/ g.bits # {b}
                 \/ n.start = e.end + 1
  BY MergeShape, SMTT(30)
<1>2. WellFormed(t) /\ WellFormed(u)
  BY MergeOK, Zenon DEF Good
<1> HIDE DEF u
<1>3. /\ \A g \in t : g \in States /\ g.start <= g.end /\ g.start \in Int /\ g.end \in Int
      /\ \A g, h \in t : g # h => g.end < h.start \/ h.end < g.start
  BY <1>2 DEF WellFormed, States, Offsets, Apart
<1>4. /\ b \notin IoBits /\ e.bits = {b} /\ m.start \in Int /\ m.end \in Int
      /\ \A g \in LockCalls : g.start \in Int /\ g.end \in Int /\ g.start <= g.end
  BY DEF Plain, LockCalls, ExtentAssumption, Calls, Offsets, States
<1>5. ASSUME NEW x \in Int, x \in m.start .. m.end
      PROVE  x \in o.start .. o.end \/ x \in e.start .. e.end \/ x \in n.start .. n.end
  BY <1>1, <1>3, <1>5
<1>6. ASSUME NEW x \in Int, NEW g \in {e, o, n}, x \in g.start .. g.end
      PROVE  x \in m.start .. m.end
  BY <1>1, <1>3, <1>4, <1>6
<1>7. \A g \in {e, o, n} : Plain(b, g)
  BY <1>1, <1>4, Zenon DEF Good, Locked
<1>8. Good(b, u)
  <2>1. ASSUME NEW g \in LockCalls, Meets(m, g) PROVE FALSE
    <3>0. m.start <= g.end /\ g.start <= m.end
      BY <2>1, Zenon DEF Meets
    <3>1. PICK x \in Int : x \in g.start .. g.end /\ x \in m.start .. m.end
      <4>1. CASE m.start <= g.start
        BY <1>4, <3>0, <4>1
      <4>2. CASE g.start < m.start
        BY <1>1, <1>3, <1>4, <3>0, <4>2
      <4> QED
        BY <1>4, <4>1, <4>2
    <3>2. PICK h \in {e, o, n} : x \in h.start .. h.end
      BY <1>5, <3>1, Zenon
    <3>3. Meets(h, g)
      BY <1>3, <1>4, <3>1, <3>2 DEF Meets
    <3> QED
      BY <1>7, <3>3, Zenon DEF Plain
  <2>2. Plain(b, m)
    BY <1>1, <1>4, <2>1, Zenon DEF Plain
  <2> QED
    BY <1>1, <1>2, <2>2, Zenon DEF Good
<1>9. ASSUME NEW x \in Offsets PROVE BitsAt(u, x) = BitsAt(t, x)
  <2>0. x \in Int
    BY DEF Offsets
  <2>1. \A g \in u : x \in g.start .. g.end
              => \E h \in t : x \in h.start .. h.end /\ h.bits = g.bits
    BY <1>1, <1>4, <1>5, <2>0, Zenon
  <2>2. \A g \in t : x \in g.start .. g.end => \E h \in u : x \in h.start .. h.end
    BY <1>1, <1>6, <2>0, Zenon
  <2> QED
    BY <1>2, <2>1, <2>2, SameBits
<1>10. Joined(u, NoOffset)
  <2> SUFFICES ASSUME NEW g \in u, NEW h \in u, g.end + 1 = h.start, g.bits = h.bits,
                      g.bits \cap IoBits = {}
               PROVE  FALSE
    BY Zenon DEF Joined
  <2>1. CASE g = m
    <3>1. h # m /\ h \in t /\ h # e /\ h # n
      BY <1>1, <1>3, <1>4, <2>1
    <3>2. n.end + 1 = h.start /\ n.bits = h.bits
      BY <1>1, <2>1, Zenon
    <3> QED
      BY <1>1, <1>3, <1>4, <3>1, <3>2
  <2>2. CASE h = m /\ g # m
    <3>1. g \in t /\ g # e /\ g # o
      BY <1>1, <2>2, Zenon
    <3>2. g.end + 1 = o.start /\ o.bits = g.bits
      BY <1>1, <2>2, Zenon
    <3> QED
      BY <1>1, <1>3, <1>4, <3>1, <3>2
  <2>3. CASE g # m /\ h # m
    BY <1>1, <2>3, Zenon
  <2> QED
    BY <2>1, <2>2, <2>3, Zenon
<1>11. \A g : Locked(g) => (g \in u <=> g \in t)
  BY <1>1, <1>4, Zenon DEF Locked
<1> QED
  BY <1>8, <1>9, <1>10, <1>11, Zenon DEF u

\* A call in progress has a range and bits.
LEMMA CallFacts ==
    ASSUME ExtentAssumption, Inv, call # NoCall
    PROVE  /\ call.kind \in {"set", "clear"} /\ call.bits \subseteq Bits
           /\ call \in [kind : {"set", "clear"}, start : Offsets, end : Offsets,
                        bits : SUBSET Bits]
           /\ call.start \in Offsets /\ call.end \in Offsets
           /\ call.start \in Int /\ call.end \in Int /\ call.start <= call.end
           /\ \A g \in LockCalls : g.start \in Int /\ g.end \in Int /\ g.start <= g.end
<1>1. /\ call \in [kind : {"set", "clear"}, start : Offsets, end : Offsets, bits : SUBSET Bits]
      /\ call.start <= call.end
  BY Zenon DEF Inv, TypeOK
<1>2. \A g \in LockCalls : g.start \in Int /\ g.end \in Int /\ g.start <= g.end
  BY DEF LockCalls, ExtentAssumption, Calls, Offsets
<1> QED
  BY <1>1, <1>2 DEF Offsets

\* A round that did what the call asks up to offset y, and goes on behind it.
LEMMA Progress ==
    ASSUME ExtentAssumption, Inv, Exact, call # NoCall, NEW y \in Offsets,
           call.start <= y, y <= call.end, GoOnAfter(y), want' = want,
           \A x \in Offsets : BitsAt(tree', x) =
              IF x \in call.start .. y THEN Apply(BitsAt(tree, x)) ELSE BitsAt(tree, x)
    PROVE  Exact'
<1>0. /\ call.start \in Int /\ call.end \in Int /\ y \in Int /\ call.kind \in {"set", "clear"}
      /\ call \in [kind : {"set", "clear"}, start : Offsets, end : Offsets, bits : SUBSET Bits]
  BY CallFacts DEF Offsets
<1> SUFFICES ASSUME NEW x \in Offsets
             PROVE  want'[x] = IF call' # NoCall /\ x \in InCall(call')
                               THEN Apply(BitsAt(tree, x))' ELSE BitsAt(tree', x)
  BY Zenon DEF Exact
<1>1. x \in Int
  BY DEF Offsets
<1>2. want[x] = IF x \in call.start .. call.end THEN Apply(BitsAt(tree, x)) ELSE BitsAt(tree, x)
  BY Zenon DEF Exact, InCall
<1>3. CASE y + 1 > call.end
  <2>1. call' = NoCall
    BY <1>3, Zenon DEF GoOnAfter
  <2>2. x \in call.start .. y <=> x \in call.start .. call.end
    BY <1>0, <1>1, <1>3
  <2> QED
    BY <1>2, <2>1, <2>2, Zenon
<1>4. CASE ~(y + 1 > call.end)
  <2>1. call' = [call EXCEPT !.start = y + 1]
    BY <1>4, Zenon DEF GoOnAfter
  <2>2. /\ call'.start = y + 1 /\ call'.end = call.end /\ call'.kind = call.kind
        /\ call'.bits = call.bits /\ call' # NoCall
    BY <1>0, <2>1, Zenon DEF NoCall
  <2>3. CASE x \in call.start .. y
    <3>1. x \notin InCall(call')
      BY <1>0, <1>1, <2>2, <2>3 DEF InCall
    <3>2. x \in call.start .. call.end
      BY <1>0, <1>1, <2>3
    <3> QED
      BY <1>2, <2>3, <3>1, <3>2, Zenon
  <2>4. CASE x \notin call.start .. y
    <3>1. x \in InCall(call') <=> x \in call.start .. call.end
      BY <1>0, <1>1, <2>2, <2>4 DEF InCall
    <3>2. BitsAt(tree', x) = BitsAt(tree, x)
      BY <2>4, Zenon
    <3>3. Apply(BitsAt(tree, x))' = Apply(BitsAt(tree, x))
      BY <2>2, <3>2, Zenon DEF Apply
    <3> QED
      BY <1>2, <2>2, <3>1, <3>2, <3>3, Zenon
  <2> QED
    BY <2>3, <2>4, Zenon
<1> QED
  BY <1>3, <1>4, Zenon

\* After such a round of a call on a tree of one bit everything is as it was.
LEMMA PlainRound ==
    ASSUME ExtentAssumption, NEW b, UseInv(b), Inv', call # NoCall, PlainCall(b),
           NEW y \in Offsets, call.start <= y, y <= call.end, GoOnAfter(y),
           UNCHANGED <<want, saved>>,
           \A x \in Offsets : BitsAt(tree', x) =
              IF x \in call.start .. y THEN Apply(BitsAt(tree, x)) ELSE BitsAt(tree, x),
           Good(b, tree'), Joined(tree', NoOffset),
           \A g : Locked(g) => (g \in tree' <=> g \in tree)
    PROVE  UseInv(b)'
<1>0. Inv /\ Exact /\ Pointers
  BY Zenon DEF UseInv
<1>1. Exact'
  BY <1>0, Progress, Zenon
<1>2. Pointers'
  BY <1>0, Zenon DEF Pointers, Locked
<1>3. Joined(tree', Loop')
  <2>1. \A f \in tree' : f.start \in Offsets /\ f.start # NoOffset
    BY DEF Good, WellFormed, States, Offsets, NoOffset, ExtentAssumption
  <2> QED
    BY <2>1, Zenon DEF Joined
<1>4. call' # NoCall => PlainCall(b)'
  <2> SUFFICES ASSUME call' # NoCall PROVE PlainCall(b)'
    BY Zenon
  <2>1. call' = [call EXCEPT !.start = y + 1]
    BY Zenon DEF GoOnAfter
  <2>2. /\ call'.start = y + 1 /\ call'.end = call.end /\ call'.kind = call.kind
        /\ call'.bits = call.bits
    BY <1>0, <2>1, CallFacts, Zenon
  <2>3. \A g \in LockCalls : ~Meets(call', g)
    BY <1>0, <2>2, CallFacts DEF PlainCall, Meets, Offsets
  <2> QED
    BY <2>2, <2>3, Zenon DEF PlainCall
<1> QED
  BY <1>1, <1>2, <1>3, <1>4, Zenon DEF UseInv, Good

\* Setting the bit of an extent of one bit changes nothing.
LEMMA NoNewBits ==
    ASSUME NEW b, NEW t, NEW e \in t, e \in States, e.bits = {b}
    PROVE  with_bits(e, {b}) = e /\ set_bits(t, e, {b}) = t
<1>1. with_bits(e, {b}) = e
  BY Zenon DEF with_bits, States
<1> QED
  BY <1>1, Zenon DEF set_bits

\* No extent apart from e begins or ends where e is cut.
LEMMA CutInside ==
    ASSUME NEW e, NEW g, NEW y \in Int, e.start < y, y <= e.end,
           e.start \in Int, e.end \in Int, g.start \in Int, g.end \in Int, g.start <= g.end,
           g.end < e.start \/ e.end < g.start
    PROVE  g.end + 1 # y /\ g.start # y
  OBVIOUS

\* What the extents of the tree are, and those a call on a tree of one bit meets.
LEMMA TreeFacts ==
    ASSUME ExtentAssumption, NEW b, UseInv(b), call # NoCall, PlainCall(b)
    PROVE  /\ WellFormed(tree) /\ Good(b, tree)
           /\ \A e \in tree : /\ e \in States /\ e.start <= e.end
                              /\ e.start \in Offsets /\ e.end \in Offsets
                              /\ e.start \in Int /\ e.end \in Int
           /\ \A e \in tree : e.start <= call.end /\ call.start <= e.end => Plain(b, e)
           /\ \A e \in Found : /\ e \in tree /\ call.start <= e.end
                               /\ \A f \in tree : f.end >= call.start => e.start <= f.start
           /\ \A g, h \in tree : g # h => g.end < h.start \/ h.end < g.start
           /\ \A g, h \in tree : g.end + 1 = h.start /\ g.bits = h.bits /\ h.start # call.start
                 => g.bits \cap IoBits # {}
<1>1. Good(b, tree) /\ WellFormed(tree)
  BY Zenon DEF UseInv, Good
<1>2. \A e \in tree : /\ e \in States /\ e.start <= e.end
                      /\ e.start \in Offsets /\ e.end \in Offsets
                      /\ e.start \in Int /\ e.end \in Int
  BY <1>1 DEF WellFormed, States, Offsets
<1>3. \A e \in tree : e.start <= call.end /\ call.start <= e.end => Plain(b, e)
  BY <1>1, Zenon DEF Good, Locked, PlainCall, Meets, Same
<1>4. \A e \in Found : /\ e \in tree /\ call.start <= e.end
                       /\ \A f \in tree : f.end >= call.start => e.start <= f.start
  <2>1. call.start \in Int
    BY CallFacts, Zenon DEF UseInv
  <2> QED
    BY <1>2, <2>1, Zenon DEF Found, search_cache_extent
<1>5. \A g, h \in tree : g # h => g.end < h.start \/ h.end < g.start
  BY <1>1, Zenon DEF WellFormed, Apart
<1>6. \A g, h \in tree : g.end + 1 = h.start /\ g.bits = h.bits /\ h.start # call.start
         => g.bits \cap IoBits # {}
  BY Zenon DEF UseInv, Joined, Loop
<1> QED
  BY <1>1, <1>2, <1>3, <1>4, <1>5, <1>6, Zenon

\* A round of set_extent_bits on a tree of one bit gives t the bit up to y and
\* merges the extent p at the loop variable.
SetTo(b, t, p, y) ==
    /\ Good(b, t) /\ p \in t /\ Plain(b, p) /\ p.start = call.start
    /\ y \in Offsets /\ call.start <= y /\ y <= call.end
    /\ \A g, h \in t : g # p /\ h # p /\ g.end + 1 = h.start /\ g.bits = h.bits
          => g.bits \cap IoBits # {}
    /\ \A x \in Offsets : x \notin call.start .. y => BitsAt(t, x) = BitsAt(tree, x)
    /\ \A x \in Offsets : x \in call.start .. y
          => BitsAt(t, x) = {b} /\ BitsAt(tree, x) \in {{}, {b}}
    /\ \A g : Locked(g) => (g \in t <=> g \in tree)

\* Such a round of set_extent_bits keeps the invariant.
LEMMA SetVia ==
    ASSUME ExtentAssumption, NEW b, UseInv(b), Inv', call # NoCall, PlainCall(b),
           call.kind = "set", NEW t, NEW p, NEW y, SetTo(b, t, p, y),
           GoOnAfter(y), tree' = merge_state(t, p), UNCHANGED <<want, saved>>
    PROVE  UseInv(b)'
<1>0. /\ Good(b, t) /\ p \in t /\ Plain(b, p) /\ p.start = call.start
      /\ y \in Offsets /\ call.start <= y /\ y <= call.end
      /\ \A g, h \in t : g # p /\ h # p /\ g.end + 1 = h.start /\ g.bits = h.bits
            => g.bits \cap IoBits # {}
      /\ \A x \in Offsets : x \notin call.start .. y => BitsAt(t, x) = BitsAt(tree, x)
      /\ \A x \in Offsets : x \in call.start .. y
            => BitsAt(t, x) = {b} /\ BitsAt(tree, x) \in {{}, {b}}
      /\ \A g : Locked(g) => (g \in t <=> g \in tree)
  BY Zenon DEF SetTo
<1>1. /\ Good(b, tree') /\ Joined(tree', NoOffset)
      /\ \A x \in Offsets : BitsAt(tree', x) = BitsAt(t, x)
      /\ \A g : Locked(g) => (g \in tree' <=> g \in t)
  BY <1>0, MergeGood
<1>2. call.bits = {b}
  BY Zenon DEF PlainCall
<1>3. \A x \in Offsets : BitsAt(tree', x) =
         IF x \in call.start .. y THEN Apply(BitsAt(tree, x)) ELSE BitsAt(tree, x)
  <2>1. ASSUME NEW x \in Offsets, x \in call.start .. y
        PROVE  BitsAt(tree', x) = Apply(BitsAt(tree, x))
    <3>1. BitsAt(tree', x) = {b} /\ BitsAt(tree, x) \in {{}, {b}}
      BY <1>0, <1>1, <2>1, Zenon
    <3> QED
      BY <1>2, <3>1, Zenon DEF Apply
  <2>2. ASSUME NEW x \in Offsets, x \notin call.start .. y
        PROVE  BitsAt(tree', x) = BitsAt(tree, x)
    BY <1>0, <1>1, <2>2, Zenon
  <2> QED
    BY <2>1, <2>2, Zenon
<1>4. \A g : Locked(g) => (g \in tree' <=> g \in tree)
  BY <1>0, <1>1, Zenon
<1> QED
  BY <1>0, <1>1, <1>3, <1>4, PlainRound, Zenon

\* A round that only splits the extent e at the loop variable.
LEMMA SplitOnly ==
    ASSUME ExtentAssumption, NEW b, UseInv(b), Inv', call # NoCall, PlainCall(b),
           NEW e \in Found, e.start < call.start, tree' = split_state(tree, e, call.start),
           GoOnAt(call.start), UNCHANGED <<want, saved>>
    PROVE  UseInv(b)'
<1> DEFINE f == FirstHalf(e, call.start)
           s == SecondHalf(e, call.start)
<1>0. /\ call.start \in Offsets /\ call.start \in Int /\ call.end \in Int
      /\ call.start <= call.end
      /\ call \in [kind : {"set", "clear"}, start : Offsets, end : Offsets, bits : SUBSET Bits]
  BY CallFacts, Zenon DEF UseInv
<1>1. e \in tree /\ call.start <= e.end /\ Plain(b, e) /\ e \in States /\ e.start \in Int /\ e.end \in Int
  BY <1>0, TreeFacts
<1>2. call' = call
  BY <1>0, Zenon DEF GoOnAt
<1>3. /\ Good(b, tree') /\ \A x \in Offsets : BitsAt(tree', x) = BitsAt(tree, x)
      /\ f.start = e.start /\ f.end = call.start - 1 /\ Plain(b, f) /\ Plain(b, s)
      /\ s.start = call.start /\ s.end = e.end
  BY <1>0, <1>1, TreeFacts, SplitGood
<1>4. tree' = (tree \ {e}) \cup {f, s}
  BY Zenon DEF split_state
<1> HIDE DEF f, s
<1>5. Exact'
  BY <1>2, <1>3, Zenon DEF UseInv, Exact, Apply
<1>6. \A g : Locked(g) => (g \in tree' <=> g \in tree)
  BY <1>1, <1>3, <1>4, Zenon DEF Locked, Plain
<1>7. Pointers'
  BY <1>6, Zenon DEF UseInv, Pointers, Locked
<1>8. Joined(tree', Loop')
  <2>1. Loop' = call.start
    BY <1>2, Zenon DEF Loop
  <2> SUFFICES ASSUME NEW g \in tree', NEW h \in tree', g.end + 1 = h.start, g.bits = h.bits,
                      h.start # call.start
               PROVE  g.bits \cap IoBits # {}
    BY <2>1, Zenon DEF Joined
  <2>2. h # s
    BY <1>3, Zenon
  <2>3. PICK g0 \in tree : g0.bits = g.bits /\ (g0.end = g.end \/ g = f)
    BY <1>1, <1>3, <1>4, Zenon DEF Plain
  <2>4. g # f
    BY <1>0, <1>3
  <2>5. PICK h0 \in tree : h0.bits = h.bits /\ h0.start = h.start
    BY <1>1, <1>3, <1>4, <2>2, Zenon DEF Plain
  <2> QED
    BY <2>3, <2>4, <2>5, TreeFacts, Zenon
<1>9. PlainCall(b)'
  BY <1>2, Zenon DEF PlainCall
<1> QED
  BY <1>3, <1>5, <1>7, <1>8, <1>9, Zenon DEF UseInv, Good

\* The rounds of set_extent_bits on a tree of one bit.
LEMMA PlainSet ==
    ASSUME ExtentAssumption, NEW b, UseInv(b), Inv', call # NoCall, PlainCall(b),
           SetRest \/ SetWhole \/ SetSplitHead \/ SetHole \/ SetSplitTail
    PROVE  UseInv(b)'
<1> DEFINE k == call.start
<1>0. /\ call.kind = "set" /\ call.bits = {b} /\ b \notin IoBits /\ UNCHANGED <<want, saved>>
      /\ k \in Offsets /\ k \in Int /\ call.end \in Int /\ call.end \in Offsets /\ k <= call.end
      /\ {b} \subseteq Bits /\ \A g \in LockCalls : g.start \in Int /\ g.end \in Int
  BY CallFacts, Zenon DEF UseInv, PlainCall, SetRest, SetWhole, SetSplitHead, SetHole, SetSplitTail
<1>1. ASSUME NEW e \in Found, e.start <= k
      PROVE  /\ e \in tree /\ e \in States /\ k <= e.end /\ Plain(b, e) /\ e.bits = {b}
             /\ e.start \in Int /\ e.end \in Int /\ e.end \in Offsets /\ e.start <= e.end
             /\ \A x \in Offsets : x \in e.start .. e.end => BitsAt(tree, x) = {b}
  <2>1. /\ e \in tree /\ e \in States /\ k <= e.end /\ e.start \in Int /\ e.end \in Int
        /\ e.end \in Offsets /\ e.start <= e.end
    BY TreeFacts, Zenon
  <2>2. Plain(b, e)
    BY <1>0, <1>1, <2>1, TreeFacts
  <2>3. e.bits = {b}
    BY <2>2, Zenon DEF Plain
  <2> QED
    BY <2>1, <2>2, <2>3, TreeFacts, BitsOf, Zenon
<1>2. GoOnAfter(call.end) <=> call' = NoCall
  BY <1>0 DEF GoOnAfter
<1>3. ASSUME NEW n, NEW y \in Offsets, k <= y, y <= call.end, GoOnAfter(y),
             n = [start |-> k, end |-> y, bits |-> {b}, xprivate |-> NoPrivate],
             \A g \in tree : g.end < k \/ y < g.start,
             tree' = merge_state(tree \cup {n}, n)
      PROVE  UseInv(b)'
  <2> DEFINE t == tree \cup {n}
  <2>1. /\ n \in States /\ n.start = k /\ n.end = y /\ n.bits = {b} /\ n.xprivate = NoPrivate
        /\ y \in Int
    BY <1>0, <1>3 DEF States, Offsets
  <2>2. WellFormed(t)
    BY <1>3, <2>1, TreeFacts, InsertOK, Zenon DEF Apart
  <2>3. Plain(b, n)
    BY <1>0, <1>3, <2>1 DEF Plain, PlainCall, Meets
  <2>4. Good(b, t)
    BY <2>2, <2>3, TreeFacts, Zenon DEF Good
  <2>5. ASSUME NEW x \in Offsets, x \in k .. y
        PROVE  BitsAt(t, x) = {b} /\ BitsAt(tree, x) = {}
    <3>1. BitsAt(t, x) = {b}
      BY <2>1, <2>2, <2>5, BitsOf
    <3>2. \A g \in tree : x \notin g.start .. g.end
      BY <1>0, <1>3, <2>1, <2>5, TreeFacts
    <3> QED
      BY <3>1, <3>2, TreeFacts, BitsOf, Zenon
  <2>6. ASSUME NEW x \in Offsets, x \notin k .. y
        PROVE  BitsAt(t, x) = BitsAt(tree, x)
    BY <2>1, <2>2, <2>6, TreeFacts, SameBits
  <2>7. \A g, h \in t : g # n /\ h # n /\ g.end + 1 = h.start /\ g.bits = h.bits
           => g.bits \cap IoBits # {}
    <3>1. \A h \in tree : h.start # k
      BY <1>0, <1>3, <2>1, TreeFacts
    <3> QED
      BY <3>1, TreeFacts, Zenon
  <2>8. \A g : Locked(g) => (g \in t <=> g \in tree)
    BY <1>0, <2>1, Zenon DEF Locked
  <2> HIDE DEF t
  <2>9. n \in t /\ tree' = merge_state(t, n)
    BY <1>3, Zenon DEF t
  <2>10. /\ \A x \in Offsets : x \notin call.start .. y => BitsAt(t, x) = BitsAt(tree, x)
         /\ \A x \in Offsets : x \in call.start .. y
               => BitsAt(t, x) = {b} /\ BitsAt(tree, x) \in {{}, {b}}
    BY <2>5, <2>6, Zenon
  <2> HIDE DEF k
  <2>11. n.start = call.start /\ call.start <= y
    BY <1>3, <2>1, Zenon DEF k
  <2>12. SetTo(b, t, n, y)
    BY <1>3, <2>3, <2>4, <2>7, <2>8, <2>9, <2>10, <2>11, Zenon DEF SetTo
  <2> QED
    BY <1>0, <1>3, <2>9, <2>12, SetVia, Zenon
<1>4. CASE SetRest
  <2> DEFINE n == [start |-> k, end |-> call.end, bits |-> {b}, xprivate |-> NoPrivate]
  <2>1. /\ \A e \in tree : e.end < k
        /\ tree' = merge_state(tree \cup {n}, n) /\ GoOnAfter(call.end)
    BY <1>0, <1>2, <1>4, Zenon DEF SetRest
  <2>2. n = [start |-> k, end |-> call.end, bits |-> {b}, xprivate |-> NoPrivate]
    BY Zenon
  <2>3. \A g \in tree : g.end < k \/ call.end < g.start
    BY <2>1, Zenon
  <2>4. k <= call.end /\ call.end <= call.end /\ call.end \in Offsets
    BY <1>0
  <2> HIDE DEF n, k
  <2> QED
    BY <1>3, <2>1, <2>2, <2>3, <2>4, Zenon
<1>5. CASE SetHole
  <2> DEFINE L(e) == IF call.end < e.start THEN call.end ELSE e.start - 1
             N(e) == [start |-> k, end |-> L(e), bits |-> {b}, xprivate |-> NoPrivate]
  <2>1. PICK e \in Found : /\ e.start > k /\ GoOnAfter(L(e))
                           /\ tree' = merge_state(tree \cup {N(e)}, N(e))
    BY <1>0, <1>5, Zenon DEF SetHole
  <2>2. /\ e \in tree /\ e.start \in Offsets /\ e.start \in Int
        /\ \A g \in tree : g.end >= k => e.start <= g.start
    BY TreeFacts, Zenon
  <2>3. L(e) \in Offsets /\ L(e) \in Int /\ k <= L(e) /\ L(e) <= call.end /\ L(e) < e.start
    BY <1>0, <2>1, <2>2 DEF Offsets
  <2>4. \A g \in tree : g.end < k \/ L(e) < g.start
    <3> HIDE DEF L
    <3> QED
      BY <1>0, <2>2, <2>3, TreeFacts
  <2>5. N(e) = [start |-> k, end |-> L(e), bits |-> {b}, xprivate |-> NoPrivate]
    BY Zenon
  <2> HIDE DEF L, N
  <2> QED
    BY <1>3, <2>1, <2>3, <2>4, <2>5, Zenon
<1>6. CASE SetWhole
  <2>1. PICK e \in Found : /\ e.start = k /\ e.end <= call.end /\ GoOnAfter(e.end)
                           /\ tree' = merge_state(set_bits(tree, e, {b}), with_bits(e, {b}))
    BY <1>0, <1>6, Zenon DEF SetWhole
  <2>2. /\ e \in tree /\ e \in States /\ k <= e.end /\ Plain(b, e) /\ e.bits = {b}
        /\ e.end \in Offsets
        /\ \A x \in Offsets : x \in k .. e.end => BitsAt(tree, x) = {b}
    BY <1>0, <1>1, <2>1
  <2>3. tree' = merge_state(tree, e)
    BY <2>1, <2>2, NoNewBits, Zenon
  <2>4. \A g, h \in tree : g # e /\ h # e /\ g.end + 1 = h.start /\ g.bits = h.bits
           => g.bits \cap IoBits # {}
    BY <1>0, <2>1, <2>2, TreeFacts
  <2>5. SetTo(b, tree, e, e.end)
    BY <2>1, <2>2, <2>4, TreeFacts, Zenon DEF SetTo
  <2> QED
    BY <1>0, <2>1, <2>3, <2>5, SetVia, Zenon
<1>7. CASE SetSplitHead
  <2> DEFINE T(e) == split_state(tree, e, k)
             S(e) == SecondHalf(e, k)
  <2>1. PICK e \in Found :
           /\ e.start < k
           /\ \/ /\ tree' = merge_state(set_bits(T(e), S(e), {b}), with_bits(S(e), {b}))
                 /\ e.end <= call.end /\ GoOnAfter(e.end)
              \/ tree' = T(e) /\ GoOnAt(k)
    BY <1>0, <1>7, Zenon DEF SetSplitHead
  <2>2. /\ e \in tree /\ e \in States /\ k <= e.end /\ Plain(b, e) /\ e.bits = {b}
        /\ e.start \in Int /\ e.end \in Int /\ e.end \in Offsets
        /\ \A x \in Offsets : x \in e.start .. e.end => BitsAt(tree, x) = {b}
    BY <1>0, <1>1, <2>1, TreeFacts
  <2>3. CASE tree' = T(e) /\ GoOnAt(k)
    BY <1>0, <2>1, <2>3, SplitOnly, Zenon
  <2>4. CASE /\ tree' = merge_state(set_bits(T(e), S(e), {b}), with_bits(S(e), {b}))
             /\ e.end <= call.end /\ GoOnAfter(e.end)
    <3>1. /\ Good(b, T(e)) /\ S(e) \in T(e) /\ Plain(b, S(e)) /\ S(e) \in States
          /\ S(e).start = k /\ S(e).end = e.end /\ FirstHalf(e, k).end = k - 1
          /\ FirstHalf(e, k).start = e.start /\ Plain(b, FirstHalf(e, k))
          /\ \A x \in Offsets : BitsAt(T(e), x) = BitsAt(tree, x)
      <4> HIDE DEF k
      <4>1. /\ k \in Offsets /\ e.start < k /\ k <= e.end
            /\ Good(b, tree) /\ e \in tree /\ e \in States /\ Plain(b, e)
        BY <1>0, <2>1, <2>2, TreeFacts, Zenon DEF k
      <4>2. /\ Good(b, T(e)) /\ S(e) \in T(e) /\ Plain(b, S(e)) /\ S(e) \in States
            /\ Plain(b, FirstHalf(e, k))
        BY <4>1, SplitGood, Zenon
      <4>3. /\ S(e).start = k /\ S(e).end = e.end
            /\ FirstHalf(e, k).start = e.start /\ FirstHalf(e, k).end = k - 1
        BY <4>1, Zenon DEF FirstHalf, SecondHalf, States
      <4>4. \A x \in Offsets : BitsAt(T(e), x) = BitsAt(tree, x)
        BY <4>1, SplitGood
      <4> QED
        BY <4>2, <4>3, <4>4, Zenon
    <3>2. T(e) = (tree \ {e}) \cup {FirstHalf(e, k), S(e)}
      BY Zenon DEF split_state
    <3> HIDE DEF T, S
    <3>3. tree' = merge_state(T(e), S(e))
      BY <2>4, <3>1, NoNewBits, Zenon DEF Plain
    <3>4. \A g, h \in T(e) : g # S(e) /\ h # S(e) /\ g.end + 1 = h.start /\ g.bits = h.bits
             => g.bits \cap IoBits # {}
      <4> SUFFICES ASSUME NEW g \in T(e), NEW h \in T(e), g # S(e), h # S(e),
                          g.end + 1 = h.start, g.bits = h.bits
                   PROVE  g.bits \cap IoBits # {}
        BY Zenon
      <4>1. g \in tree \/ g = FirstHalf(e, k)
        BY <3>2, Zenon
      <4>2. PICK h0 \in tree : h0.bits = h.bits /\ h0.start = h.start
        BY <2>2, <3>1, <3>2, Zenon DEF Plain
      <4>3. h.start # k
        <5>1. CASE h = FirstHalf(e, k)
          <6>1. h.start = e.start /\ e.start \in Int /\ e.start < k
            BY <2>1, <2>2, <3>1, <5>1, Zenon
          <6> QED
            BY <6>1
        <5>2. CASE h \in tree /\ h # e
          <6> HIDE DEF k
          <6>1. k \in Int /\ e.start < k /\ k <= e.end
            BY <1>0, <2>1, <2>2, Zenon DEF k
          <6> QED
            BY <2>2, <5>2, <6>1, TreeFacts, CutInside, Zenon
        <5> QED
          BY <3>2, <5>1, <5>2, Zenon
      <4>4. g # FirstHalf(e, k)
        <5> HIDE DEF k
        <5>1. k \in Int /\ (g = FirstHalf(e, k) => g.end = k - 1)
          BY <1>0, <3>1, Zenon DEF k
        <5> QED
          BY <4>3, <5>1
      <4> QED
        BY <4>1, <4>2, <4>3, <4>4, TreeFacts, Zenon
    <3>5. \A g : Locked(g) => (g \in T(e) <=> g \in tree)
      BY <2>2, <3>1, <3>2 DEF Locked, Plain
    <3>6. /\ \A x \in Offsets : x \notin k .. e.end => BitsAt(T(e), x) = BitsAt(tree, x)
          /\ \A x \in Offsets : x \in k .. e.end
                => BitsAt(T(e), x) = {b} /\ BitsAt(tree, x) \in {{}, {b}}
      BY <1>0, <2>1, <2>2, <3>1 DEF Offsets
    <3>7. SetTo(b, T(e), S(e), e.end)
      BY <2>2, <2>4, <3>1, <3>4, <3>5, <3>6, Zenon DEF SetTo
    <3> QED
      BY <1>0, <2>4, <3>3, <3>7, SetVia, Zenon
  <2> QED
    BY <2>1, <2>3, <2>4, Zenon
<1>8. CASE SetSplitTail
  <2> DEFINE y == call.end + 1
             T(e) == split_state(tree, e, y)
             F(e) == FirstHalf(e, y)
             S(e) == SecondHalf(e, y)
  <2>1. PICK e \in Found : /\ e.start = k /\ e.end > call.end /\ call' = NoCall
                           /\ tree' = merge_state(set_bits(T(e), S(e), {b}), F(e))
    BY <1>0, <1>8, Zenon DEF SetSplitTail
  <2>2. /\ e \in tree /\ e \in States /\ Plain(b, e) /\ e.bits = {b}
        /\ e.start \in Int /\ e.end \in Int /\ e.end \in Offsets
        /\ \A x \in Offsets : x \in e.start .. e.end => BitsAt(tree, x) = {b}
    BY <1>0, <1>1, <2>1
  <2>3. y \in Offsets /\ e.start < y /\ y <= e.end
    BY <1>0, <2>1, <2>2 DEF Offsets
  <2>4. /\ Good(b, T(e)) /\ F(e) \in T(e) /\ Plain(b, F(e))
        /\ S(e) \in T(e) /\ Plain(b, S(e)) /\ S(e) \in States
        /\ S(e).start = y /\ S(e).end = e.end /\ F(e).start = e.start
        /\ \A x \in Offsets : BitsAt(T(e), x) = BitsAt(tree, x)
    <3> HIDE DEF y
    <3>1. Good(b, tree) /\ e \in tree /\ e \in States /\ Plain(b, e)
      BY <2>2, TreeFacts, Zenon
    <3>2. /\ Good(b, T(e)) /\ F(e) \in T(e) /\ Plain(b, F(e))
          /\ S(e) \in T(e) /\ Plain(b, S(e)) /\ S(e) \in States
      BY <2>3, <3>1, SplitGood, Zenon
    <3>3. S(e).start = y /\ S(e).end = e.end /\ F(e).start = e.start /\ F(e).end = y - 1
      BY <3>1, Zenon DEF FirstHalf, SecondHalf, States
    <3>4. \A x \in Offsets : BitsAt(T(e), x) = BitsAt(tree, x)
      BY <2>3, <3>1, SplitGood
    <3> QED
      BY <3>2, <3>3, <3>4, Zenon
  <2>5. T(e) = (tree \ {e}) \cup {F(e), S(e)}
    BY Zenon DEF split_state
  <2> HIDE DEF T, F, S
  <2>6. tree' = merge_state(T(e), F(e))
    BY <2>1, <2>4, NoNewBits, Zenon DEF Plain
  <2>7. \A g, h \in T(e) : g # F(e) /\ h # F(e) /\ g.end + 1 = h.start /\ g.bits = h.bits
           => g.bits \cap IoBits # {}
    <3> SUFFICES ASSUME NEW g \in T(e), NEW h \in T(e), g # F(e), h # F(e),
                        g.end + 1 = h.start, g.bits = h.bits
                 PROVE  g.bits \cap IoBits # {}
      BY Zenon
    <3>1. PICK g0 \in tree : g0.bits = g.bits /\ g0.end = g.end
      BY <2>2, <2>4, <2>5, Zenon DEF Plain
    <3>2. (h \in tree /\ h # e) \/ h = S(e)
      BY <2>5, Zenon
    <3>3. CASE h = S(e)
      <4>0. y \in Int /\ g.end + 1 = y
        <5>1. y \in Offsets /\ g.end + 1 = y
          BY <2>3, <2>4, <3>3, Zenon
        <5> HIDE DEF y
        <5> QED
          BY <5>1 DEF Offsets
      <4>1. g # S(e)
        <5>1. g = S(e) => e.end + 1 = y
          BY <2>4, <4>0, Zenon
        <5>2. e.end \in Int /\ y <= e.end
          BY <2>2, <2>3, Zenon
        <5> QED
          BY <5>1, <5>2
      <4>2. g \in tree /\ g # e
        BY <2>5, <4>1, Zenon
      <4> HIDE DEF y
      <4>3. g.end + 1 # y
        BY <2>2, <2>3, <4>0, <4>2, TreeFacts, CutInside, Zenon
      <4> QED
        BY <4>0, <4>3, Zenon
    <3>4. CASE h \in tree /\ h # e
      <4>1. h.start # k
        <5>1. /\ h.start \in Int /\ h.end \in Int /\ h.start <= h.end
              /\ h.end < e.start \/ e.end < h.start
          BY <2>2, <3>4, TreeFacts, Zenon
        <5>2. /\ e.start \in Int /\ e.end \in Int /\ e.start = k /\ e.start < y /\ y <= e.end
          BY <2>1, <2>2, <2>3, Zenon
        <5>3. y \in Int
          BY <1>0
        <5> HIDE DEF k, y
        <5> QED
          BY <5>1, <5>2, <5>3
      <4> QED
        BY <3>1, <3>4, <4>1, TreeFacts, Zenon
    <3> QED
      BY <3>2, <3>3, <3>4, Zenon
  <2>8. \A g : Locked(g) => (g \in T(e) <=> g \in tree)
    BY <2>2, <2>4, <2>5 DEF Locked, Plain
  <2>9. /\ \A x \in Offsets : x \notin k .. call.end => BitsAt(T(e), x) = BitsAt(tree, x)
        /\ \A x \in Offsets : x \in k .. call.end
              => BitsAt(T(e), x) = {b} /\ BitsAt(tree, x) \in {{}, {b}}
    BY <1>0, <2>1, <2>2, <2>4 DEF Offsets
  <2>10. SetTo(b, T(e), F(e), call.end)
    <3>1. call.start <= call.end /\ call.end <= call.end /\ call.end \in Offsets
      BY <1>0
    <3> QED
      BY <2>1, <2>4, <2>7, <2>8, <2>9, <3>1, Zenon DEF SetTo
  <2> QED
    BY <1>0, <1>2, <2>1, <2>6, <2>10, SetVia, Zenon
<1> QED
  BY <1>4, <1>5, <1>6, <1>7, <1>8, Zenon

\* A set of natural numbers has a least element.
LEMMA Least ==
    ASSUME NEW S \in SUBSET Nat, S # {}
    PROVE  \E m \in S : \A k \in S : m <= k
<1> DEFINE R == OpToRel(<, Nat)
<1>1. IsWellFoundedOn(R, Nat)
  BY NatLessThanWellFounded, Zenon
<1>2. \A x, y \in Nat : x < y => <<x, y>> \in R
  BY Zenon DEF OpToRel
<1> HIDE DEF R
<1>3. PICK m \in S : \A k \in S : ~(<<k, m>> \in R)
  BY <1>1, WFMin, Zenon
<1>4. ASSUME NEW k \in S PROVE m <= k
  <2>1. k \in Nat /\ m \in Nat
    BY Zenon
  <2>2. ~(k < m)
    BY <1>2, <1>3, <2>1, Zenon
  <2> QED
    BY <2>1, <2>2
<1> QED
  BY <1>4, Zenon

\* search_cache_extent finds an extent if there is one.
LEMMA SearchFinds ==
    ASSUME ExtentAssumption, NEW t, WellFormed(t), NEW s \in Offsets, NEW e \in t, e.end >= s
    PROVE  \E f \in search_cache_extent(t, s) : f.start <= e.start
<1> DEFINE T == {f \in t : f.end >= s}
           S == {f.start : f \in T}
<1>1. \A f \in t : f.start \in Nat
  BY DEF WellFormed, States, Offsets
<1>2. S \in SUBSET Nat /\ e.start \in S
  BY <1>1, Zenon
<1>3. PICK m \in S : \A k \in S : m <= k
  BY <1>2, Least, Zenon
<1>4. PICK f \in T : m = f.start
  BY Zenon
<1>5. \A g \in T : f.start <= g.start
  BY <1>3, <1>4, Zenon
<1>6. f \in search_cache_extent(t, s)
  BY <1>5, Zenon DEF search_cache_extent
<1> QED
  BY <1>2, <1>3, <1>4, <1>6, Zenon

\* A round of clear_extent_bits on a tree of one bit takes the extent p out of
\* t, the only one that the range up to y meets.
ClearTo(b, t, p, y) ==
    /\ Good(b, t) /\ p \in t /\ Plain(b, p)
    /\ y \in Offsets /\ call.start <= y /\ y <= call.end
    /\ call.start <= p.start /\ p.end <= y
    /\ Joined(t \ {p}, NoOffset)
    /\ \A x \in Offsets : BitsAt(t, x) = BitsAt(tree, x)
    /\ \A x \in Offsets : x \in call.start .. y
          => x \in p.start .. p.end \/ BitsAt(tree, x) = {}
    /\ \A g : Locked(g) => (g \in t <=> g \in tree)

\* Such a round of clear_extent_bits keeps the invariant.
LEMMA ClearVia ==
    ASSUME ExtentAssumption, NEW b, UseInv(b), Inv', call # NoCall, PlainCall(b),
           call.kind = "clear", NEW t, NEW p, NEW y, ClearTo(b, t, p, y),
           GoOnAfter(y), tree' = clear_state_bit(t, p, call.bits), UNCHANGED <<want, saved>>
    PROVE  UseInv(b)'
<1>0. /\ Good(b, t) /\ p \in t /\ Plain(b, p)
      /\ y \in Offsets /\ call.start <= y /\ y <= call.end
      /\ call.start <= p.start /\ p.end <= y
      /\ Joined(t \ {p}, NoOffset)
      /\ \A x \in Offsets : BitsAt(t, x) = BitsAt(tree, x)
      /\ \A x \in Offsets : x \in call.start .. y
            => x \in p.start .. p.end \/ BitsAt(tree, x) = {}
      /\ \A g : Locked(g) => (g \in t <=> g \in tree)
  BY Zenon DEF ClearTo
<1>1. b \in call.bits /\ p.bits = {b} /\ p \in States /\ WellFormed(t)
  BY <1>0, Zenon DEF PlainCall, Plain, Good, WellFormed
<1>2. tree' = t \ {p}
  <2>1. [p EXCEPT !.bits = @ \ call.bits].bits = {}
    BY <1>1, Zenon DEF States
  <2> QED
    BY <2>1, Zenon DEF clear_state_bit
<1>3. WellFormed(tree') /\ Good(b, tree')
  BY <1>0, <1>1, <1>2, RemoveOK, Zenon DEF Good
<1>4. \A g : Locked(g) => (g \in tree' <=> g \in tree)
  BY <1>0, <1>2 DEF Locked, Plain
<1>5. \A x \in Offsets : BitsAt(tree', x) =
         IF x \in call.start .. y THEN Apply(BitsAt(tree, x)) ELSE BitsAt(tree, x)
  <2> TAKE x \in Offsets
  <2>0. /\ x \in Int /\ y \in Int /\ call.start \in Int /\ p.start \in Int /\ p.end \in Int
    BY <1>0, <1>1, CallFacts DEF UseInv, States, Offsets
  <2>1. CASE x \in p.start .. p.end
    <3>1. \A g \in t : g # p => x \notin g.start .. g.end
      <4> SUFFICES ASSUME NEW g \in t, g # p, x \in g.start .. g.end PROVE FALSE
        BY Zenon
      <4>1. Apart(g, p) /\ g \in States
        BY <1>0, <1>1, Zenon DEF WellFormed
      <4> QED
        BY <2>0, <2>1, <4>1 DEF Apart, States, Offsets
    <3>2. BitsAt(tree', x) = {}
      BY <1>2, <1>3, <3>1, BitsOf, Zenon
    <3>3. BitsAt(tree, x) = {b}
      BY <1>0, <1>1, <2>1, BitsOf
    <3>4. Apply(BitsAt(tree, x)) = {}
      BY <1>1, <3>3, Zenon DEF Apply
    <3>5. x \in call.start .. y
      BY <1>0, <2>0, <2>1
    <3> QED
      BY <3>2, <3>4, <3>5, Zenon
  <2>2. CASE x \notin p.start .. p.end
    <3>1. BitsAt(tree', x) = BitsAt(tree, x)
      <4>1. BitsAt(tree', x) = BitsAt(t, x)
        BY <1>1, <1>2, <1>3, <2>2, SameBits
      <4> QED
        BY <1>0, <4>1, Zenon
    <3>2. x \in call.start .. y => Apply(BitsAt(tree, x)) = BitsAt(tree, x)
      BY <1>0, <2>2, Zenon DEF Apply
    <3> QED
      BY <3>1, <3>2, Zenon
  <2> QED
    BY <2>1, <2>2, Zenon
<1>6. Joined(tree', NoOffset)
  BY <1>0, <1>2, Zenon
<1> QED
  BY <1>0, <1>3, <1>4, <1>5, <1>6, PlainRound, Zenon

\* The rounds of clear_extent_bits on a tree of one bit.
LEMMA PlainClear ==
    ASSUME ExtentAssumption, NEW b, UseInv(b), Inv', call # NoCall, PlainCall(b),
           ClearNothing \/ ClearSplitHead \/ ClearSplitTail \/ ClearWhole
    PROVE  UseInv(b)'
<1> DEFINE k == call.start
<1>0. /\ call.kind = "clear" /\ UNCHANGED <<want, saved>>
      /\ k \in Offsets /\ k \in Int /\ call.end \in Int /\ call.end \in Offsets /\ k <= call.end
  BY CallFacts, Zenon DEF UseInv, PlainCall, ClearNothing, ClearSplitHead, ClearSplitTail, ClearWhole
<1>1. ASSUME NEW e \in Found, e.start <= call.end
      PROVE  /\ e \in tree /\ e \in States /\ k <= e.end /\ Plain(b, e)
             /\ e.start \in Int /\ e.end \in Int /\ e.end \in Offsets /\ e.start <= e.end
             /\ \A x \in Offsets : x \in k .. e.end
                   => x \in e.start .. e.end \/ BitsAt(tree, x) = {}
             /\ \A h \in tree : h # e => h.start # k
  <2>1. /\ e \in tree /\ e \in States /\ k <= e.end /\ e.start \in Int /\ e.end \in Int
        /\ e.end \in Offsets /\ e.start <= e.end
        /\ \A f \in tree : f.end >= k => e.start <= f.start
    BY TreeFacts, Zenon
  <2>2. Plain(b, e)
    BY <1>0, <1>1, <2>1, TreeFacts, Zenon
  <2>3. ASSUME NEW x \in Offsets, x \in k .. e.end, x \notin e.start .. e.end
        PROVE  BitsAt(tree, x) = {}
    <3>1. x \in Int
      BY DEF Offsets
    <3>2. \A f \in tree : x \notin f.start .. f.end
      BY <1>0, <2>1, <2>3, <3>1, TreeFacts
    <3> QED
      BY <3>2, TreeFacts, BitsOf, Zenon
  <2>4. \A h \in tree : h # e => h.start # k
    BY <1>0, <2>1, TreeFacts
  <2> QED
    BY <2>1, <2>2, <2>3, <2>4, Zenon
<1>2. GoOnAfter(call.end) <=> call' = NoCall
  BY <1>0 DEF GoOnAfter
<1>3. CASE ClearNothing
  <2>1. /\ \A e \in Found : e.start > call.end
        /\ call' = NoCall /\ tree' = tree
    BY <1>3, Zenon DEF ClearNothing
  <2>2. \A e \in tree : e.end < k \/ call.end < e.start
    <3> SUFFICES ASSUME NEW e \in tree, ~(e.end < k), ~(call.end < e.start) PROVE FALSE
      BY Zenon
    <3>0. k \in Int /\ call.end \in Int /\ e.start \in Int /\ e.end \in Int
      BY <1>0, TreeFacts, Zenon
    <3>1. e.end >= k /\ e.start <= call.end
      BY <3>0
    <3>2. PICK f \in Found : f.start <= e.start
      BY <1>0, <3>1, TreeFacts, SearchFinds, Zenon DEF Found
    <3>3. f.start \in Int /\ f.start > call.end
      BY <2>1, TreeFacts, Zenon
    <3> QED
      BY <3>0, <3>1, <3>2, <3>3
  <2>3. ASSUME NEW x \in Offsets, x \in k .. call.end PROVE BitsAt(tree, x) = {}
    <3>1. ASSUME NEW e \in tree, x \in e.start .. e.end PROVE FALSE
      <4>1. /\ e.start \in Int /\ e.end \in Int /\ k \in Int /\ call.end \in Int
            /\ e.end < k \/ call.end < e.start
        BY <1>0, <2>2, TreeFacts, Zenon
      <4> HIDE DEF k
      <4> QED
        BY <2>3, <3>1, <4>1
    <3> QED
      BY <3>1, TreeFacts, BitsOf, Zenon
  <2>4. \A x \in Offsets : BitsAt(tree', x) =
           IF x \in call.start .. call.end THEN Apply(BitsAt(tree, x)) ELSE BitsAt(tree, x)
    BY <1>0, <2>1, <2>3, Zenon DEF Apply
  <2>5. Joined(tree', NoOffset)
    <3>1. \A h \in tree : h.start # k
      BY <1>0, <2>2, TreeFacts
    <3> QED
      BY <2>1, <3>1, TreeFacts, Zenon DEF Joined
  <2>6. Good(b, tree') /\ \A g : Locked(g) => (g \in tree' <=> g \in tree)
    BY <2>1, TreeFacts, Zenon
  <2> QED
    BY <1>0, <1>2, <2>1, <2>4, <2>5, <2>6, PlainRound
<1>4. CASE ClearWhole
  <2>1. PICK e \in Found : /\ k <= e.start /\ e.end <= call.end /\ GoOnAfter(e.end)
                           /\ tree' = clear_state_bit(tree, e, call.bits)
    BY <1>4, Zenon DEF ClearWhole
  <2>2. e.start <= call.end
    BY <1>0, <2>1, TreeFacts
  <2>3. Joined(tree \ {e}, NoOffset)
    BY <1>1, <2>2, TreeFacts, Zenon DEF Joined
  <2>4. ClearTo(b, tree, e, e.end)
    <3>1. e.end <= e.end
      BY <1>1, <2>2
    <3> QED
      BY <1>1, <2>1, <2>2, <2>3, <3>1, TreeFacts, Zenon DEF ClearTo
  <2> QED
    BY <1>0, <2>1, <2>4, ClearVia, Zenon
<1>5. CASE ClearSplitHead
  <2> DEFINE T(e) == split_state(tree, e, k)
             S(e) == SecondHalf(e, k)
             F(e) == FirstHalf(e, k)
  <2>1. PICK e \in Found :
           /\ e.start < k
           /\ \/ /\ tree' = clear_state_bit(T(e), S(e), call.bits)
                 /\ e.end <= call.end /\ GoOnAfter(e.end)
              \/ tree' = T(e) /\ GoOnAt(k)
    BY <1>0, <1>5, Zenon DEF ClearSplitHead
  <2>2. e.start <= call.end
    <3>1. e.start \in Int /\ call.start \in Int /\ call.end \in Int /\ e.start < call.start
      BY <1>0, <2>1, TreeFacts, Zenon
    <3>2. call.start <= call.end
      BY <1>0, Zenon
    <3> QED
      BY <3>1, <3>2
  <2>3. CASE tree' = T(e) /\ GoOnAt(k)
    BY <1>0, <2>1, <2>3, SplitOnly, Zenon
  <2>4. CASE /\ tree' = clear_state_bit(T(e), S(e), call.bits)
             /\ e.end <= call.end /\ GoOnAfter(e.end)
    <3>0. /\ e \in tree /\ e \in States /\ k <= e.end /\ Plain(b, e)
          /\ e.start \in Int /\ e.end \in Int /\ e.end \in Offsets
      BY <1>1, <2>2, Zenon
    <3>1. /\ Good(b, T(e)) /\ S(e) \in T(e) /\ Plain(b, S(e))
          /\ S(e).start = k /\ S(e).end = e.end /\ F(e).end = k - 1
          /\ F(e).start = e.start /\ Plain(b, F(e))
          /\ \A x \in Offsets : BitsAt(T(e), x) = BitsAt(tree, x)
      <4> HIDE DEF k
      <4>1. /\ k \in Offsets /\ e.start < k /\ k <= e.end
            /\ Good(b, tree) /\ e \in tree /\ e \in States /\ Plain(b, e)
        BY <1>0, <2>1, <3>0, TreeFacts, Zenon DEF k
      <4>2. /\ Good(b, T(e)) /\ S(e) \in T(e) /\ Plain(b, S(e)) /\ S(e) \in States
            /\ Plain(b, F(e))
        BY <4>1, SplitGood, Zenon
      <4>3. /\ S(e).start = k /\ S(e).end = e.end
            /\ F(e).start = e.start /\ F(e).end = k - 1
        BY <4>1, Zenon DEF FirstHalf, SecondHalf, States
      <4>4. \A x \in Offsets : BitsAt(T(e), x) = BitsAt(tree, x)
        BY <4>1, SplitGood
      <4> QED
        BY <4>2, <4>3, <4>4, Zenon
    <3>2. T(e) = (tree \ {e}) \cup {F(e), S(e)}
      BY Zenon DEF split_state
    <3> HIDE DEF T, S, F
    <3>3. Joined(T(e) \ {S(e)}, NoOffset)
      <4> SUFFICES ASSUME NEW g \in T(e) \ {S(e)}, NEW h \in T(e) \ {S(e)},
                          g.end + 1 = h.start, g.bits = h.bits
                   PROVE  g.bits \cap IoBits # {}
        BY Zenon DEF Joined
      <4>1. g \in tree \/ g = F(e)
        BY <3>2, Zenon
      <4>2. PICK h0 \in tree : h0.bits = h.bits /\ h0.start = h.start
        BY <3>0, <3>1, <3>2, Zenon DEF Plain
      <4>3. h.start # k
        <5>1. CASE h = F(e)
          <6>1. h.start = e.start /\ e.start \in Int /\ e.start < k
            BY <2>1, <3>0, <3>1, <5>1, Zenon
          <6> QED
            BY <6>1
        <5>2. CASE h \in tree /\ h # e
          BY <1>1, <2>2, <5>2, Zenon
        <5> QED
          BY <3>2, <5>1, <5>2, Zenon
      <4>4. g # F(e)
        <5> HIDE DEF k
        <5>1. k \in Int /\ (g = F(e) => g.end = k - 1)
          BY <1>0, <3>1, Zenon DEF k
        <5> QED
          BY <4>3, <5>1
      <4> QED
        BY <4>1, <4>2, <4>3, <4>4, TreeFacts, Zenon
    <3>4. \A g : Locked(g) => (g \in T(e) <=> g \in tree)
      BY <3>0, <3>1, <3>2, Zenon DEF Locked, Plain
    <3>5. /\ k <= S(e).start /\ S(e).end <= e.end
          /\ \A x \in Offsets : x \in k .. e.end
                => x \in S(e).start .. S(e).end \/ BitsAt(tree, x) = {}
      BY <1>0, <3>0, <3>1
    <3>6. ClearTo(b, T(e), S(e), e.end)
      BY <2>4, <3>0, <3>1, <3>3, <3>4, <3>5, Zenon DEF ClearTo
    <3> QED
      BY <1>0, <2>4, <3>6, ClearVia, Zenon
  <2> QED
    BY <2>1, <2>3, <2>4, Zenon
<1>6. CASE ClearSplitTail
  <2> DEFINE y == call.end + 1
             T(e) == split_state(tree, e, y)
             F(e) == FirstHalf(e, y)
             S(e) == SecondHalf(e, y)
  <2>1. PICK e \in Found : /\ k <= e.start /\ e.start <= call.end /\ e.end > call.end
                           /\ call' = NoCall
                           /\ tree' = clear_state_bit(T(e), F(e), call.bits)
    BY <1>6, Zenon DEF ClearSplitTail
  <2>2. /\ e \in tree /\ e \in States /\ Plain(b, e)
        /\ e.start \in Int /\ e.end \in Int /\ e.end \in Offsets
        /\ \A x \in Offsets : x \in k .. e.end
              => x \in e.start .. e.end \/ BitsAt(tree, x) = {}
        /\ \A h \in tree : h # e => h.start # k
    BY <1>1, <2>1, Zenon
  <2>3. y \in Offsets /\ e.start < y /\ y <= e.end
    BY <1>0, <2>1, <2>2 DEF Offsets
  <2>4. /\ Good(b, T(e)) /\ F(e) \in T(e) /\ Plain(b, F(e)) /\ Plain(b, S(e))
        /\ S(e).start = y /\ S(e).end = e.end /\ F(e).start = e.start /\ F(e).end = y - 1
        /\ \A x \in Offsets : BitsAt(T(e), x) = BitsAt(tree, x)
    <3> HIDE DEF y
    <3>1. Good(b, tree) /\ e \in tree /\ e \in States /\ Plain(b, e)
      BY <2>2, TreeFacts, Zenon
    <3>2. /\ Good(b, T(e)) /\ F(e) \in T(e) /\ Plain(b, F(e))
          /\ S(e) \in T(e) /\ Plain(b, S(e)) /\ S(e) \in States
      BY <2>3, <3>1, SplitGood, Zenon
    <3>3. S(e).start = y /\ S(e).end = e.end /\ F(e).start = e.start /\ F(e).end = y - 1
      BY <3>1, Zenon DEF FirstHalf, SecondHalf, States
    <3>4. \A x \in Offsets : BitsAt(T(e), x) = BitsAt(tree, x)
      BY <2>3, <3>1, SplitGood
    <3> QED
      BY <3>2, <3>3, <3>4, Zenon
  <2>5. T(e) = (tree \ {e}) \cup {F(e), S(e)}
    BY Zenon DEF split_state
  <2> HIDE DEF T, F, S
  <2>6. Joined(T(e) \ {F(e)}, NoOffset)
    <3> SUFFICES ASSUME NEW g \in T(e) \ {F(e)}, NEW h \in T(e) \ {F(e)},
                        g.end + 1 = h.start, g.bits = h.bits
                 PROVE  g.bits \cap IoBits # {}
      BY Zenon DEF Joined
    <3>1. PICK g0 \in tree : g0.bits = g.bits /\ g0.end = g.end
      BY <2>2, <2>4, <2>5, Zenon DEF Plain
    <3>2. CASE h = S(e)
      <4>0. y \in Int /\ g.end + 1 = y
        <5>1. y \in Offsets /\ g.end + 1 = y
          BY <2>3, <2>4, <3>2, Zenon
        <5> HIDE DEF y
        <5> QED
          BY <5>1 DEF Offsets
      <4>1. g # S(e)
        <5>1. g = S(e) => e.end + 1 = y
          BY <2>4, <4>0, Zenon
        <5>2. e.end \in Int /\ y <= e.end
          BY <2>2, <2>3, Zenon
        <5> QED
          BY <5>1, <5>2
      <4>2. g \in tree /\ g # e
        BY <2>5, <4>1, Zenon
      <4> HIDE DEF y
      <4>3. g.end + 1 # y
        BY <2>2, <2>3, <4>0, <4>2, TreeFacts, CutInside, Zenon
      <4> QED
        BY <4>0, <4>3, Zenon
    <3>3. CASE h \in tree /\ h # e
      BY <2>2, <3>1, <3>3, TreeFacts, Zenon
    <3> QED
      BY <2>5, <3>2, <3>3, Zenon
  <2>7. \A g : Locked(g) => (g \in T(e) <=> g \in tree)
    BY <2>2, <2>4, <2>5, Zenon DEF Locked, Plain
  <2>8. /\ k <= F(e).start /\ F(e).end <= call.end /\ call.end <= call.end
        /\ \A x \in Offsets : x \in k .. call.end
              => x \in F(e).start .. F(e).end \/ BitsAt(tree, x) = {}
    <3>0. /\ k \in Int /\ call.end \in Int /\ e.start \in Int /\ e.end \in Int
          /\ call.end < e.end /\ k <= e.start
          /\ F(e).start = e.start /\ F(e).end = y - 1
      BY <1>0, <2>1, <2>2, <2>4, Zenon
    <3>1. F(e).end = call.end /\ call.end <= call.end
      BY <3>0
    <3>2. ASSUME NEW x \in Offsets, x \in k .. call.end, BitsAt(tree, x) # {}
          PROVE  x \in e.start .. call.end
      <4>1. x \in Int /\ k <= x /\ x <= call.end /\ x \in k .. e.end
        BY <3>0, <3>2
      <4>2. x \in e.start .. e.end
        BY <2>2, <3>2, <4>1, Zenon
      <4> QED
        BY <3>0, <4>1, <4>2
    <3> QED
      BY <3>0, <3>1, <3>2, Zenon
  <2>9. ClearTo(b, T(e), F(e), call.end)
    BY <1>0, <2>4, <2>6, <2>7, <2>8, Zenon DEF ClearTo
  <2> QED
    BY <1>0, <1>2, <2>1, <2>9, ClearVia, Zenon
<1> QED
  BY <1>3, <1>4, <1>5, <1>6, Zenon

\* The extents that a call on a locked range meets are that range.
LEMMA LockFacts ==
    ASSUME ExtentAssumption, NEW b, UsedWith(b), UseInv(b), call # NoCall, LockCall
    PROVE  /\ WellFormed(tree) /\ Good(b, tree)
           /\ \A e \in tree : /\ e \in States /\ e.start <= e.end
                              /\ e.start \in Offsets /\ e.end \in Offsets
                              /\ e.start \in Int /\ e.end \in Int
           /\ \A e \in tree : Meets(e, call) => Same(e, call) /\ Locked(e)
           /\ \A e \in Found : /\ e \in tree /\ call.start <= e.end
                               /\ \A f \in tree : f.end >= call.start => e.start <= f.start
           /\ \A g, h \in tree : g # h => g.end < h.start \/ h.end < g.start
<1>0. /\ call.start \in Int /\ call.end \in Int /\ call.start <= call.end
      /\ \A g \in LockCalls : g.start \in Int /\ g.end \in Int /\ g.start <= g.end
  BY CallFacts, Zenon DEF UseInv
<1>1. Good(b, tree) /\ WellFormed(tree)
  BY Zenon DEF UseInv, Good
<1>2. \A e \in tree : /\ e \in States /\ e.start <= e.end
                      /\ e.start \in Offsets /\ e.end \in Offsets
                      /\ e.start \in Int /\ e.end \in Int
  BY <1>1 DEF WellFormed, States, Offsets
<1>3. ASSUME NEW e \in tree, Meets(e, call) PROVE Same(e, call) /\ Locked(e)
  <2>1. PICK g \in LockCalls : Same(call, g)
    BY Zenon DEF LockCall
  <2>2. Meets(e, g)
    BY <1>3, <2>1, Zenon DEF Meets, Same
  <2>3. Locked(e)
    BY <1>1, <2>2, Zenon DEF Good, Plain
  <2>4. PICK h \in LockCalls : Same(e, h)
    BY <2>3, Zenon DEF Locked
  <2>5. Meets(h, g)
    BY <2>2, <2>4, Zenon DEF Meets, Same
  <2>6. Same(h, g)
    BY <2>5, Zenon DEF UsedWith
  <2> QED
    BY <2>1, <2>3, <2>4, <2>6, Zenon DEF Same
<1>4. \A e \in Found : /\ e \in tree /\ call.start <= e.end
                       /\ \A f \in tree : f.end >= call.start => e.start <= f.start
  BY <1>0, <1>2, Zenon DEF Found, search_cache_extent
<1>5. \A g, h \in tree : g # h => g.end < h.start \/ h.end < g.start
  BY <1>1, Zenon DEF WellFormed, Apart
<1> QED
  BY <1>1, <1>2, <1>3, <1>4, <1>5, Zenon

\* What does not meet the range of the call has no offset of it.
LEMMA OutsideCall ==
    ASSUME ExtentAssumption, NEW b, UsedWith(b), UseInv(b), call # NoCall, LockCall,
           NEW e \in tree, ~Meets(e, call), NEW x, x \in InCall(call)
    PROVE  x \notin e.start .. e.end
<1>1. e.start \in Int /\ e.end \in Int
  BY LockFacts, Zenon
<1>2. call.start \in Int /\ call.end \in Int
  BY CallFacts, Zenon DEF UseInv
<1> QED
  BY <1>1, <1>2 DEF Meets, InCall

\* An extent with the range of the call is the only one that meets it.
LEMMA OnlyMeets ==
    ASSUME ExtentAssumption, NEW b, UsedWith(b), UseInv(b), call # NoCall, LockCall,
           NEW e \in tree, e.start = call.start, e.end = call.end
    PROVE  \A g \in tree : Meets(g, call) <=> g = e
<1>1. call.start \in Int /\ call.end \in Int /\ call.start <= call.end
  BY CallFacts, Zenon DEF UseInv
<1>2. Meets(e, call)
  BY <1>1, Zenon DEF Meets
<1>3. ASSUME NEW g \in tree, Meets(g, call), g # e PROVE FALSE
  <2>1. g.start = call.start /\ g.end = call.end
    BY <1>3, LockFacts, Zenon DEF Same
  <2>2. g.end < e.start \/ e.end < g.start
    BY <1>3, LockFacts, Zenon
  <2> QED
    BY <1>1, <2>1, <2>2
<1> QED
  BY <1>2, <1>3, Zenon

\* A round on a locked range leaves the extents N there, at most one, and is
\* the last of its call.
LockTo(N) ==
    /\ call' = NoCall /\ UNCHANGED <<want, saved>>
    /\ tree' = {e \in tree : ~Meets(e, call)} \cup N
    /\ \A n \in N : Same(n, call) /\ n.bits \cap IoBits # {}
    /\ \A x \in Offsets : x \in InCall(call) => BitsAt(tree', x) = Apply(BitsAt(tree, x))
    /\ \A e \in tree : Meets(e, call)
          => want[e.start] = {} \/ \E n \in N : n.xprivate = e.xprivate

\* Such a round does what its call asks.
LEMMA LockVia ==
    ASSUME ExtentAssumption, NEW b, UsedWith(b), UseInv(b), Inv', call # NoCall, LockCall,
           NEW N, LockTo(N)
    PROVE  UseInv(b)'
<1>0. /\ call.start \in Int /\ call.end \in Int /\ call.start <= call.end
      /\ call' = NoCall /\ want' = want /\ saved' = saved
      /\ tree' = {e \in tree : ~Meets(e, call)} \cup N
      /\ \A n \in N : n.start = call.start /\ n.end = call.end /\ n.bits \cap IoBits # {}
  BY CallFacts, Zenon DEF UseInv, LockTo, Same
<1>1. WellFormed(tree')
  BY InvWellFormed, Zenon DEF Inv, TypeOK, WellFormed, Disjoint, Apart
<1>2. \A n \in N : Locked(n)
  BY <1>0, Zenon DEF LockCall, Locked, Same
<1>3. Good(b, tree')
  BY <1>0, <1>1, <1>2, LockFacts, Zenon DEF Good
<1>4. Joined(tree', Loop')
  <2>1. \A h \in tree : h.start = call.start => Meets(h, call)
    BY <1>0, LockFacts, Zenon DEF Meets
  <2>2. \A g, h \in tree : g.end + 1 = h.start /\ g.bits = h.bits /\ h.start # call.start
           => g.bits \cap IoBits # {}
    BY Zenon DEF UseInv, Joined, Loop
  <2>3. ASSUME NEW g \in tree', NEW h \in tree', g.end + 1 = h.start, g.bits = h.bits
        PROVE  g.bits \cap IoBits # {}
    <3>1. CASE g \in N \/ h \in N
      BY <1>0, <2>3, <3>1, Zenon
    <3>2. CASE g \notin N /\ h \notin N
      BY <1>0, <2>1, <2>2, <2>3, <3>2, Zenon
    <3> QED
      BY <3>1, <3>2, Zenon
  <2> QED
    BY <2>3, Zenon DEF Joined
<1>5. Exact'
  <2> SUFFICES ASSUME NEW x \in Offsets PROVE want[x] = BitsAt(tree', x)
    BY <1>0, Zenon DEF Exact
  <2>1. CASE x \in InCall(call)
    BY <2>1, Zenon DEF LockTo, UseInv, Exact
  <2>2. CASE x \notin InCall(call)
    <3>0. x \in Int /\ ~(call.start <= x /\ x <= call.end)
      BY <1>0, <2>2 DEF Offsets, InCall
    <3>1. \A e \in tree' : x \in e.start .. e.end => e \in tree
      BY <1>0, <2>2, Zenon DEF InCall
    <3>2. \A e \in tree : x \in e.start .. e.end => e \in tree'
      BY <1>0, <2>2, LockFacts, Zenon DEF Same, InCall
    <3>3. BitsAt(tree', x) = BitsAt(tree, x)
      BY <1>1, <3>1, <3>2, LockFacts, SameBits, Zenon
    <3> QED
      BY <2>2, <3>3, Zenon DEF UseInv, Exact
  <2> QED
    BY <2>1, <2>2, Zenon
<1>6. Pointers'
  <2> SUFFICES ASSUME NEW s \in Offsets, saved[s] # NoPrivate
               PROVE  /\ want[s] # {}
                      /\ \E e \in tree' : e.start = s /\ Locked(e) /\ e.xprivate = saved[s]
    BY <1>0, Zenon DEF Pointers, Locked
  <2>1. want[s] # {}
    BY Zenon DEF UseInv, Pointers
  <2>2. PICK e \in tree : e.start = s /\ Locked(e) /\ e.xprivate = saved[s]
    BY Zenon DEF UseInv, Pointers
  <2>3. CASE Meets(e, call)
    <3>1. PICK n \in N : n.xprivate = e.xprivate
      BY <2>1, <2>2, <2>3, Zenon DEF LockTo
    <3>2. n.start = s /\ n \in tree'
      BY <1>0, <2>2, <2>3, LockFacts, Zenon DEF Same
    <3> QED
      BY <1>2, <2>1, <2>2, <3>1, <3>2, Zenon
  <2> QED
    BY <1>0, <2>1, <2>2, <2>3, Zenon
<1> QED
  BY <1>0, <1>3, <1>4, <1>5, <1>6, Zenon DEF UseInv

\* The rounds of set_extent_bits on a locked range.
LEMMA LockedSet ==
    ASSUME ExtentAssumption, NEW b, UsedWith(b), UseInv(b), Inv', call # NoCall, LockCall,
           SetRest \/ SetWhole \/ SetSplitHead \/ SetHole \/ SetSplitTail
    PROVE  \E N : LockTo(N)
<1>0. /\ call.kind = "set" /\ want' = want /\ saved' = saved /\ call.bits \subseteq Bits
      /\ call.start \in Int /\ call.end \in Int /\ call.start <= call.end
      /\ call.start \in Offsets /\ call.end \in Offsets
      /\ WellFormed(tree')
  <2>1. WellFormed(tree')
    BY Zenon DEF Inv, TypeOK, WellFormed, Disjoint, Apart
  <2> QED
    BY <2>1, CallFacts, Zenon DEF UseInv, SetRest, SetWhole, SetSplitHead, SetHole, SetSplitTail
<1>1. ASSUME NEW e \in Found, e.start <= call.end
      PROVE  e \in tree /\ e.start = call.start /\ e.end = call.end /\ Locked(e)
  <2>1. e \in tree /\ Meets(e, call)
    BY <1>1, LockFacts, Zenon DEF Meets
  <2> QED
    BY <2>1, LockFacts, Zenon DEF Same
<1>2. ASSUME NEW n, \A e \in tree : ~Meets(e, call), call' = NoCall,
             n = [start |-> call.start, end |-> call.end, bits |-> call.bits,
                  xprivate |-> NoPrivate],
             tree' = merge_state(tree \cup {n}, n)
      PROVE  \E N : LockTo(N)
  <2>1. n.start = call.start /\ n.end = call.end /\ n.bits = call.bits
    BY <1>2, Zenon
  <2>2. call.bits \cap IoBits # {}
    <3>1. \A e \in tree : ~Same(e, call)
      BY <1>0, <1>2, LockFacts, Zenon DEF Same, Meets
    <3> QED
      BY <1>0, <3>1, Zenon DEF LockCall
  <2>3. tree' = tree \cup {n}
    BY <1>2, <2>1, <2>2, Zenon DEF merge_state
  <2>4. \A x \in Offsets : x \in InCall(call) => BitsAt(tree', x) = Apply(BitsAt(tree, x))
    <3> SUFFICES ASSUME NEW x \in Offsets, x \in InCall(call)
                 PROVE  BitsAt(tree', x) = Apply(BitsAt(tree, x))
      BY Zenon
    <3>1. x \in Int /\ call.start <= x /\ x <= call.end
      BY <1>0 DEF Offsets, InCall
    <3>2. \A e \in tree : x \notin e.start .. e.end
      BY <1>2, OutsideCall, Zenon
    <3>3. BitsAt(tree, x) = {}
      BY <3>2, LockFacts, BitsOf, Zenon
    <3>4. BitsAt(tree', x) = call.bits
      BY <1>0, <2>1, <2>3, <3>1, BitsOf
    <3> QED
      BY <1>0, <3>3, <3>4, Zenon DEF Apply
  <2>5. tree' = {e \in tree : ~Meets(e, call)} \cup {n}
    BY <1>2, <2>3, Zenon
  <2>6. \A m \in {n} : Same(m, call) /\ m.bits \cap IoBits # {}
    BY <2>1, <2>2, Zenon DEF Same
  <2> HIDE DEF Apply
  <2>7. LockTo({n})
    BY <1>0, <1>2, <2>4, <2>5, <2>6, Zenon DEF LockTo
  <2> QED
    BY <2>7, Zenon
<1>3. CASE SetRest
  <2>1. \A e \in tree : ~Meets(e, call)
    <3> SUFFICES ASSUME NEW e \in tree, Meets(e, call) PROVE FALSE
      BY Zenon
    <3>1. e.end < call.start
      BY <1>3, Zenon DEF SetRest
    <3>2. call.start <= e.end /\ e.end \in Int /\ call.start \in Int
      BY <1>0, LockFacts, Zenon DEF Meets
    <3> QED
      BY <3>1, <3>2
  <2> QED
    BY <1>2, <1>3, <2>1, Zenon DEF SetRest
<1>4. CASE SetHole
  <2>1. PICK e \in Found :
         /\ e.start > call.start
         /\ LET last == IF call.end < e.start THEN call.end ELSE e.start - 1
                n == [start |-> call.start, end |-> last, bits |-> call.bits,
                      xprivate |-> NoPrivate]
            IN tree' = merge_state(tree \cup {n}, n) /\ GoOnAfter(last)
    BY <1>4, Zenon DEF SetHole
  <2>2. e \in tree /\ e.start \in Int /\ call.end < e.start
    <3>1. e \in tree /\ e.start \in Int
      BY LockFacts, Zenon
    <3>2. e.start > call.start /\ (e.start <= call.end => e.start = call.start)
      BY <1>1, <2>1, Zenon
    <3>3. call.start \in Int /\ call.end \in Int
      BY <1>0, Zenon
    <3> QED
      BY <3>1, <3>2, <3>3
  <2>3. call' = NoCall
    BY <1>0, <2>1, <2>2 DEF GoOnAfter
  <2>4. \A f \in tree : ~Meets(f, call)
    <3> SUFFICES ASSUME NEW f \in tree, Meets(f, call) PROVE FALSE
      BY Zenon
    <3>1. f.start \in Int /\ f.end \in Int /\ (f.end >= call.start => e.start <= f.start)
      BY LockFacts, Zenon
    <3>2. f.start <= call.end /\ call.start <= f.end
      BY Zenon DEF Meets
    <3>3. call.start \in Int /\ call.end \in Int
      BY <1>0, Zenon
    <3> QED
      BY <2>2, <3>1, <3>2, <3>3
  <2> QED
    BY <1>2, <2>1, <2>2, <2>3, <2>4, Zenon
<1>5. CASE SetWhole
  <2>1. PICK e \in Found :
         /\ e.start = call.start /\ e.end <= call.end
         /\ tree' = merge_state(set_bits(tree, e, call.bits), with_bits(e, call.bits))
         /\ GoOnAfter(e.end)
    BY <1>5, Zenon DEF SetWhole
  <2> DEFINE f == with_bits(e, call.bits)
  <2>2. /\ e \in tree /\ e.start = call.start /\ e.end = call.end /\ Locked(e) /\ e \in States
    BY <1>0, <1>1, <2>1, LockFacts, Zenon
  <2>3. /\ f.start = call.start /\ f.end = call.end /\ f.bits = e.bits \cup call.bits
        /\ f.xprivate = e.xprivate
    BY <2>2, Zenon DEF with_bits, States
  <2>4. f.bits \cap IoBits # {}
    BY <2>2, <2>3, Zenon DEF Locked
  <2>5. tree' = (tree \ {e}) \cup {f}
    BY <2>1, <2>4, Zenon DEF merge_state, set_bits
  <2> HIDE DEF f
  <2>6. \A g \in tree : Meets(g, call) <=> g = e
    BY <2>2, OnlyMeets, Zenon
  <2>7. \A x \in Offsets : x \in InCall(call) => BitsAt(tree', x) = Apply(BitsAt(tree, x))
    <3> SUFFICES ASSUME NEW x \in Offsets, x \in InCall(call)
                 PROVE  BitsAt(tree', x) = Apply(BitsAt(tree, x))
      BY Zenon
    <3>1. BitsAt(tree, x) = e.bits
      <4>1. e \in tree /\ e.start = call.start /\ e.end = call.end /\ WellFormed(tree)
        BY <2>2, LockFacts, Zenon
      <4>2. x \in e.start .. e.end
        BY <4>1 DEF InCall
      <4> QED
        BY <4>1, <4>2, BitsOf, Zenon
    <3>2. BitsAt(tree', x) = f.bits
      BY <1>0, <2>3, <2>5, BitsOf DEF InCall
    <3> QED
      BY <1>0, <2>3, <3>1, <3>2, Zenon DEF Apply
  <2>8. tree' = {g \in tree : ~Meets(g, call)} \cup {f}
    BY <2>5, <2>6, Zenon
  <2>9. \A m \in {f} : Same(m, call) /\ m.bits \cap IoBits # {}
    BY <2>3, <2>4, Zenon DEF Same
  <2>10. call' = NoCall
    BY <1>0, <2>1, <2>2 DEF GoOnAfter
  <2>11. LockTo({f})
    BY <1>0, <2>3, <2>6, <2>7, <2>8, <2>9, <2>10, Zenon DEF LockTo
  <2> QED
    BY <2>11, Zenon
<1>6. CASE SetSplitHead
  <2>1. PICK e \in Found : e.start < call.start
    BY <1>6, Zenon DEF SetSplitHead
  <2>2. e.start \in Int /\ (e.start <= call.end => e.start = call.start)
    BY <1>1, LockFacts, Zenon
  <2>3. call.start \in Int /\ call.end \in Int /\ call.start <= call.end
    BY <1>0, Zenon
  <2> QED
    BY <2>1, <2>2, <2>3
<1>7. CASE SetSplitTail
  <2>1. PICK e \in Found : e.start = call.start /\ e.end > call.end
    BY <1>7, Zenon DEF SetSplitTail
  <2>2. e.end \in Int /\ (e.start <= call.end => e.end = call.end)
    BY <1>1, LockFacts, Zenon
  <2>3. call.start \in Int /\ call.end \in Int /\ call.start <= call.end
    BY <1>0, Zenon
  <2> QED
    BY <2>1, <2>2, <2>3
<1> QED
  BY <1>3, <1>4, <1>5, <1>6, <1>7, Zenon

\* The rounds of clear_extent_bits on a locked range.
LEMMA LockedClear ==
    ASSUME ExtentAssumption, NEW b, UsedWith(b), UseInv(b), Inv', call # NoCall, LockCall,
           ClearNothing \/ ClearSplitHead \/ ClearSplitTail \/ ClearWhole
    PROVE  \E N : LockTo(N)
<1>0. /\ call.kind = "clear" /\ want' = want /\ saved' = saved /\ call.bits \subseteq Bits
      /\ call.start \in Int /\ call.end \in Int /\ call.start <= call.end
      /\ call.start \in Offsets /\ call.end \in Offsets
      /\ WellFormed(tree')
  <2>1. WellFormed(tree')
    BY Zenon DEF Inv, TypeOK, WellFormed, Disjoint, Apart
  <2> QED
    BY <2>1, CallFacts, Zenon DEF UseInv, ClearNothing, ClearSplitHead, ClearSplitTail, ClearWhole
<1>1. ASSUME NEW e \in Found, e.start <= call.end
      PROVE  e \in tree /\ e.start = call.start /\ e.end = call.end /\ Locked(e)
  <2>1. e \in tree /\ Meets(e, call)
    BY <1>1, LockFacts, Zenon DEF Meets
  <2> QED
    BY <2>1, LockFacts, Zenon DEF Same
<1>2. CASE ClearNothing
  <2>1. \A e \in tree : ~Meets(e, call)
    <3> SUFFICES ASSUME NEW e \in tree, Meets(e, call) PROVE FALSE
      BY Zenon
    <3>1. e.end >= call.start /\ e.start <= call.end
      BY <1>0, LockFacts, Zenon DEF Meets
    <3>2. PICK f \in Found : f.start <= e.start
      BY <1>0, <3>1, LockFacts, SearchFinds, Zenon DEF Found
    <3> QED
      <4>1. f.start > call.end /\ f.start \in Int
        BY <1>2, LockFacts, Zenon DEF ClearNothing
      <4>2. e.start \in Int /\ call.end \in Int
        BY <1>0, LockFacts, Zenon
      <4> QED
        BY <3>1, <3>2, <4>1, <4>2
  <2>2. call' = NoCall /\ tree' = tree
    BY <1>2, Zenon DEF ClearNothing
  <2>3. tree' = {e \in tree : ~Meets(e, call)} \cup {}
    BY <2>1, <2>2, Zenon
  <2>4. \A x \in Offsets : x \in InCall(call) => BitsAt(tree', x) = Apply(BitsAt(tree, x))
    <3> SUFFICES ASSUME NEW x \in Offsets, x \in InCall(call)
                 PROVE  BitsAt(tree', x) = Apply(BitsAt(tree, x))
      BY Zenon
    <3>1. x \in Int /\ call.start <= x /\ x <= call.end
      BY <1>0 DEF Offsets, InCall
    <3>2. \A e \in tree : x \notin e.start .. e.end
      BY <2>1, OutsideCall, Zenon
    <3>3. BitsAt(tree, x) = {}
      BY <3>2, LockFacts, BitsOf, Zenon
    <3> QED
      BY <1>0, <2>2, <3>3, Zenon DEF Apply
  <2>5. LockTo({})
    BY <1>0, <2>1, <2>2, <2>3, <2>4, Zenon DEF LockTo
  <2> QED
    BY <2>5, Zenon
<1>3. CASE ClearWhole
  <2>1. PICK e \in Found :
         /\ call.start <= e.start /\ e.end <= call.end
         /\ tree' = clear_state_bit(tree, e, call.bits)
         /\ GoOnAfter(e.end)
    BY <1>3, Zenon DEF ClearWhole
  <2> DEFINE f == [e EXCEPT !.bits = @ \ call.bits]
  <2>2. e.start <= call.end
    <3>1. e.start \in Int /\ e.end \in Int /\ e.start <= e.end /\ e.end <= call.end
      BY <2>1, LockFacts, Zenon
    <3>2. call.end \in Int
      BY <1>0, Zenon
    <3> QED
      BY <3>1, <3>2
  <2>3. e \in tree /\ e.start = call.start /\ e.end = call.end /\ Locked(e) /\ e \in States
    BY <1>1, <2>2, LockFacts, Zenon
  <2>4. \A g \in tree : Meets(g, call) <=> g = e
    BY <2>3, OnlyMeets, Zenon
  <2>5. call' = NoCall
    BY <1>0, <2>1, <2>3 DEF GoOnAfter
  <2>6. \A x \in Offsets : x \in InCall(call) => BitsAt(tree, x) = e.bits
    <3> SUFFICES ASSUME NEW x \in Offsets, x \in InCall(call) PROVE BitsAt(tree, x) = e.bits
      BY Zenon
    <3>1. e \in tree /\ e.start = call.start /\ e.end = call.end /\ WellFormed(tree)
      BY <2>3, LockFacts, Zenon
    <3>2. x \in e.start .. e.end
      BY <3>1 DEF InCall
    <3> QED
      BY <3>1, <3>2, BitsOf, Zenon
  <2>7. CASE call.bits = Bits
    <3>1. e.bits \ call.bits = {}
      BY <2>3, <2>7, Zenon DEF States
    <3>2. f.bits = {}
      BY <2>3, <3>1, Zenon DEF States
    <3>3. tree' = tree \ {e}
      BY <2>1, <3>2, Zenon DEF clear_state_bit
    <3>4. tree' = {g \in tree : ~Meets(g, call)} \cup {}
      BY <2>4, <3>3, Zenon
    <3>5. \A x \in Offsets : x \in InCall(call)
             => BitsAt(tree', x) = Apply(BitsAt(tree, x)) /\ Apply(BitsAt(tree, x)) = {}
      <4> SUFFICES ASSUME NEW x \in Offsets, x \in InCall(call)
                   PROVE  BitsAt(tree', x) = {} /\ Apply(BitsAt(tree, x)) = {}
        BY Zenon
      <4>1. \A g \in tree' : x \notin g.start .. g.end
        BY <2>4, <3>3, OutsideCall, Zenon
      <4>2. BitsAt(tree', x) = {}
        BY <1>0, <4>1, BitsOf, Zenon
      <4>3. Apply(BitsAt(tree, x)) = {}
        BY <1>0, <2>6, <3>1, Zenon DEF Apply
      <4> QED
        BY <4>2, <4>3, Zenon
    <3>6. want[e.start] = {}
      <4>1. e.start \in Offsets /\ e.start \in InCall(call)
        BY <1>0, <2>3 DEF InCall
      <4>2. want[e.start] = Apply(BitsAt(tree, e.start))
        BY <4>1, Zenon DEF UseInv, Exact
      <4> QED
        BY <3>5, <4>1, <4>2, Zenon
    <3>7. LockTo({})
      BY <1>0, <2>4, <2>5, <3>4, <3>5, <3>6, Zenon DEF LockTo
    <3> QED
      BY <3>7, Zenon
  <2>8. CASE call.bits \cap IoBits = {}
    <3>1. /\ f.start = call.start /\ f.end = call.end /\ f.bits = e.bits \ call.bits
          /\ f.xprivate = e.xprivate
      BY <2>3, Zenon DEF States
    <3>2. f.bits \cap IoBits # {}
      BY <2>3, <2>8, <3>1, Zenon DEF Locked
    <3>3. tree' = (tree \ {e}) \cup {f}
      BY <2>1, <3>2, Zenon DEF merge_state, clear_state_bit
    <3> HIDE DEF f
    <3>4. tree' = {g \in tree : ~Meets(g, call)} \cup {f}
      BY <2>4, <3>3, Zenon
    <3>5. \A x \in Offsets : x \in InCall(call) => BitsAt(tree', x) = Apply(BitsAt(tree, x))
      <4> SUFFICES ASSUME NEW x \in Offsets, x \in InCall(call)
                   PROVE  BitsAt(tree', x) = Apply(BitsAt(tree, x))
        BY Zenon
      <4>1. BitsAt(tree', x) = f.bits
        BY <1>0, <3>1, <3>3, BitsOf DEF InCall
      <4> QED
        BY <1>0, <2>6, <3>1, <4>1, Zenon DEF Apply
    <3>6. \A m \in {f} : Same(m, call) /\ m.bits \cap IoBits # {}
      BY <3>1, <3>2, Zenon DEF Same
    <3>7. LockTo({f})
      BY <1>0, <2>4, <2>5, <3>1, <3>4, <3>5, <3>6, Zenon DEF LockTo
    <3> QED
      BY <3>7, Zenon
  <2> QED
    BY <1>0, <2>7, <2>8, Zenon DEF LockCall
<1>4. CASE ClearSplitHead
  <2>1. PICK e \in Found : e.start < call.start
    BY <1>4, Zenon DEF ClearSplitHead
  <2>2. e.start \in Int /\ (e.start <= call.end => e.start = call.start)
    BY <1>1, LockFacts, Zenon
  <2>3. call.start \in Int /\ call.end \in Int /\ call.start <= call.end
    BY <1>0, Zenon
  <2> QED
    BY <2>1, <2>2, <2>3
<1>5. CASE ClearSplitTail
  <2>1. PICK e \in Found : e.start <= call.end /\ e.end > call.end
    BY <1>5, Zenon DEF ClearSplitTail
  <2>2. e.end \in Int /\ (e.start <= call.end => e.end = call.end)
    BY <1>1, LockFacts, Zenon
  <2>3. call.start \in Int /\ call.end \in Int /\ call.start <= call.end
    BY <1>0, Zenon
  <2> QED
    BY <2>1, <2>2, <2>3
<1> QED
  BY <1>2, <1>3, <1>4, <1>5, Zenon

\* Every round keeps the invariant.
LEMMA RoundUse ==
    ASSUME ExtentAssumption, NEW b, UsedWith(b), UseInv(b), Inv', Round
    PROVE  UseInv(b)'
<1>1. call # NoCall
  <2>1. call.kind = "set" \/ call.kind = "clear"
    BY Zenon DEF Round, SetRest, SetWhole, SetSplitHead, SetHole, SetSplitTail,
       ClearNothing, ClearSplitHead, ClearSplitTail, ClearWhole
  <2> QED
    BY <2>1 DEF NoCall
<1>2. CASE PlainCall(b)
  BY <1>1, <1>2, PlainSet, PlainClear, Zenon DEF Round
<1>3. CASE LockCall
  <2>1. PICK N : LockTo(N)
    BY <1>1, <1>3, LockedSet, LockedClear, Zenon DEF Round
  <2> QED
    BY <1>1, <1>3, <2>1, LockVia, Zenon
<1> QED
  BY <1>1, <1>2, <1>3, Zenon DEF UseInv

\* Beginning a call as the allocator makes it keeps the invariant.
LEMMA BeginUse ==
    ASSUME ExtentAssumption, NEW b, UseInv(b), Inv', NEW c \in Calls, c.start <= c.end,
           BeginSet(c) \/ BeginClear(c), PlainCall(b)' \/ LockCall'
    PROVE  UseInv(b)'
<1>0. /\ call = NoCall /\ tree' = tree /\ call'.kind \in {"set", "clear"}
      /\ call'.start = c.start /\ call'.end = c.end /\ call'.bits = c.bits
  BY DEF BeginSet, BeginClear, Enter
<1>1. call' # NoCall
  BY <1>0 DEF NoCall
<1>2. \A x \in Offsets : want[x] = BitsAt(tree, x)
  BY <1>0, Zenon DEF UseInv, Exact
<1>3. Exact'
  <2> SUFFICES ASSUME NEW x \in Offsets
               PROVE  want'[x] = IF x \in InCall(call') THEN Apply(BitsAt(tree, x))'
                                 ELSE BitsAt(tree', x)
    BY <1>1, Zenon DEF Exact
  <2>1. InCall(call') = InCall(c)
    BY <1>0, Zenon DEF InCall
  <2>2. CASE BeginSet(c)
    <3>1. call'.kind = "set" /\ want'[x] = IF x \in InCall(c) THEN want[x] \cup c.bits ELSE want[x]
      BY <2>2, Zenon DEF BeginSet, Enter
    <3> QED
      BY <1>0, <1>2, <2>1, <3>1, Zenon DEF Apply
  <2>3. CASE BeginClear(c)
    <3>1. call'.kind = "clear" /\ want'[x] = IF x \in InCall(c) THEN want[x] \ c.bits ELSE want[x]
      BY <2>3, Zenon DEF BeginClear, Enter
    <3> QED
      BY <1>0, <1>2, <2>1, <3>1, Zenon DEF Apply
  <2> QED
    BY <2>2, <2>3, Zenon
<1>4. Pointers'
  <2> SUFFICES ASSUME NEW s \in Offsets, saved'[s] # NoPrivate
               PROVE  /\ want'[s] # {}
                      /\ \E e \in tree : e.start = s /\ Locked(e) /\ e.xprivate = saved'[s]
    BY <1>0, Zenon DEF Pointers, Locked
  <2>1. saved'[s] = saved[s] /\ (want[s] # {} => want'[s] # {})
    <3>1. CASE BeginSet(c)
      BY <3>1, Zenon DEF BeginSet
    <3>2. CASE BeginClear(c)
      BY <3>2, Zenon DEF BeginClear
    <3> QED
      BY <3>1, <3>2, Zenon
  <2> QED
    BY <2>1, Zenon DEF UseInv, Pointers
<1>5. Joined(tree', Loop')
  <2>1. \A f \in tree : f.start # NoOffset
    <3>1. tree \subseteq States
      BY Zenon DEF UseInv, Inv, TypeOK
    <3>2. NoOffset \notin Offsets
      BY DEF Offsets, NoOffset, ExtentAssumption
    <3> QED
      BY <3>1, <3>2, Zenon DEF States
  <2>2. Joined(tree, NoOffset)
    BY <1>0, Zenon DEF UseInv, Loop
  <2> QED
    BY <1>0, <2>1, <2>2, Zenon DEF Joined
<1>6. Good(b, tree')
  BY <1>0, Zenon DEF UseInv
<1> QED
  BY <1>3, <1>4, <1>5, <1>6, Zenon DEF UseInv

\* The calls of the allocator.
LEMMA CallsUse ==
    ASSUME ExtentAssumption, NEW b, UsedWith(b), UseInv(b), Inv',
           \/ \E c \in SetCalls : BeginSet(c)
           \/ \E c \in ClearCalls : BeginClear(c)
    PROVE  UseInv(b)'
<1>1. ASSUME NEW c \in SetCalls, BeginSet(c) PROVE UseInv(b)'
  <2>1. /\ c \in Calls /\ c.start <= c.end /\ call'.kind = "set" /\ call'.start = c.start
        /\ call'.end = c.end /\ call'.bits = c.bits
    BY <1>1, Zenon DEF BeginSet, Enter, ExtentAssumption
  <2>2. CASE c \in LockCalls
    <3>1. LockCall'
      BY <2>1, <2>2, Zenon DEF LockCall, Same, LockCalls
    <3> QED
      BY <1>1, <2>1, <3>1, BeginUse, Zenon
  <2>3. CASE c \notin LockCalls
    <3>1. c.bits = {b} /\ b \notin IoBits /\ \A g \in LockCalls : ~Meets(c, g)
      <4>1. c \in SetCalls \ LockCalls /\ c.bits \cap IoBits = {}
        BY <1>1, <2>3, Zenon DEF LockCalls
      <4>2. c.bits = {b} /\ \A g \in LockCalls : ~Meets(c, g)
        BY <4>1, Zenon DEF UsedWith
      <4> QED
        BY <4>1, <4>2, Zenon
    <3>2. PlainCall(b)'
      BY <2>1, <3>1, Zenon DEF PlainCall, Meets
    <3> QED
      BY <1>1, <2>1, <3>2, BeginUse, Zenon
  <2> QED
    BY <2>2, <2>3, Zenon
<1>2. ASSUME NEW c \in ClearCalls, BeginClear(c) PROVE UseInv(b)'
  <2>1. /\ c \in Calls /\ c.start <= c.end /\ call'.kind = "clear" /\ call'.start = c.start
        /\ call'.end = c.end /\ call'.bits = c.bits
    BY <1>2, Zenon DEF BeginClear, Enter, ExtentAssumption
  <2>2. CASE b \in c.bits /\ \A g \in LockCalls : ~Meets(c, g)
    <3>1. PlainCall(b)'
      BY <2>1, <2>2, Zenon DEF PlainCall, Meets
    <3> QED
      BY <1>2, <2>1, <3>1, BeginUse, Zenon
  <2>3. CASE /\ \E g \in LockCalls : Same(c, g)
             /\ c.bits = Bits \/ c.bits \cap IoBits = {}
    <3>1. LockCall'
      BY <2>1, <2>3, Zenon DEF LockCall, Same
    <3> QED
      BY <1>2, <2>1, <3>1, BeginUse, Zenon
  <2> QED
    BY <2>2, <2>3, Zenon DEF UsedWith
<1> QED
  BY <1>1, <1>2, Zenon

\* Marking and unmarking a block group.
LEMMA MarksUse ==
    ASSUME ExtentAssumption, NEW b, UsedWith(b), UseInv(b), Inv', BeginMark \/ BeginUnmark
    PROVE  UseInv(b)'
<1>1. \A e \in tree : /\ Plain(b, e) \/ Locked(e)
                      /\ Group(e, MarkBits) \in Calls
                      /\ Group(e, MarkBits).start <= Group(e, MarkBits).end
  BY Zenon DEF UseInv, Good, WellFormed, Group, States, Calls, ExtentAssumption
<1>2. ASSUME NEW e \in tree, e.bits \cap IoBits # {}, BeginSet(Group(e, MarkBits))
      PROVE  UseInv(b)'
  <2>1. /\ call'.kind = "set" /\ call'.start = e.start /\ call'.end = e.end /\ tree' = tree
    BY <1>2, Zenon DEF BeginSet, Enter, Group
  <2>2. Locked(e)
    BY <1>1, <1>2, Zenon DEF Plain
  <2>3. LockCall'
    BY <2>1, <2>2, Zenon DEF LockCall, Locked, Same
  <2> QED
    BY <1>1, <1>2, <2>3, BeginUse, Zenon
<1>3. ASSUME NEW e \in tree, e.bits \cap MarkBits # {}, BeginClear(Group(e, MarkBits))
      PROVE  UseInv(b)'
  <2>1. /\ call'.kind = "clear" /\ call'.start = e.start /\ call'.end = e.end
        /\ call'.bits = MarkBits
    BY <1>3, Zenon DEF BeginClear, Enter, Group
  <2>2. CASE Plain(b, e)
    <3>1. b \in MarkBits /\ \A g \in LockCalls : ~Meets(e, g)
      BY <1>3, <2>2, Zenon DEF Plain
    <3>2. PlainCall(b)'
      BY <2>1, <3>1, Zenon DEF PlainCall, Meets
    <3> QED
      BY <1>1, <1>3, <3>2, BeginUse, Zenon
  <2>3. CASE Locked(e)
    <3>1. LockCall'
      BY <2>1, <2>3, Zenon DEF LockCall, Locked, Same, UsedWith
    <3> QED
      BY <1>1, <1>3, <3>1, BeginUse, Zenon
  <2> QED
    BY <1>1, <2>2, <2>3, Zenon
<1> QED
  BY <1>2, <1>3, Zenon DEF BeginMark, BeginUnmark

\* set_state_private on a locked extent.
LEMMA PrivateUse ==
    ASSUME ExtentAssumption, NEW b, UseInv(b), Inv', NEW s \in Offsets, NEW p \in Privates,
           Queued(s), set_state_private(s, p)
    PROVE  UseInv(b)'
<1>0. /\ call = NoCall /\ call' = NoCall /\ want' = want /\ saved' = [saved EXCEPT ![s] = p]
      /\ WellFormed(tree) /\ WellFormed(tree') /\ s \in Int /\ p # NoPrivate
      /\ DOMAIN saved = Offsets
  BY DEF set_state_private, UseInv, Good, Inv, TypeOK, WellFormed, Disjoint, Apart, Offsets,
         ExtentAssumption
<1>1. PICK e \in StateAt(s) : tree' = (tree \ {e}) \cup {[e EXCEPT !.xprivate = p]}
  BY Zenon DEF set_state_private
<1>2. /\ e \in tree /\ e \in States /\ e.start = s /\ e.start <= e.end
      /\ e.start \in Int /\ e.end \in Int
  BY <1>0, <1>1 DEF StateAt, search_cache_extent, WellFormed, States, Offsets
<1>3. Locked(e)
  <2>1. PICK q \in tree : q.start = s /\ q.bits \cap IoBits # {}
    BY Zenon DEF Queued, StateAt, search_cache_extent
  <2>2. q = e
    BY <1>0, <1>2, <2>1 DEF WellFormed, Apart, States, Offsets
  <2> QED
    BY <1>2, <2>1, <2>2, Zenon DEF UseInv, Good, Plain
<1> DEFINE f == [e EXCEPT !.xprivate = p]
<1>4. f.start = e.start /\ f.end = e.end /\ f.bits = e.bits /\ f.xprivate = p
  BY <1>2, Zenon DEF States
<1>5. tree' = (tree \ {e}) \cup {f}
  BY <1>1, Zenon
<1> HIDE DEF f
<1>6. Locked(f)
  BY <1>3, <1>4, Zenon DEF Locked, Same
<1>7. Good(b, tree')
  BY <1>0, <1>5, <1>6, Zenon DEF UseInv, Good
<1>8. Joined(tree', Loop')
  <2>1. Joined(tree, NoOffset) /\ Loop' = NoOffset
    BY <1>0, Zenon DEF UseInv, Loop
  <2> QED
    BY <1>2, <1>4, <1>5, <2>1 DEF Joined
<1>9. \A x \in Offsets : BitsAt(tree', x) = BitsAt(tree, x)
  <2> TAKE x \in Offsets
  <2>1. \A g \in tree' : x \in g.start .. g.end
              => \E h \in tree : x \in h.start .. h.end /\ h.bits = g.bits
    BY <1>2, <1>4, <1>5, Zenon
  <2>2. \A g \in tree : x \in g.start .. g.end => \E h \in tree' : x \in h.start .. h.end
    BY <1>2, <1>4, <1>5, Zenon
  <2> QED
    BY <1>0, <2>1, <2>2, SameBits
<1>10. Exact'
  BY <1>0, <1>9, Zenon DEF UseInv, Exact
<1>11. Pointers'
  <2> SUFFICES ASSUME NEW t \in Offsets, saved'[t] # NoPrivate
               PROVE  /\ want[t] # {}
                      /\ \E g \in tree' : g.start = t /\ Locked(g) /\ g.xprivate = saved'[t]
    BY <1>0, Zenon DEF Pointers, Locked
  <2>1. CASE t = s
    <3>1. want[s] = e.bits
      BY <1>0, <1>2, BitsOf DEF UseInv, Exact
    <3> QED
      BY <1>0, <1>2, <1>3, <1>4, <1>5, <1>6, <2>1, <3>1, Zenon DEF Locked
  <2>2. CASE t # s
    <3>1. saved'[t] = saved[t]
      BY <1>0, <2>2, Zenon
    <3>2. PICK g \in tree : g.start = t /\ Locked(g) /\ g.xprivate = saved[t]
      BY <3>1, Zenon DEF UseInv, Pointers
    <3>3. g \in tree'
      BY <1>2, <1>5, <2>2, <3>2, Zenon
    <3> QED
      BY <3>1, <3>2, <3>3, Zenon DEF UseInv, Pointers
  <2> QED
    BY <2>1, <2>2, Zenon
<1> QED
  BY <1>0, <1>7, <1>8, <1>10, <1>11, Zenon DEF UseInv

\* An empty tree satisfies the invariant.
LEMMA InitUse == ASSUME ExtentAssumption, NEW b, Init PROVE UseInv(b)
<1>1. tree = {} /\ call = NoCall
  BY Zenon DEF Init
<1>2. Inv
  BY Zenon DEF Init, Inv, TypeOK, Disjoint
<1>3. Good(b, tree) /\ Joined(tree, Loop)
  BY <1>1, Zenon DEF Good, WellFormed, Joined
<1>4. Exact /\ Pointers
  BY <1>1, Zenon DEF Init, Exact, Pointers, BitsAt
<1> QED
  BY <1>1, <1>2, <1>3, <1>4, Zenon DEF UseInv

\* Every step keeps the invariant.
LEMMA NextUse ==
    ASSUME ExtentAssumption, NEW b, UsedWith(b), UseInv(b), [Next]_vars
    PROVE  UseInv(b)'
<1>1. Inv'
  BY NextOK, Zenon DEF UseInv
<1>2. CASE Round
  BY <1>1, <1>2, RoundUse, Zenon
<1>3. CASE BeginMark \/ BeginUnmark
  BY <1>1, <1>3, MarksUse, Zenon
<1>4. CASE (\E c \in SetCalls : BeginSet(c)) \/ (\E c \in ClearCalls : BeginClear(c))
  BY <1>1, <1>4, CallsUse, Zenon
<1>5. ASSUME NEW s \in Offsets, NEW p \in Privates, Queued(s), set_state_private(s, p)
      PROVE  UseInv(b)'
  BY <1>1, <1>5, PrivateUse, Zenon
<1>6. CASE UNCHANGED vars
  <2>1. tree' = tree /\ call' = call /\ want' = want /\ saved' = saved
    BY <1>6, Zenon DEF vars
  <2>2. Exact' /\ Pointers' /\ Joined(tree', Loop') /\ Good(b, tree')
    BY <2>1, Zenon DEF UseInv, Exact, Pointers, Loop, Apply, Locked
  <2>3. call' # NoCall => PlainCall(b)' \/ LockCall'
    BY <2>1, Zenon DEF UseInv, PlainCall, LockCall
  <2> QED
    BY <1>1, <2>2, <2>3, Zenon DEF UseInv
<1> QED
  BY <1>2, <1>3, <1>4, <1>5, <1>6, Zenon DEF Next

\* When a call returns, every offset has the bits that the calls so far asked
\* for: set_extent_bits and clear_extent_bits do what they are named for on
\* trees of one bit and on the queues and block groups.
THEOREM BitsExact == AsUsed => (Spec => []CallsExact)
<1>1. ASSUME NEW b \in Bits, UsedWith(b) PROVE Spec => []CallsExact
  <2>1. Init => UseInv(b)
    BY ExtentAssumption, InitUse, Zenon
  <2>2. UseInv(b) /\ [Next]_vars => UseInv(b)'
    BY <1>1, ExtentAssumption, NextUse, Zenon
  <2>3. UseInv(b) => CallsExact
    BY Zenon DEF UseInv, Exact, CallsExact
  <2> QED
    BY <2>1, <2>2, <2>3, PTL DEF Spec
<1> QED
  BY <1>1, Zenon DEF AsUsed

-----------------------------------------------------------------------------
(* Lookups *)

\* Between calls the tree is a map from offsets to bits.
Settled == /\ ExtentAssumption /\ WellFormed(tree)
           /\ \A x \in Offsets : want[x] = BitsAt(tree, x)

\* What a settled tree says of an offset.
LEMMA SettledFacts ==
    ASSUME Settled
    PROVE  /\ \A e \in tree : /\ e.start \in Nat /\ e.end \in Nat /\ e.end <= MaxOff
                              /\ e.start <= e.end
           /\ \A e \in tree : \A x \in e.start .. e.end : x \in Offsets /\ want[x] = e.bits
           /\ \A x \in Offsets : want[x] # {} => \E e \in tree : x \in e.start .. e.end
           /\ MaxOff \in Nat /\ Offsets = 0 .. MaxOff
<1>1. WellFormed(tree) /\ MaxOff \in Nat /\ \A x \in Offsets : want[x] = BitsAt(tree, x)
  BY Zenon DEF Settled, ExtentAssumption
<1>2. \A e \in tree : e.start \in Nat /\ e.end \in Nat /\ e.end <= MaxOff /\ e.start <= e.end
  BY <1>1 DEF WellFormed, States, Offsets
<1>3. ASSUME NEW e \in tree, NEW x \in e.start .. e.end
      PROVE  x \in Offsets /\ want[x] = e.bits
  <2>1. x \in Offsets
    BY <1>1, <1>2 DEF Offsets
  <2> QED
    BY <1>1, <2>1, BitsOf, Zenon
<1>4. \A x \in Offsets : want[x] # {} => \E e \in tree : x \in e.start .. e.end
  BY <1>1, BitsOf, Zenon
<1> QED
  BY <1>1, <1>2, <1>3, <1>4, Zenon DEF Offsets

Hits(s, B) == {x \in s .. MaxOff : want[x] \cap B # {}}

\* Every offset with one of the bits lies in an extent with one of the bits.
LEMMA HitExtent ==
    ASSUME Settled, NEW s \in Offsets, NEW B, NEW x \in Hits(s, B)
    PROVE  \E e \in FoundFrom(s, B) : x \in e.start .. e.end
<1>1. x \in Offsets /\ s \in Nat /\ x \in Nat /\ s <= x /\ want[x] \cap B # {}
  BY SettledFacts DEF Hits
<1>2. PICK e \in tree : x \in e.start .. e.end
  BY <1>1, SettledFacts, Zenon
<1>3. want[x] = e.bits /\ e.end \in Nat /\ e.end >= s
  BY <1>1, <1>2, SettledFacts
<1> QED
  BY <1>1, <1>2, <1>3, Zenon DEF FoundFrom

\* find_first_extent_bit answers as the map would.
LEMMA FirstBitExact ==
    ASSUME Settled, NEW s \in Offsets, NEW B
    PROVE  /\ find_first_extent_bit(s, B) = {} <=> Hits(s, B) = {}
           /\ \A e \in find_first_extent_bit(s, B) :
                 /\ \A x \in Hits(s, B) : e.start <= x
                 /\ \A x \in e.start .. e.end : want[x] \cap B # {}
<1>0. s \in Nat /\ s <= MaxOff
  BY SettledFacts
<1>1. ASSUME NEW e \in FoundFrom(s, B) PROVE Hits(s, B) # {} /\ find_first_extent_bit(s, B) # {}
  <2>1. e \in tree /\ e.end >= s /\ e.bits \cap B # {}
    BY Zenon DEF FoundFrom
  <2> DEFINE x == IF s <= e.start THEN e.start ELSE s
  <2>2. x \in e.start .. e.end /\ x \in s .. MaxOff
    BY <1>0, <2>1, SettledFacts
  <2> HIDE DEF x
  <2>3. x \in Hits(s, B)
    BY <2>1, <2>2, SettledFacts, Zenon DEF Hits
  <2> DEFINE S == {f.start : f \in FoundFrom(s, B)}
  <2>4. S \in SUBSET Nat /\ S # {}
    BY SettledFacts DEF FoundFrom
  <2>5. PICK m \in S : \A k \in S : m <= k
    BY <2>4, Least, Zenon
  <2>6. PICK f \in FoundFrom(s, B) : f.start = m
    BY Zenon
  <2>7. \A g \in FoundFrom(s, B) : f.start <= g.start
    BY <2>5, <2>6, Zenon
  <2>8. f \in find_first_extent_bit(s, B)
    BY <2>7, Zenon DEF find_first_extent_bit
  <2> QED
    BY <2>3, <2>8, Zenon
<1>2. Hits(s, B) # {} => FoundFrom(s, B) # {}
  BY HitExtent, Zenon
<1>3. find_first_extent_bit(s, B) \subseteq FoundFrom(s, B)
  BY Zenon DEF find_first_extent_bit
<1>4. ASSUME NEW e \in find_first_extent_bit(s, B)
      PROVE  /\ \A x \in Hits(s, B) : e.start <= x
             /\ \A x \in e.start .. e.end : want[x] \cap B # {}
  <2>1. e \in tree /\ e.bits \cap B # {}
    BY <1>3, Zenon DEF FoundFrom
  <2>2. ASSUME NEW x \in Hits(s, B) PROVE e.start <= x
    <3>1. PICK f \in FoundFrom(s, B) : x \in f.start .. f.end
      BY HitExtent, Zenon
    <3>2. e.start <= f.start /\ f \in tree
      BY Zenon DEF find_first_extent_bit, FoundFrom
    <3> QED
      BY <2>1, <3>1, <3>2, SettledFacts
  <2>3. \A x \in e.start .. e.end : want[x] \cap B # {}
    BY <2>1, SettledFacts, Zenon
  <2> QED
    BY <2>2, <2>3, Zenon
<1> QED
  BY <1>1, <1>2, <1>3, <1>4, Zenon

\* test_range_bit answers as the map would.
LEMMA RangeBitExact ==
    ASSUME Settled, NEW s \in Offsets, NEW t \in s .. MaxOff, NEW B
    PROVE  /\ test_range_bit(s, t, B, TRUE) <=> s .. t \subseteq Hits(s, B)
           /\ test_range_bit(s, t, B, FALSE) <=> (s .. t) \cap Hits(s, B) # {}
<1>0. /\ s \in Nat /\ t \in Nat /\ s <= t /\ t <= MaxOff
      /\ \A x \in s .. t : x \in Nat /\ x \in Offsets /\ x \in s .. MaxOff
  BY SettledFacts
<1>1. ASSUME NEW e \in Overlap(s, t)
      PROVE  /\ e \in tree /\ e.start \in Nat /\ e.end \in Nat
             /\ \E x \in s .. t : x \in e.start .. e.end
  <2>1. e \in tree /\ e.end >= s /\ e.start <= t
    BY Zenon DEF Overlap
  <2> DEFINE x == IF s <= e.start THEN e.start ELSE s
  <2>2. x \in e.start .. e.end /\ x \in s .. t
    BY <1>0, <2>1, SettledFacts
  <2> QED
    BY <2>1, <2>2, SettledFacts, Zenon
<1>2. ASSUME NEW x \in s .. t, NEW e \in tree, x \in e.start .. e.end
      PROVE  /\ e \in Overlap(s, t) /\ want[x] = e.bits
             /\ x \in Hits(s, B) <=> e.bits \cap B # {}
  <2>1. e \in Overlap(s, t)
    BY <1>0, <1>2, SettledFacts DEF Overlap
  <2>2. want[x] = e.bits
    BY <1>2, SettledFacts, Zenon
  <2> QED
    BY <1>0, <2>1, <2>2, Zenon DEF Hits
<1>3. ASSUME NEW x \in s .. t, x \in Hits(s, B)
      PROVE  \E e \in Overlap(s, t) : x \in e.start .. e.end /\ e.bits \cap B # {}
  <2>1. PICK e \in FoundFrom(s, B) : x \in e.start .. e.end
    BY <1>3, HitExtent, Zenon
  <2> QED
    BY <1>2, <2>1, Zenon DEF FoundFrom
<1>4. ASSUME s .. t \subseteq Hits(s, B) PROVE test_range_bit(s, t, B, TRUE)
  <2>1. \A e \in Overlap(s, t) : e.bits \cap B # {}
    BY <1>1, <1>2, <1>4, Zenon
  <2>2. \A x \in s .. t : \E e \in Overlap(s, t) : x \in e.start .. e.end
    BY <1>3, <1>4, Zenon
  <2>3. s \in s .. t
    BY <1>0
  <2> QED
    BY <2>1, <2>2, <2>3, Zenon DEF test_range_bit
<1>5. ASSUME test_range_bit(s, t, B, TRUE) PROVE s .. t \subseteq Hits(s, B)
  <2>1. /\ \A e \in Overlap(s, t) : e.bits \cap B # {}
        /\ \A x \in {s} \cup {y \in s .. t : \E e \in Overlap(s, t) : e.end = y - 1} :
              \E e \in Overlap(s, t) : x \in e.start .. e.end
    BY <1>5, Zenon DEF test_range_bit
  <2> DEFINE U == {x \in s .. t : \A e \in Overlap(s, t) : x \notin e.start .. e.end}
  <2>2. U = {}
    <3> SUFFICES ASSUME U # {} PROVE FALSE
      BY Zenon
    <3>1. U \in SUBSET Nat
      BY <1>0, Zenon
    <3>2. PICK y \in U : \A k \in U : y <= k
      BY <3>1, Least, Zenon
    <3>3. y \in s .. t /\ y \in Nat /\ \A e \in Overlap(s, t) : y \notin e.start .. e.end
      BY <1>0, Zenon
    <3>4. y # s
      BY <2>1, <3>3, Zenon
    <3>5. y - 1 \in s .. t /\ y - 1 \notin U
      BY <1>0, <3>1, <3>2, <3>3, <3>4
    <3>6. PICK e \in Overlap(s, t) : y - 1 \in e.start .. e.end
      BY <3>5, Zenon
    <3>7. e.end = y - 1
      BY <1>1, <3>3, <3>6
    <3> QED
      BY <2>1, <3>3, <3>7, Zenon
  <2>3. ASSUME NEW x \in s .. t PROVE x \in Hits(s, B)
    <3>1. PICK e \in Overlap(s, t) : x \in e.start .. e.end
      BY <2>2, Zenon
    <3> QED
      BY <1>1, <1>2, <2>1, <3>1, Zenon
  <2> QED
    BY <2>3, Zenon
<1>6. test_range_bit(s, t, B, FALSE) <=> \E e \in Overlap(s, t) : e.bits \cap B # {}
  BY Zenon DEF test_range_bit
<1>7. (s .. t) \cap Hits(s, B) # {} <=> \E e \in Overlap(s, t) : e.bits \cap B # {}
  BY <1>1, <1>2, <1>3, Zenon
<1> QED
  BY <1>4, <1>5, <1>6, <1>7, Zenon

\* Between calls, what the invariant says of the tree is what the lookups need.
LEMMA UseLookups ==
    ASSUME ExtentAssumption, NEW b, UseInv(b)
    PROVE  LookupsExact
<1> SUFFICES ASSUME call = NoCall PROVE LookupsExact
  BY Zenon DEF LookupsExact, BitsFound, FullyMerged, PrivateKept
<1>1. Settled
  BY Zenon DEF Settled, UseInv, Good, Exact
<1>2. BitsFound
  <2>1. SUFFICES ASSUME NEW B \in SUBSET Bits, NEW s \in Offsets
        PROVE  /\ (find_first_extent_bit(s, B) = {}) = (Hits(s, B) = {})
               /\ \A e \in find_first_extent_bit(s, B) :
                     /\ \A x \in Hits(s, B) : e.start <= x
                     /\ \A x \in e.start .. e.end : want[x] \cap B # {}
               /\ \A t \in s .. MaxOff :
                     /\ test_range_bit(s, t, B, TRUE) = (s .. t \subseteq Hits(s, B))
                     /\ test_range_bit(s, t, B, FALSE) = ((s .. t) \cap Hits(s, B) # {})
    BY Zenon DEF BitsFound, Hits
  <2>2. ASSUME NEW t \in s .. MaxOff
        PROVE  /\ test_range_bit(s, t, B, TRUE) = (s .. t \subseteq Hits(s, B))
               /\ test_range_bit(s, t, B, FALSE) = ((s .. t) \cap Hits(s, B) # {})
    <3>1. test_range_bit(s, t, B, TRUE) \in BOOLEAN /\ test_range_bit(s, t, B, FALSE) \in BOOLEAN
      BY Zenon DEF test_range_bit
    <3> QED
      BY <1>1, <3>1, RangeBitExact, Zenon
  <2> QED
    BY <1>1, <2>2, FirstBitExact, Zenon
<1>3. FullyMerged
  <2> SUFFICES ASSUME NEW e \in tree, NEW f \in tree, e.end + 1 = f.start, e.bits = f.bits
               PROVE  e.bits \cap IoBits # {}
    BY Zenon DEF FullyMerged
  <2>1. f.start # NoOffset
    BY <1>1, SettledFacts DEF NoOffset
  <2> QED
    BY <2>1, Zenon DEF UseInv, Joined, Loop
<1>4. PrivateKept
  <2> SUFFICES ASSUME NEW s \in Offsets, saved[s] # NoPrivate
               PROVE  get_state_private(s) = {saved[s]}
    BY Zenon DEF PrivateKept
  <2>1. PICK e \in tree : e.start = s /\ e.xprivate = saved[s]
    BY Zenon DEF UseInv, Pointers
  <2>2. \A f \in tree : f # e => f.end < e.start \/ e.end < f.start
    BY <1>1, Zenon DEF Settled, WellFormed, Apart
  <2>3. e \in search_cache_extent(tree, s)
    BY <1>1, <2>1, <2>2, SettledFacts DEF search_cache_extent
  <2>4. \A f \in StateAt(s) : f = e
    BY <1>1, <2>1, <2>2, SettledFacts DEF StateAt, search_cache_extent
  <2>5. StateAt(s) = {e}
    BY <2>1, <2>3, <2>4, Zenon DEF StateAt
  <2> QED
    BY <2>1, <2>5, Zenon DEF get_state_private
<1> QED
  BY <1>2, <1>3, <1>4, Zenon DEF LookupsExact

\* Between calls the users of a tree read what was stored in it:
\* find_first_extent_bit and test_range_bit answer as a map from offsets to
\* bits would, no run is returned in pieces, and every private pointer is found
\* where set_state_private left it.
THEOREM LookupsAnswer == AsUsed => (Spec => []LookupsExact)
<1>1. ASSUME NEW b \in Bits, UsedWith(b) PROVE Spec => []LookupsExact
  <2>1. Init => UseInv(b)
    BY ExtentAssumption, InitUse, Zenon
  <2>2. UseInv(b) /\ [Next]_vars => UseInv(b)'
    BY <1>1, ExtentAssumption, NextUse, Zenon
  <2>3. UseInv(b) => LookupsExact
    BY ExtentAssumption, UseLookups, Zenon
  <2> QED
    BY <2>1, <2>2, <2>3, PTL DEF Spec
<1> QED
  BY <1>1, Zenon DEF AsUsed
=============================================================================

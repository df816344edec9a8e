----------------------------- MODULE SendReceive -----------------------------
(***************************************************************************)
(* btrfs send piped into btrfs receive.  The pipe may close or a command   *)
(* be damaged at any place; the receiver may have been given some of the   *)
(* subvolumes before.                                                      *)
(***************************************************************************)
EXTENDS Send, Receive

vars == <<world, stream, snd, rcv, subvols>>
Init == world \in Worlds /\ stream = <<>> /\ SendInit /\ ReceiveInit
Next == \/ SendStep /\ UNCHANGED <<world, rcv, subvols>>
        \/ ReceiveStep(snd.pc = "end") /\ UNCHANGED <<world, stream, snd>>
Spec == Init /\ [][Next]_vars

\* Two trees with the same paths, the same links and the same contents.
Shape(t) == [paths |-> {<<n[1], t.nodes[n[2]]>> : n \in t.names}, links |-> {Names(t, i) : i \in Inodes(t)}]
Unchanged == \A n \in DOMAIN world.base : n \notin world.changed
Origin(u) == {s \in world.subvols : s.uuid = u}

\* A subvolume carries the uuid it was sent from only if it is complete: at no
\* moment, wherever the stream was cut or damaged, can a partly received one be
\* taken for a copy and later serve as a parent (finish_subvol comes last).
TrustedIsComplete ==
    Unchanged => \A n \in DOMAIN subvols :
       subvols[n].received_uuid # NoUuid =>
          /\ subvols[n].ro
          /\ \A s \in Origin(subvols[n].received_uuid) : Shape(subvols[n].tree) = Shape(s.tree)
\* When both commands succeed everything that was sent has been received, whole
\* or against a parent, cloned or written, in one stream or several.
SentIsReceived ==
    /\ Unchanged /\ rcv.pc = "done" /\ rcv.ret = 0 /\ snd.pc = "end" /\ snd.ret = 0
    /\ ~(world.honor_end /\ ~world.new_end)
    => \A k \in DOMAIN world.args : \A s \in ById(world.args[k]) :
          s.name \in DOMAIN subvols /\ subvols[s.name].received_uuid = s.uuid
\* A receive that ends well leaves no subvolume half received: each one it
\* created is marked and read only.
NothingIsHalfReceived ==
    rcv.pc = "done" /\ rcv.ret = 0 =>
       \A n \in DOMAIN subvols \ DOMAIN world.base : subvols[n].ro /\ subvols[n].received_uuid # NoUuid
\* What send produces can be received: a receive fails only for a fault in the
\* pipe, a name that is taken, or a parent or clone source it was never given.
\* Nothing a command refers to is missing or comes later in the stream.
Known == {world.base[n].received_uuid : n \in DOMAIN world.base}
FailureHasACause ==
    Unchanged /\ rcv.pc = "done" /\ rcv.ret = 1 =>
       \/ world.corrupt # 0 \/ snd.ret = 1
       \/ \E k \in DOMAIN world.args : \E s \in ById(world.args[k]) : s.name \in DOMAIN world.base
       \/ \E k \in DOMAIN world.clones : \E s \in ById(world.clones[k]) : s.uuid \notin Known
       \/ \E s \in ById(world.parent) : s.uuid \notin Known
\* The parent send works out is a clone source and the nearest one: the subvolume
\* this one was made from, or else a sister no other is nearer than.
ParentIsNearest ==
    snd.pc = "send" /\ snd.parent # 0 =>
       /\ snd.parent \in {snd.clone_sources[k] : k \in DOMAIN snd.clone_sources}
       /\ world.parent = 0 \/ snd.at > 1 =>
          \A p \in get_parent(world.args[snd.at]) :
             \/ snd.parent = p.id
             \/ \A k \in DOMAIN snd.clone_sources :
                  /\ snd.clone_sources[k] # p.id
                  /\ (\E q \in get_parent(snd.clone_sources[k]) : q.id = p.id) =>
                        Distance(snd.parent, p) <= Distance(snd.clone_sources[k], p)
\* "It will also fail in case a previously received subvolume was changed after
\* it was received": no snapshot is received on top of a changed subvolume.
ChangedIsRefused ==
    rcv.pc = "done" /\ rcv.ret = 0 =>
       \A k \in 1 .. (rcv.pos - 1) : stream[k].cmd = "snapshot" =>
          \A n \in world.changed : world.base[n].received_uuid # stream[k].src

-----------------------------------------------------------------------------
\* The instance TLC checks: a subvolume L and three snapshots of it, sent
\* whole, against a parent or with clone sources, one or two at a time, to
\* receivers that have none, some or an altered one of them.

Node(k, d, m) == [kind |-> k, data |-> d, xattr |-> m, mode |-> m, owner |-> m, time |-> m]
TreeA == [names |-> {<<"f", 1>>, <<"d", 2>>, <<"o", 3>>}, nodes |-> <<Node("file", <<1, 2>>, 1), Node("dir", <<>>, 0), Node("fifo", <<>>, 0)>>]
TreeB == [names |-> {<<"g", 1>>, <<"h", 1>>, <<"i", 4>>, <<"d", 5>>},
          nodes |-> <<Node("file", <<1>>, 0), Node("dir", <<>>, 0), Node("fifo", <<>>, 0), Node("file", <<3, 1>>, 2),
                      Node("symlink", <<>>, 0)>>]
TreeC == [names |-> {<<"f", 1>>, <<"l", 1>>, <<"i", 4>>, <<"s", 6>>, <<"n", 7>>},
          nodes |-> <<Node("file", <<1, 4>>, 1), Node("dir", <<>>, 0), Node("fifo", <<>>, 0), Node("file", <<4, 5, 5>>, 0),
                      Node("symlink", <<>>, 0), Node("sock", <<>>, 0), Node("nod", <<>>, 1)>>]
Sv(i, u, p, g, r, t) == [id |-> i, uuid |-> u, parent |-> p, name |-> u, ctransid |-> g, ro |-> r, tree |-> t]
L == Sv(1, "L", "gone", 10, FALSE, TreeC)
A == Sv(2, "A", "L", 5, TRUE, TreeA)
B == Sv(3, "B", "L", 6, TRUE, TreeB)
C == Sv(4, "C", "L", 9, TRUE, TreeC)

Got(s) == [received_uuid |-> s.uuid, stransid |-> s.ctransid, ro |-> TRUE, tree |-> s.tree]
Altered(s) == [Got(s) EXCEPT !.tree.nodes[1].data = <<7>>]
NoBase == [n \in {} |-> 0]
World(clones, parent, args, base, changed, new_end, honor_end, cut, corrupt) ==
    [subvols |-> {L, A, B, C}, clones |-> clones, parent |-> parent, args |-> args, base |-> base, changed |-> changed,
     new_end |-> new_end, honor_end |-> honor_end, cut |-> cut, corrupt |-> corrupt]
Faults == {<<-1, 0>>} \cup {<<k, 0>> : k \in {0, 1, 4, 9}} \cup {<<-1, k>> : k \in {1, 2, 5, 8, 10}}
MCWorlds ==
       {World(<<>>, 0, <<2>>, NoBase, {}, FALSE, FALSE, f[1], f[2]) : f \in Faults}
  \cup {World(<<>>, 0, <<2, 3>>, NoBase, {}, e, h, f[1], f[2]) : e \in BOOLEAN, h \in BOOLEAN, f \in Faults}
  \cup {World(<<>>, 0, <<2, 3, 4>>, NoBase, {}, e, FALSE, -1, 0) : e \in BOOLEAN}
  \cup {World(<<>>, 2, <<a>>, [A |-> Got(A)], {}, FALSE, FALSE, f[1], f[2]) : a \in {3, 4}, f \in Faults}
  \cup {World(<<2, 3>>, 0, <<4>>, [A |-> Got(A), B |-> Got(B)], {}, FALSE, TRUE, -1, 0),
        World(<<2, 3>>, 2, <<4>>, [A |-> Got(A), B |-> Got(B)], {}, FALSE, FALSE, -1, 0),
        World(<<3, 2>>, 0, <<4>>, [A |-> Got(A)], {}, FALSE, FALSE, -1, 0),
        World(<<3>>, 2, <<3, 4>>, [A |-> Got(A), B |-> Got(B)], {}, FALSE, FALSE, -1, 0),
        World(<<>>, 2, <<3>>, NoBase, {}, FALSE, FALSE, -1, 0),
        World(<<>>, 0, <<1>>, NoBase, {}, FALSE, FALSE, -1, 0),
        World(<<>>, 9, <<2>>, NoBase, {}, FALSE, FALSE, -1, 0),
        World(<<1>>, 0, <<2>>, NoBase, {}, FALSE, FALSE, -1, 0),
        World(<<>>, 2, <<3>>, [A |-> Altered(A)], {"A"}, FALSE, FALSE, -1, 0)}
=============================================================================

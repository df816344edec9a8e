----------------------------- MODULE SendStream -----------------------------
(***************************************************************************)
(* The stream between btrfs send and btrfs receive: what the kernel writes *)
(* for a subvolume (external), and how send-stream.c reads it.             *)
(*                                                                         *)
(* A tree is [names, nodes]: names a set of <<path, inode>>, nodes what is *)
(* in an inode, [kind, data, xattr, mode, owner, time], data a sequence.   *)
(***************************************************************************)
EXTENDS Integers, Sequences, FiniteSets

CONSTANT Worlds      \* subvolumes, options and faults

VARIABLES world, stream
NoUuid == "none"

Command(cmd) == [cmd |-> cmd, path |-> "", to |-> "", uuid |-> NoUuid, transid |-> 0, src |-> NoUuid, src_transid |-> 0,
                 off |-> 0, val |-> 0, ok |-> TRUE]
On(cmd, path) == [Command(cmd) EXCEPT !.path = path]
Names(t, ino) == {n[1] : n \in {m \in t.names : m[2] = ino}}
Inodes(t) == {n[2] : n \in t.names}
Some(S) == CHOOSE x \in S : TRUE
NoTree == [names |-> {}, nodes |-> <<>>]
RECURSIVE SeqOf(_)
SeqOf(S) == IF S = {} THEN <<>> ELSE <<Some(S)>> \o SeqOf(S \ {Some(S)})
RECURSIVE Concat(_)
Concat(ss) == IF ss = <<>> THEN <<>> ELSE Head(ss) \o Concat(Tail(ss))
Each(S, Op(_)) == LET s == SeqOf(S) IN Concat([i \in DOMAIN s |-> Op(s[i])])

-----------------------------------------------------------------------------
(* BTRFS_IOC_SEND (external): the commands that turn tree p into tree t.    *)

Removed(p, t) == Each({n \in p.names : n[2] \notin Inodes(t)}, LAMBDA n :
    <<On(IF p.nodes[n[2]].kind = "dir" THEN "rmdir" ELSE "unlink", n[1])>>)
\* The name by which a file is known while the others come and go.
IsMoved(p, t, i) == i \in Inodes(p) /\ Names(p, i) \cap Names(t, i) = {}
Anchor(p, t, i) == Some(IF i \in Inodes(p) /\ ~IsMoved(p, t, i) THEN Names(p, i) \cap Names(t, i) ELSE Names(t, i))
Moved(p, t) == Each({i \in Inodes(t) : IsMoved(p, t, i)}, LAMBDA i :
    <<[On("rename", Some(Names(p, i))) EXCEPT !.to = Anchor(p, t, i)]>>)
Made(p, t) == Each(Inodes(t) \ Inodes(p), LAMBDA i : <<On("mk" \o t.nodes[i].kind, Anchor(p, t, i))>>)
Linked(p, t) == Each({n \in t.names \ p.names : n[1] # Anchor(p, t, n[2])}, LAMBDA n :
    <<[On("link", n[1]) EXCEPT !.to = Anchor(p, t, n[2])]>>)
Unlinked(p, t) == Each({n \in p.names \ t.names : /\ n[2] \in Inodes(t)
                                                  /\ ~(IsMoved(p, t, n[2]) /\ n[1] = Some(Names(p, n[2])))}, LAMBDA n :
    <<On("unlink", n[1])>>)
Before(p, i, node) == IF i \in Inodes(p) THEN p.nodes[i]
                      ELSE [kind |-> node.kind, data |-> <<>>, xattr |-> 0, mode |-> 0, owner |-> 0, time |-> 0]
\* A value found in a clone source, or earlier in the file, is cloned from there.
CloneFrom(sources, v) == {<<s, n, o>> \in UNION {
       {<<s, n, o>> : n \in s.tree.names, o \in 1 .. 2} : s \in sources} :
       o <= Len(s.tree.nodes[n[2]].data) /\ s.tree.nodes[n[2]].data[o] = v}
Data(p, t, uuid, sources, i) ==
    LET new == t.nodes[i].data
        old == Before(p, i, t.nodes[i]).data
        path == Some(Names(t, i))
        one(o) == IF o <= Len(old) /\ old[o] = new[o] THEN <<>>
                  ELSE LET from == CloneFrom(sources, new[o])
                           own == {k \in 1 .. (o - 1) : new[k] = new[o]}
                       IN
                       IF own # {} THEN <<[On("clone", path) EXCEPT !.off = o, !.src = uuid, !.to = path, !.val = Some(own)]>>
                       ELSE IF from = {} THEN <<[On("write", path) EXCEPT !.off = o, !.val = new[o]]>>
                       ELSE LET f == Some(from) IN
                            <<[On("clone", path) EXCEPT !.off = o, !.src = f[1].uuid, !.to = f[2][1], !.val = f[3]]>>
    IN  Concat([o \in DOMAIN new |-> one(o)]) \o
        (IF Len(new) < Len(old) THEN <<[On("truncate", path) EXCEPT !.val = Len(new)]>> ELSE <<>>)
Meta(p, t, i) ==
    LET old == Before(p, i, t.nodes[i])
        new == t.nodes[i]
        path == Some(Names(t, i))
        set(cmd, a, b) == IF a = b THEN <<>> ELSE <<[On(cmd, path) EXCEPT !.val = b]>>
    IN  (IF old.xattr # new.xattr /\ new.xattr = 0 THEN <<On("remove_xattr", path)>>
         ELSE set("set_xattr", old.xattr, new.xattr))
        \o set("chmod", old.mode, new.mode) \o set("chown", old.owner, new.owner) \o set("utimes", old.time, new.time)
Difference(p, t, uuid, sources) ==
    Removed(p, t) \o Moved(p, t) \o Made(p, t) \o Linked(p, t) \o Unlinked(p, t)
    \o Each(Inodes(t), LAMBDA i : Data(p, t, uuid, sources, i) \o Meta(p, t, i))

\* The stream of one subvolume, against a parent or whole.
Stream(sv, parent, sources, header, end) ==
    (IF header THEN <<Command("header")>> ELSE <<>>)
    \o (IF parent = {} THEN <<[On("subvol", sv.name) EXCEPT !.uuid = sv.uuid, !.transid = sv.ctransid]>>
        ELSE <<[On("snapshot", sv.name) EXCEPT !.uuid = sv.uuid, !.transid = sv.ctransid,
                      !.src = Some(parent).uuid, !.src_transid = Some(parent).ctransid]>>)
    \o Difference(IF parent = {} THEN NoTree ELSE Some(parent).tree, sv.tree, sv.uuid, sources)
    \o (IF end THEN <<Command("end")>> ELSE <<>>)

-----------------------------------------------------------------------------
(* Reading it *)

\* read_buf and read_cmd: the command at a place of the stream, "eof" when the
\* stream ends there.  A cut inside a command and a wrong checksum are errors.
EOF == Command("eof")
read_buf(pos) == IF pos > Len(stream) THEN EOF ELSE stream[pos]
CrcOk(c) == c.ok
read_cmd(c) == c.cmd # "eof" /\ CrcOk(c)
\* tlv_get, tlv_get_string, tlv_get_uuid: what a command needs is there.
tlv_get(c) ==
    /\ c.path = "" => c.cmd \in {"end", "header"}
    /\ c.cmd \in {"subvol", "snapshot"} => c.uuid # NoUuid
    /\ c.cmd \in {"snapshot", "clone"} => c.src # NoUuid
    /\ c.cmd \in {"rename", "link", "clone"} => c.to # ""
=============================================================================

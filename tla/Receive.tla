------------------------------- MODULE Receive -------------------------------
(***************************************************************************)
(* btrfs receive (cmds-receive.c with send-stream.c): commands are read    *)
(* and carried out on the subvolume being received; when it is complete it *)
(* is marked with the uuid it was sent from and made read only.            *)
(* subvols maps names to [received_uuid, stransid, ro, tree].              *)
(***************************************************************************)
EXTENDS SendStream

VARIABLES rcv, subvols
\* rcv = [pc, pos, cur, uuid, transid, fd, end, ret]; cur the subvolume being
\* received, fd the file open for writing, [path, vol, ino].

NoFd == [path |-> <<>>, vol |-> "", ino |-> 0]
ReceiveInit ==
    /\ rcv = [pc |-> "header", pos |-> 1, cur |-> "", uuid |-> NoUuid, transid |-> 0, fd |-> NoFd, end |-> FALSE, ret |-> 0]
    /\ subvols = world.base

\* A handler's outcome: it failed, or the receiver and the subvolumes after it.
Failed == [ok |-> FALSE, r |-> rcv, v |-> subvols]
FailedAfter(f) == [f EXCEPT !.ok = FALSE]      \* what f did remains
Done(r, v) == [ok |-> TRUE, r |-> r, v |-> v]

\* finish_subvol
finish_subvol(r, v) ==
    IF r.cur = "" THEN Done(r, v)
    ELSE IF r.cur \notin DOMAIN v THEN Failed
    ELSE Done([r EXCEPT !.cur = ""],
              [v EXCEPT ![r.cur].received_uuid = r.uuid, ![r.cur].stransid = r.transid, ![r.cur].ro = TRUE])

NewVol(t) == [received_uuid |-> NoUuid, stransid |-> 0, ro |-> FALSE, tree |-> t]
Create(f, c, t) ==
    IF ~f.ok \/ c.path \in DOMAIN f.v THEN FailedAfter(f)
    ELSE Done([f.r EXCEPT !.cur = c.path, !.uuid = c.uuid, !.transid = c.transid],
              [n \in DOMAIN f.v \cup {c.path} |-> IF n = c.path THEN NewVol(t) ELSE f.v[n]])
\* The subvolume received before is complete when the next one begins.
process_subvol(c) == Create(finish_subvol(rcv, subvols), c, NoTree)
\* subvol_uuid_search by received uuid; the transaction is not compared.
subvol_uuid_search(v, uuid) == {n \in DOMAIN v : v[n].received_uuid = uuid}
process_snapshot(c) ==
    LET f == finish_subvol(rcv, subvols)
        from == subvol_uuid_search(f.v, c.src)
    IN  IF ~f.ok \/ from = {} THEN FailedAfter(f) ELSE Create(f, c, f.v[Some(from)].tree)

\* Operations on the tree of the subvolume being received.
Tree == subvols[rcv.cur].tree
Has(p) == \E n \in Tree.names : n[1] = p
Ino(p) == (CHOOSE n \in Tree.names : n[1] = p)[2]
NewIno == Len(Tree.nodes) + 1
With(t) == Done(rcv, [subvols EXCEPT ![rcv.cur].tree = t])
Kinds == [mkfile |-> "file", mkdir |-> "dir", mknod |-> "nod", mkfifo |-> "fifo", mksock |-> "sock", mksymlink |-> "symlink"]
MakeNode(c) ==      \* process_mkfile, mkdir, mknod, mkfifo, mksock, symlink
    IF Has(c.path) THEN Failed
    ELSE With([names |-> Tree.names \cup {<<c.path, NewIno>>},
               nodes |-> Append(Tree.nodes, [kind |-> Kinds[c.cmd], data |-> <<>>, xattr |-> 0, mode |-> 0,
                                             owner |-> 0, time |-> 0])])
process_rename(c) ==
    IF ~Has(c.path) THEN Failed
    ELSE With([Tree EXCEPT !.names = {n \in @ : n[1] \notin {c.path, c.to}} \cup {<<c.to, Ino(c.path)>>}])
process_link(c) ==
    IF ~Has(c.to) \/ Has(c.path) THEN Failed
    ELSE With([Tree EXCEPT !.names = @ \cup {<<c.path, Ino(c.to)>>}])
Unname(c, dir) ==      \* process_unlink and process_rmdir
    IF ~Has(c.path) THEN Failed
    ELSE IF (Tree.nodes[Ino(c.path)].kind = "dir") # dir THEN Failed
    ELSE With([Tree EXCEPT !.names = {n \in @ : n[1] # c.path}])
\* process_chmod, process_chown, process_utimes
SetField(c, f) == IF ~Has(c.path) THEN Failed ELSE With([Tree EXCEPT !.nodes[Ino(c.path)][f] = c.val])
process_xattr(c) == SetField(c, "xattr")      \* process_set_xattr, process_remove_xattr
process_truncate(c) ==
    IF ~Has(c.path) THEN Failed ELSE With([Tree EXCEPT !.nodes[Ino(c.path)].data =
                                   [i \in 1 .. c.val |-> IF i <= Len(@) THEN @[i] ELSE 0]])

\* open_inode_for_write keeps the file open from one command to the next.
SameFile(fd, path) == fd.path = path
open_inode_for_write(path) ==
    IF rcv.fd # NoFd /\ SameFile(rcv.fd, <<rcv.cur, path>>) THEN rcv.fd
    ELSE IF Has(path) THEN [path |-> <<rcv.cur, path>>, vol |-> rcv.cur, ino |-> Ino(path)] ELSE NoFd
close_inode_for_write(r) == [r EXCEPT !.fd = NoFd]
PutData(fd, off, val) ==
    [subvols EXCEPT ![fd.vol].tree.nodes[fd.ino].data =
       [i \in 1 .. (IF off > Len(@) THEN off ELSE Len(@)) |-> IF i = off THEN val ELSE IF i <= Len(@) THEN @[i] ELSE 0]]
process_write(c) ==
    LET fd == open_inode_for_write(c.path) IN
    IF fd = NoFd THEN Failed ELSE Done([rcv EXCEPT !.fd = fd], PutData(fd, c.off, c.val))
\* A clone source is a received subvolume, or the one being received.
CloneSource(found, src) == IF found # {} THEN found ELSE IF src = rcv.uuid THEN {rcv.cur} ELSE {}
process_clone(c) ==
    LET fd == open_inode_for_write(c.path)
        from == CloneSource(subvol_uuid_search(subvols, c.src), c.src)
    IN  IF fd = NoFd \/ from = {} THEN Failed
        ELSE LET t == subvols[Some(from)].tree
                 ino == {n[2] : n \in {m \in t.names : m[1] = c.to}}
             IN  IF ino = {} THEN Failed
                 ELSE IF c.val > Len(t.nodes[Some(ino)].data) THEN Failed
                 ELSE Done([rcv EXCEPT !.fd = fd], PutData(fd, c.off, t.nodes[Some(ino)].data[c.val]))

\* read_and_process_cmd: the switch over the commands (send_ops).
Process(c) ==
    CASE c.cmd = "subvol" -> process_subvol(c)
      [] c.cmd = "snapshot" -> process_snapshot(c)
      [] c.cmd \in DOMAIN Kinds -> MakeNode(c)
      [] c.cmd = "rename" -> process_rename(c)
      [] c.cmd = "link" -> process_link(c)
      [] c.cmd \in {"unlink", "rmdir"} -> Unname(c, c.cmd = "rmdir")
      [] c.cmd = "write" -> process_write(c)
      [] c.cmd = "clone" -> process_clone(c)
      [] c.cmd \in {"set_xattr", "remove_xattr"} -> process_xattr(c)
      [] c.cmd = "truncate" -> process_truncate(c)
      [] c.cmd = "chmod" -> SetField(c, "mode")
      [] c.cmd = "chown" -> SetField(c, "owner")
      [] c.cmd = "utimes" -> SetField(c, "time")
      [] OTHER -> Done(rcv, subvols)

\* btrfs_read_and_process_send_stream: the header, where the input may end.
Arrived(closed) == rcv.pos <= Len(stream) \/ closed
Stop(ret) == rcv' = [rcv EXCEPT !.pc = "done", !.ret = ret] /\ UNCHANGED subvols
ReadHeader(closed) ==
    /\ rcv.pc = "header" /\ Arrived(closed)
    /\ \E c \in {read_buf(rcv.pos)} :
         IF c.cmd = "eof" THEN rcv' = [rcv EXCEPT !.pc = "close", !.end = TRUE]
         ELSE IF c.cmd # "header" \/ ~c.ok THEN rcv' = [rcv EXCEPT !.pc = "done", !.ret = 1]
         ELSE rcv' = [rcv EXCEPT !.pc = "cmd", !.pos = @ + 1]
    /\ UNCHANGED subvols
EndsAll == world.honor_end
ReadCommand(closed) ==
    /\ rcv.pc = "cmd" /\ Arrived(closed)
    /\ \E c \in {read_buf(rcv.pos)} :
         IF ~read_cmd(c) \/ ~tlv_get(c) THEN Stop(1)
         ELSE IF c.cmd = "end"
         THEN /\ rcv' = [rcv EXCEPT !.pc = "close", !.pos = @ + 1, !.end = EndsAll]
              /\ UNCHANGED subvols
         ELSE \E p \in {Process(c)} :
              /\ rcv' = IF p.ok THEN [p.r EXCEPT !.pos = @ + 1] ELSE [rcv EXCEPT !.pc = "done", !.ret = 1]
              /\ subvols' = p.v
\* do_receive between two streams.
FinishLast(r) == finish_subvol(r, subvols)
Close ==
    /\ rcv.pc = "close"
    /\ \E f \in {FinishLast(close_inode_for_write(rcv))} :
         IF ~f.ok THEN Stop(1)
         ELSE rcv' = [f.r EXCEPT !.pc = IF rcv.end THEN "done" ELSE "header"] /\ subvols' = f.v
ReceiveStep(closed) == ReadHeader(closed) \/ ReadCommand(closed) \/ Close
=============================================================================

----------------------------- MODULE ScrubFile -----------------------------
(***************************************************************************)
(* Several btrfs scrub processes on one file system (cmds-scrub.c): the    *)
(* status file that each of them replaces by writing scrub.status.*_tmp    *)
(* under a non-blocking flock and renaming it, and the progress socket     *)
(* that tells a second process that the first is alive.  Files are inodes  *)
(* with names, so that a name can move under a process that has opened it. *)
(* flock, rename, bind and the kernel's scrub are external.                *)
(***************************************************************************)
EXTENDS Integers, FiniteSets

CONSTANTS
    Devs,       \* devices of the file system
    Setups,     \* sets of scrub commands given: see below
    Inodes      \* bound on the files: a set of numbers from 1

ASSUME ScrubFileAssumption ==
    /\ Inodes \subseteq Nat \ {0}
    /\ \A s \in Setups : /\ s.scope \in [DOMAIN s.scope -> SUBSET Devs]
                        /\ IsFiniteSet(DOMAIN s.scope) /\ "none" \notin DOMAIN s.scope
                        /\ s.background \subseteq DOMAIN s.scope /\ s.cycles \in Nat

VARIABLES
    setup,      \* the commands; does not change
    data, tmp,  \* the inodes with the two names, 0 for none
    flock,      \* inode -> process that holds the lock, or "none"
    content,    \* inode -> [state, rec]: rec is device -> state of its scrub
    sock,       \* process whose socket has the name, or "none"
    parent,     \* process -> the socket in the parent: "none", "open", "closed"
    pc,         \* process -> step
    w,          \* process -> [kind, fd, record, cycles]
    busy,       \* device -> process whose ioctl the kernel runs, or "none"
    result,     \* process -> device -> what goes into the file
    torn        \* history: a process has read half-written content

vars == <<setup, data, tmp, flock, content, sock, parent, pc, w, busy, result, torn>>
Files == <<setup, data, tmp, flock, content>>

Procs == DOMAIN setup.scope         \* the processes
Scope == setup.scope                \* process -> devices it was asked to scrub
Background == setup.background      \* processes started without -B
Cycles == setup.cycles              \* bound on the periodic writes of a process

NoRecs == [d \in Devs |-> "none"]
Goto(p, l) == pc' = [pc EXCEPT ![p] = l]
\* The process, or the parent it was forked from, listens.
Alive(p) ==
    \/ pc[p] \notin {"begin", "rlock", "read", "bind", "listen", "unlink", "exit"}
    \/ parent[p] = "open"

-----------------------------------------------------------------------------
(* scrub_start: the past scrubs and the socket *)

OpenR(p) ==
    /\ pc[p] = "begin"
    /\ w' = [w EXCEPT ![p].fd = data] /\ Goto(p, IF data = 0 THEN "bind" ELSE "rlock")
    /\ UNCHANGED <<Files, sock, parent, busy, result, torn>>

\* Faulty variant: the reader does not ask for the lock.
RLockIgnored(p) ==
    /\ pc[p] = "rlock" /\ Goto(p, "read")
    /\ UNCHANGED <<Files, sock, parent, w, busy, result, torn>>
\* A locked file is a warning, and no past scrubs.
RLock(p) ==
    /\ pc[p] = "rlock"
    /\ \/ /\ flock[w[p].fd] = "none"
          /\ flock' = [flock EXCEPT ![w[p].fd] = p] /\ Goto(p, "read") /\ UNCHANGED w
       \/ /\ flock[w[p].fd] # "none"
          /\ w' = [w EXCEPT ![p].fd = 0] /\ Goto(p, "bind") /\ UNCHANGED flock
    /\ UNCHANGED <<setup, data, tmp, content, sock, parent, busy, result, torn>>

is_scrub_running_on_fs(p) == \E d \in Scope[p] : content[w[p].fd].rec[d] = "running"
\* scrub_read_file, close and the check.
ReadPast(p) ==
    /\ pc[p] = "read"
    /\ torn' = (torn \/ content[w[p].fd].state = "half")
    /\ Goto(p, IF is_scrub_running_on_fs(p) THEN "exit" ELSE "bind")
    /\ flock' = [flock EXCEPT ![w[p].fd] = IF @ = p THEN "none" ELSE @]
    /\ w' = [w EXCEPT ![p].fd = 0]
    /\ UNCHANGED <<setup, data, tmp, content, sock, parent, busy, result>>

\* bind; on EADDRINUSE connect, which answers while the owner is alive, or
\* unlink and try again.
Bind(p) ==
    /\ pc[p] = "bind"
    /\ \/ /\ sock = "none" /\ sock' = p
          /\ Goto(p, "listen")
       \/ /\ sock # "none" /\ Alive(sock)
          /\ Goto(p, "exit") /\ UNCHANGED sock
       \/ /\ sock # "none" /\ ~Alive(sock)
          /\ sock' = "none" /\ UNCHANGED pc
    /\ UNCHANGED <<Files, parent, w, busy, result, torn>>
Listen(p) ==
    /\ pc[p] = "listen" /\ Goto(p, "open")
    /\ UNCHANGED <<Files, sock, parent, w, busy, result, torn>>

-----------------------------------------------------------------------------
(* scrub_write_progress *)

\* What the process writes: its own devices only.
Written(p) ==
    [d \in Devs |-> IF d \notin Scope[p] THEN "none"
                    ELSE IF w[p].kind = "final" THEN result[p][d] ELSE "running"]
\* Where it goes on; an error of the first write disables recording, one of a
\* periodic write ends the progress thread.
After(p) == CASE w[p].kind = "zero" -> "fork"
              [] w[p].kind = "cycle" -> "running"
              [] OTHER -> "end"
FailedWith(p, fd) ==
    w' = [w EXCEPT ![p].record = w[p].kind # "zero", ![p].cycles = Cycles, ![p].fd = fd]

\* An inode that no name and no open file refers to; the least is taken.
Free(i) == i # data /\ i # tmp /\ \A q \in Procs : w[q].fd # i
\* Faulty variant: opens with O_TRUNC.
WOpenTruncates(p) ==
    /\ pc[p] = "open"
    /\ \/ /\ tmp # 0 /\ w' = [w EXCEPT ![p].fd = tmp] /\ UNCHANGED tmp
          /\ content' = [content EXCEPT ![tmp] = [state |-> "empty", rec |-> NoRecs]]
       \/ /\ tmp = 0
          /\ \E i \in Inodes :
                /\ Free(i) /\ \A j \in Inodes : j < i => ~Free(j)
                /\ tmp' = i /\ w' = [w EXCEPT ![p].fd = i]
                /\ content' = [content EXCEPT ![i] = [state |-> "empty", rec |-> NoRecs]]
    /\ Goto(p, "lock")
    /\ UNCHANGED <<setup, data, flock, sock, parent, busy, result, torn>>
WOpen(p) ==
    /\ pc[p] = "open"
    /\ \/ /\ tmp # 0 /\ w' = [w EXCEPT ![p].fd = tmp] /\ UNCHANGED <<tmp, content>>
       \/ /\ tmp = 0
          /\ \E i \in Inodes :
                /\ Free(i) /\ \A j \in Inodes : j < i => ~Free(j)
                /\ tmp' = i /\ w' = [w EXCEPT ![p].fd = i]
                /\ content' = [content EXCEPT ![i] = [state |-> "empty", rec |-> NoRecs]]
    /\ Goto(p, "lock")
    /\ UNCHANGED <<setup, data, flock, sock, parent, busy, result, torn>>

WLock(p) ==
    /\ pc[p] = "lock"
    /\ \/ /\ flock[w[p].fd] = "none"
          /\ flock' = [flock EXCEPT ![w[p].fd] = p] /\ Goto(p, "write") /\ UNCHANGED w
       \/ /\ flock[w[p].fd] # "none"
          /\ FailedWith(p, 0) /\ Goto(p, After(p)) /\ UNCHANGED flock
    /\ UNCHANGED <<setup, data, tmp, content, sock, parent, busy, result, torn>>

WWrite(p) ==
    /\ pc[p] = "write"
    /\ content' = [content EXCEPT ![w[p].fd].state = "half"] /\ Goto(p, "written")
    /\ UNCHANGED <<setup, data, tmp, flock, sock, parent, w, busy, result, torn>>
WWritten(p) ==
    /\ pc[p] = "written"
    /\ content' = [content EXCEPT ![w[p].fd] = [state |-> "whole", rec |-> Written(p)]] /\ Goto(p, "rename")
    /\ UNCHANGED <<setup, data, tmp, flock, sock, parent, w, busy, result, torn>>

\* rename moves whatever has the name.
WRename(p) ==
    /\ pc[p] = "rename"
    /\ \/ tmp # 0 /\ data' = tmp /\ tmp' = 0 /\ UNCHANGED w
       \/ tmp = 0 /\ FailedWith(p, w[p].fd) /\ UNCHANGED <<data, tmp>>
    /\ Goto(p, "close")
    /\ UNCHANGED <<setup, flock, content, sock, parent, busy, result, torn>>

WClose(p) ==
    /\ pc[p] = "close"
    /\ flock' = [flock EXCEPT ![w[p].fd] = "none"] /\ Goto(p, After(p))
    /\ w' = [w EXCEPT ![p].fd = 0]
    /\ UNCHANGED <<setup, data, tmp, content, sock, parent, busy, result, torn>>

-----------------------------------------------------------------------------
(* The scrub *)

\* fork; the parent of a background scrub goes on to exit.
Fork(p) ==
    /\ pc[p] = "fork" /\ Goto(p, "scrub")
    /\ parent' = [parent EXCEPT ![p] = IF p \in Background THEN "open" ELSE "none"]
    /\ UNCHANGED <<Files, sock, w, busy, result, torn>>
\* out: in the parent.
ParentClose(p) ==
    /\ parent[p] = "open" /\ parent' = [parent EXCEPT ![p] = "closed"]
    /\ UNCHANGED <<Files, sock, pc, w, busy, result, torn>>
ParentUnlink(p) ==
    /\ parent[p] = "closed" /\ parent' = [parent EXCEPT ![p] = "none"] /\ sock' = "none"
    /\ UNCHANGED <<Files, pc, w, busy, result, torn>>

\* The ioctls: a device that is being scrubbed fails with EINPROGRESS.
Scrub(p) ==
    /\ pc[p] = "scrub"
    /\ busy' = [d \in Devs |-> IF d \in Scope[p] /\ busy[d] = "none" THEN p ELSE busy[d]]
    /\ result' = [result EXCEPT ![p] = [d \in Devs |-> IF busy[d] = "none" THEN "done" ELSE "canceled"]]
    /\ Goto(p, "running")
    /\ UNCHANGED <<Files, sock, parent, w, torn>>
\* Five seconds later.
Cycle(p) ==
    /\ pc[p] = "running" /\ w[p].record /\ w[p].cycles < Cycles
    /\ w' = [w EXCEPT ![p].kind = "cycle", ![p].cycles = @ + 1] /\ Goto(p, "open")
    /\ UNCHANGED <<Files, sock, parent, busy, result, torn>>
\* The ioctls have returned: the result is written.
Finish(p) ==
    /\ pc[p] = "running"
    /\ busy' = [d \in Devs |-> IF busy[d] = p THEN "none" ELSE busy[d]]
    /\ w' = [w EXCEPT ![p].kind = "final"]
    /\ Goto(p, IF w[p].record THEN "open" ELSE "end")
    /\ UNCHANGED <<Files, sock, parent, result, torn>>
\* out: the socket is closed, then unlinked, whoever has bound the name since.
Close(p) ==
    /\ pc[p] = "end" /\ Goto(p, "unlink")
    /\ UNCHANGED <<Files, sock, parent, w, busy, result, torn>>
Unlink(p) ==
    /\ pc[p] = "unlink" /\ Goto(p, "exit") /\ sock' = "none"
    /\ UNCHANGED <<Files, parent, w, busy, result, torn>>

-----------------------------------------------------------------------------
Init ==
    /\ setup \in Setups
    /\ data = 0 /\ tmp = 0 /\ flock = [i \in Inodes |-> "none"]
    /\ content = [i \in Inodes |-> [state |-> "empty", rec |-> NoRecs]]
    /\ sock = "none" /\ parent = [p \in Procs |-> "none"] /\ pc = [p \in Procs |-> "begin"]
    /\ w = [p \in Procs |-> [kind |-> "zero", fd |-> 0, record |-> TRUE, cycles |-> 0]]
    /\ busy = [d \in Devs |-> "none"] /\ result = [p \in Procs |-> NoRecs] /\ torn = FALSE

Process(p) ==
    \/ OpenR(p) \/ RLock(p) \/ ReadPast(p) \/ Bind(p) \/ Listen(p)
    \/ WOpen(p) \/ WLock(p) \/ WWrite(p) \/ WWritten(p) \/ WRename(p) \/ WClose(p)
    \/ Fork(p) \/ Scrub(p) \/ Finish(p) \/ Close(p) \/ Unlink(p)
Next == \E p \in Procs : Process(p) \/ Cycle(p) \/ ParentClose(p) \/ ParentUnlink(p)
Spec == Init /\ [][Next]_vars

-----------------------------------------------------------------------------
(* Properties *)

AllExited == \A p \in Procs : pc[p] = "exit" /\ parent[p] = "none"
\* A lock is held only by a process that reads or writes the file, so that a
\* lock is never left behind.
LocksEnd ==
    \A i \in Inodes : flock[i] # "none" =>
        w[flock[i]].fd = i /\ pc[flock[i]] \in {"read", "write", "written", "rename", "close"}

\* No process reads a status file that another is in the middle of writing,
\* although the temporary file a process opened may have become the status
\* file before it gets the lock (a file still empty can be read).
ReadersNeverHalf == ~torn /\ LocksEnd

\* When two scrubs have ended the status file is a complete one: it is not
\* left empty, although both may have opened the same temporary file.  With a
\* third process it can be.
FileWhole == Cardinality(Procs) = 2 /\ AllExited /\ data # 0 => content[data].state = "whole"

\* Of two scrubs of a device the second is refused before its ioctl.
SecondRefused == \A p \in Procs : \A d \in Scope[p] : result[p][d] # "canceled"

\* Scrubs of single devices leave the result of each.
RecordsKept ==
    AllExited => \A p \in Procs : \A d \in Scope[p] :
        result[p][d] = "done" => data # 0 /\ content[data].rec[d] = "done"

\* When all scrubs have ended no device is recorded as being scrubbed.
NoStaleRunning == AllExited /\ data # 0 => \A d \in Devs : content[data].rec[d] # "running"
=============================================================================

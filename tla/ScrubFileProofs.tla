-------------------------- MODULE ScrubFileProofs --------------------------
(***************************************************************************)
(* For any number of scrub processes, devices and files: no process reads  *)
(* a status file that another is writing and no lock is left behind; and   *)
(* two scrubs leave a complete status file.                                *)
(***************************************************************************)
EXTENDS ScrubFile, FiniteSetTheorems, TLAPS

\* Steps at which a process has a file open, holds its lock, is about to
\* write it; and the steps of the reader.
Locked == {"read", "write", "written", "rename", "close"}
Opened == Locked \cup {"rlock", "lock"}
Writing == {"lock", "write", "written"}
Starting == {"begin", "rlock", "read"}

Steps == {"begin", "rlock", "read", "bind", "listen", "open", "lock", "write", "written",
          "rename", "close", "fork", "scrub", "running", "end", "unlink", "exit"}
Records == [Devs -> {"none", "running", "done", "canceled"}]
Contents == [state : {"empty", "half", "whole"}, rec : Records]
Writers == [kind : {"zero", "cycle", "final"}, fd : Inodes \cup {0},
            record : BOOLEAN, cycles : Nat]

\* The variables hold what the program's variables hold.
ScrubType ==
    /\ setup \in Setups
    /\ data \in Inodes \cup {0} /\ tmp \in Inodes \cup {0}
    /\ flock \in [Inodes -> Procs \cup {"none"}]
    /\ content \in [Inodes -> Contents]
    /\ pc \in [Procs -> Steps]
    /\ w \in [Procs -> Writers]
    /\ result \in [Procs -> Records]

\* A process past flock holds the lock, and only such a process does; a file
\* is half written only while its writer holds the lock.
LockInv ==
    /\ \A p \in Procs : pc[p] \in Opened => w[p].fd \in Inodes
    /\ \A p \in Procs : pc[p] \in Locked => flock[w[p].fd] = p
    /\ LocksEnd
    /\ \A i \in Inodes : content[i].state = "half"
                            => flock[i] # "none" /\ pc[flock[i]] = "written"

\* The two names never refer to one file, and a reader's file has not the
\* temporary name; a process about to rename has written its file; whoever is
\* to complete the temporary file has it open.
NameInv ==
    /\ tmp # 0 => tmp # data
    /\ \A p \in Procs : pc[p] \in {"rlock", "read"} => w[p].fd # tmp
    /\ \A p \in Procs : pc[p] \in {"rename", "close"} => content[w[p].fd].state = "whole"
    /\ tmp # 0 /\ content[tmp].state # "whole"
          => \E q \in Procs : w[q].fd = tmp /\ pc[q] \in Writing

\* Of two processes, while one is to write the file that the other has made
\* the status file in the meantime, the other does not read or write it; a
\* status file that is not complete has a process that will complete it.
PairInv ==
    Cardinality(Procs) = 2 =>
    /\ \A q, r \in Procs :
          data # 0 /\ w[q].fd = data /\ pc[q] \in Writing /\ r # q
             => /\ pc[r] \notin Starting
                /\ w[r].fd = data => pc[r] = "close" /\ pc[q] = "lock"
    /\ data # 0 /\ content[data].state # "whole"
          => \E q \in Procs : w[q].fd = data /\ pc[q] \in Writing

ScrubInv == ScrubType /\ LockInv /\ NameInv /\ PairInv /\ ~torn

-----------------------------------------------------------------------------
(* Facts used in every step *)

\* No file is numbered 0 and no process is called "none".
LEMMA Names ==
    ASSUME ScrubType
    PROVE  0 \notin Inodes /\ "none" \notin Procs /\ IsFiniteSet(Procs)
BY ScrubFileAssumption DEF ScrubType, Procs

\* Two processes leave no third.
LEMMA OnlyTwo ==
    ASSUME NEW S, IsFiniteSet(S), Cardinality(S) = 2, NEW p \in S, NEW q \in S, NEW r \in S,
           p # q, r # q
    PROVE  r = p
<1> SUFFICES ASSUME r # p PROVE FALSE
  OBVIOUS
<1>1. /\ IsFiniteSet(S \ {p}) /\ Cardinality(S \ {p}) = 1
  BY FS_RemoveElement
<1> DEFINE T == S \ {p}
<1>2. IsFiniteSet(T) /\ Cardinality(T) = 1 /\ q \in T /\ r \in T \ {q}
  BY <1>1
<1> HIDE DEF T
<1>3. IsFiniteSet(T \ {q}) /\ Cardinality(T \ {q}) = 0
  BY <1>2, FS_RemoveElement
<1>4. T \ {q} = {}
  BY <1>3, FS_EmptySet
<1> QED
  BY <1>2, <1>4

\* Setting fields of a writer.
LEMMA SetWriter ==
    ASSUME NEW v \in Writers
    PROVE  /\ \A f \in Inodes \cup {0} :
                 [v EXCEPT !.fd = f] \in Writers /\ [v EXCEPT !.fd = f].fd = f
           /\ \A k \in {"zero", "cycle", "final"} :
                 [v EXCEPT !.kind = k] \in Writers /\ [v EXCEPT !.kind = k].fd = v.fd
           /\ \A c \in Nat : LET u == [v EXCEPT !.kind = "cycle", !.cycles = c]
                             IN u \in Writers /\ u.fd = v.fd
BY DEF Writers

Failed(v, b, c, f) == [v EXCEPT !.record = b, !.cycles = c, !.fd = f]
\* A failed write: recording may end and no cycle is left.
LEMMA FailWriter ==
    ASSUME NEW v \in Writers, NEW b \in BOOLEAN, NEW c \in Nat, NEW f \in Inodes \cup {0}
    PROVE  Failed(v, b, c, f) \in Writers /\ Failed(v, b, c, f).fd = f
BY DEF Writers, Failed

\* Process p goes to step l with descriptor f; the other processes stay.
Moves(p, l, f) ==
    /\ setup' = setup
    /\ pc' \in [Procs -> Steps] /\ w' \in [Procs -> Writers]
    /\ pc'[p] = l /\ w'[p].fd = f
    /\ \A q \in Procs : q # p => pc'[q] = pc[q] /\ w'[q].fd = w[q].fd

\* The shapes that the assignments to pc and w have.
LEMMA Shapes ==
    ASSUME ScrubType, setup' = setup, NEW p \in Procs, NEW l \in Steps, Goto(p, l)
    PROVE  /\ w' = w => Moves(p, l, w[p].fd)
           /\ \A f \in Inodes \cup {0} : w' = [w EXCEPT ![p].fd = f] => Moves(p, l, f)
           /\ \A f \in Inodes \cup {0} : FailedWith(p, f) => Moves(p, l, f)
           /\ \A k \in {"zero", "cycle", "final"} :
                 w' = [w EXCEPT ![p].kind = k] => Moves(p, l, w[p].fd)
           /\ w' = [w EXCEPT ![p].kind = "cycle", ![p].cycles = @ + 1] => Moves(p, l, w[p].fd)
<1>1. /\ pc' \in [Procs -> Steps] /\ pc'[p] = l
      /\ \A q \in Procs : q # p => pc'[q] = pc[q]
  BY DEF Goto, ScrubType
<1>2. w \in [Procs -> Writers] /\ w[p] \in Writers /\ w[p].cycles + 1 \in Nat /\ Cycles \in Nat
      /\ (w[p].kind # "zero") \in BOOLEAN
  <2>1. w \in [Procs -> Writers] /\ w[p] \in Writers
    BY Zenon DEF ScrubType
  <2>2. w[p].cycles + 1 \in Nat
    BY <2>1 DEF Writers
  <2>3. Cycles \in Nat
    BY ScrubFileAssumption DEF Cycles, ScrubType
  <2> QED
    BY <2>1, <2>2, <2>3
<1>3. ASSUME NEW v \in Writers, w' = [w EXCEPT ![p] = v]
      PROVE  Moves(p, l, v.fd)
  BY <1>1, <1>2, <1>3 DEF Moves
<1>4. w' = w => Moves(p, l, w[p].fd)
  BY <1>1, <1>2 DEF Moves
<1>5. ASSUME NEW f \in Inodes \cup {0}, w' = [w EXCEPT ![p].fd = f] PROVE Moves(p, l, f)
  <2> DEFINE v == [w[p] EXCEPT !.fd = f]
  <2>1. w' = [w EXCEPT ![p] = v]
    BY <1>5, Zenon
  <2>2. v \in Writers /\ v.fd = f
    BY <1>2, SetWriter, Zenon
  <2> QED
    BY <1>3, <2>1, <2>2, Zenon
<1>6. ASSUME NEW f \in Inodes \cup {0}, FailedWith(p, f) PROVE Moves(p, l, f)
  <2>1. w' = [w EXCEPT ![p] = Failed(w[p], w[p].kind # "zero", Cycles, f)]
    BY <1>6, Zenon DEF FailedWith, Failed
  <2>2. PICK b \in BOOLEAN : w' = [w EXCEPT ![p] = Failed(w[p], b, Cycles, f)]
    BY <1>2, <2>1, Zenon
  <2>3. Failed(w[p], b, Cycles, f) \in Writers /\ Failed(w[p], b, Cycles, f).fd = f
    BY <1>2, FailWriter
  <2> QED
    BY <1>3, <2>2, <2>3, Zenon
<1>7. ASSUME NEW k \in {"zero", "cycle", "final"}, w' = [w EXCEPT ![p].kind = k]
      PROVE  Moves(p, l, w[p].fd)
  <2> DEFINE v == [w[p] EXCEPT !.kind = k]
  <2>1. w' = [w EXCEPT ![p] = v]
    BY <1>7, Zenon
  <2>2. v \in Writers /\ v.fd = w[p].fd
    BY <1>2, SetWriter
  <2> QED
    BY <1>3, <2>1, <2>2, Zenon
<1>8. ASSUME w' = [w EXCEPT ![p].kind = "cycle", ![p].cycles = @ + 1]
      PROVE  Moves(p, l, w[p].fd)
  <2> DEFINE c == w[p].cycles + 1
             v == [w[p] EXCEPT !.kind = "cycle", !.cycles = c]
  <2>1. w' = [w EXCEPT ![p] = v]
    BY <1>2, <1>8 DEF Writers
  <2>2. c \in Nat
    BY <1>2
  <2> HIDE DEF c
  <2>3. v \in Writers /\ v.fd = w[p].fd
    BY <1>2, <2>2, SetWriter, Zenon
  <2> QED
    BY <1>3, <2>1, <2>3, Zenon
<1> QED
  BY <1>4, <1>5, <1>6, <1>7, <1>8, Zenon

-----------------------------------------------------------------------------
(* The steps *)

\* Outside the two names, the locks and the contents: the socket, the fork and
\* the scrub itself.
LEMMA QuietInv ==
    ASSUME ScrubInv, NEW p \in Procs, NEW l \in Steps, Moves(p, l, w[p].fd),
           UNCHANGED <<data, tmp, flock, content, torn>>, result' \in [Procs -> Records],
           pc[p] = l \/ (pc[p] \notin Opened /\ l \notin Opened \cup {"begin"})
    PROVE  ScrubInv'
<1>1. ScrubType /\ LockInv /\ NameInv /\ PairInv /\ ~torn
  BY DEF ScrubInv
<1>2. /\ Procs' = Procs /\ pc'[p] = l
      /\ \A q \in Procs : w'[q].fd = w[q].fd
      /\ \A q \in Procs : q # p => pc'[q] = pc[q]
  BY DEF Moves, Procs
<1>3. ScrubType'
  BY <1>1, <1>2 DEF ScrubType, Moves
<1>4. \A q \in Procs : \/ pc'[q] = pc[q]
                       \/ pc[q] \notin Opened /\ pc'[q] \notin Opened \cup {"begin"}
  BY <1>2
<1>5. LockInv'
  BY <1>1, <1>2, <1>4 DEF LockInv, LocksEnd, Opened, Locked, ScrubType
<1>6. NameInv'
  BY <1>1, <1>2, <1>4 DEF NameInv, Opened, Locked, Writing
<1>7. PairInv'
  BY <1>1, <1>2, <1>4 DEF PairInv, Opened, Locked, Writing, Starting
<1> QED
  BY <1>1, <1>3, <1>5, <1>6, <1>7 DEF ScrubInv

\* The same for the actions.
LEMMA QuietSteps ==
    ASSUME ScrubInv, NEW p \in Procs,
           \/ Bind(p) \/ Listen(p) \/ Fork(p) \/ Scrub(p) \/ Finish(p) \/ Close(p) \/ Unlink(p)
           \/ Cycle(p) \/ ParentClose(p) \/ ParentUnlink(p)
    PROVE  ScrubInv'
<1>1. ScrubType /\ setup' = setup /\ UNCHANGED <<data, tmp, flock, content, torn>>
  BY DEF ScrubInv, Bind, Listen, Fork, Scrub, Finish, Close, Unlink, Cycle, ParentClose,
         ParentUnlink, Files
<1>2. result' \in [Procs -> Records]
  <2>1. CASE Scrub(p)
    <3>1. [d \in Devs |-> IF busy[d] = "none" THEN "done" ELSE "canceled"] \in Records
      BY DEF Records
    <3> QED
      BY <1>1, <2>1, <3>1 DEF Scrub, ScrubType
  <2>2. CASE ~Scrub(p)
    BY <1>1, <2>2 DEF Bind, Listen, Fork, Finish, Close, Unlink, Cycle, ParentClose,
       ParentUnlink, ScrubType
  <2> QED
    BY <2>1, <2>2
<1>3. ASSUME pc' = pc, w' = w PROVE ScrubInv'
  <2>1. Moves(p, pc[p], w[p].fd) /\ pc[p] \in Steps
    BY <1>1, <1>3 DEF Moves, ScrubType
  <2> QED
    BY <1>1, <1>2, <2>1, QuietInv
<1>4. ASSUME NEW l \in Steps, Goto(p, l), Moves(p, l, w[p].fd),
             pc[p] \notin Opened, l \notin Opened \cup {"begin"}
      PROVE  ScrubInv'
  BY <1>1, <1>2, <1>4, QuietInv
<1>5. CASE \/ Listen(p) \/ Fork(p) \/ Scrub(p) \/ Close(p) \/ Unlink(p)
  <2>1. PICK l \in {"open", "scrub", "running", "unlink", "exit"} :
            Goto(p, l) /\ w' = w /\ pc[p] \in {"listen", "fork", "scrub", "end", "unlink"}
    BY <1>5 DEF Listen, Fork, Scrub, Close, Unlink
  <2>2. l \in Steps /\ pc[p] \notin Opened /\ l \notin Opened \cup {"begin"}
    BY <2>1 DEF Steps, Opened, Locked
  <2> QED
    BY <1>1, <1>4, <2>1, <2>2, Shapes
<1>6. CASE Finish(p) \/ Cycle(p)
  <2>1. PICK l \in {"open", "end"} : Goto(p, l) /\ pc[p] = "running"
    BY <1>6 DEF Finish, Cycle
  <2>2. l \in Steps /\ pc[p] \notin Opened /\ l \notin Opened \cup {"begin"}
    BY <2>1 DEF Steps, Opened, Locked
  <2>3. Moves(p, l, w[p].fd)
    <3>1. \/ w' = [w EXCEPT ![p].kind = "final"]
          \/ w' = [w EXCEPT ![p].kind = "cycle", ![p].cycles = @ + 1]
      BY <1>6, Zenon DEF Finish, Cycle
    <3> QED
      BY <1>1, <2>1, <2>2, <3>1, Shapes, Zenon
  <2> QED
    BY <1>4, <2>1, <2>2, <2>3
<1>7. CASE Bind(p)
  <2>1. \/ pc' = pc
        \/ pc[p] = "bind" /\ \E l \in {"listen", "exit"} : Goto(p, l)
    BY <1>7, Zenon DEF Bind
  <2>2. w' = w
    BY <1>7 DEF Bind
  <2>3. CASE pc[p] = "bind" /\ \E l \in {"listen", "exit"} : Goto(p, l)
    <3>1. PICK l \in {"listen", "exit"} : Goto(p, l)
      BY <2>3
    <3>2. l \in Steps /\ pc[p] \notin Opened /\ l \notin Opened \cup {"begin"}
      BY <2>3 DEF Steps, Opened, Locked
    <3> QED
      BY <1>1, <1>4, <2>2, <3>1, <3>2, Shapes
  <2> QED
    BY <1>3, <2>1, <2>2, <2>3
<1>8. CASE ParentClose(p) \/ ParentUnlink(p)
  BY <1>3, <1>8 DEF ParentClose, ParentUnlink
<1> QED
  BY <1>5, <1>6, <1>7, <1>8

\* Opening the status file to read it.
LEMMA OpenRInv ==
    ASSUME ScrubInv, NEW p \in Procs, OpenR(p)
    PROVE  ScrubInv'
<1>1. /\ ScrubType /\ LockInv /\ NameInv /\ PairInv /\ ~torn
      /\ setup' = setup /\ UNCHANGED <<tmp, data, flock, content, torn, result>>
      /\ Procs' = Procs
  BY DEF ScrubInv, OpenR, Files, Procs
<1> DEFINE l == IF data = 0 THEN "bind" ELSE "rlock"
<1>2. Moves(p, l, data) /\ pc[p] = "begin"
  <2>1. l \in Steps /\ data \in Inodes \cup {0}
    BY <1>1 DEF Steps, ScrubType
  <2> QED
    BY <1>1, <2>1, Shapes DEF OpenR
<1>3. ScrubType'
  BY <1>1, <1>2 DEF ScrubType, Moves
<1>4. LockInv'
  BY <1>1, <1>2 DEF LockInv, LocksEnd, Opened, Locked, ScrubType, Moves
<1>5. NameInv'
  BY <1>1, <1>2, Names DEF NameInv, Writing, Moves, ScrubType
<1>6. PairInv'
  BY <1>1, <1>2, Names DEF PairInv, Writing, Starting, Moves
<1> QED
  BY <1>1, <1>3, <1>4, <1>5, <1>6 DEF ScrubInv

\* Locking it, or doing without the past scrubs.
LEMMA RLockInv ==
    ASSUME ScrubInv, NEW p \in Procs, RLock(p)
    PROVE  ScrubInv'
<1>1. /\ ScrubType /\ LockInv /\ NameInv /\ PairInv /\ ~torn
      /\ setup' = setup /\ UNCHANGED <<tmp, data, content, torn, result>>
      /\ Procs' = Procs /\ "none" \notin Procs /\ 0 \notin Inodes
  BY Names DEF ScrubInv, RLock, Procs
<1>2. pc[p] = "rlock" /\ w[p].fd \in Inodes
  BY <1>1 DEF RLock, LockInv, Opened
<1>3. CASE flock[w[p].fd] = "none"
  <2>1. Moves(p, "read", w[p].fd) /\ flock' = [flock EXCEPT ![w[p].fd] = p]
    BY <1>1, <1>3, Shapes DEF RLock, Steps
  <2>2. ScrubType'
    BY <1>1, <1>2, <2>1 DEF ScrubType, Moves
  <2>3. LockInv'
    BY <1>1, <1>2, <1>3, <2>1 DEF LockInv, LocksEnd, Opened, Locked, ScrubType, Moves
  <2>4. NameInv'
    BY <1>1, <1>2, <2>1 DEF NameInv, Writing, Moves
  <2>5. PairInv'
    BY <1>1, <1>2, <2>1 DEF PairInv, Writing, Starting, Moves
  <2> QED
    BY <1>1, <2>2, <2>3, <2>4, <2>5 DEF ScrubInv
<1>4. CASE flock[w[p].fd] # "none"
  <2>1. Moves(p, "bind", 0) /\ flock' = flock
    BY <1>1, <1>4, Shapes DEF RLock, Steps
  <2>2. ScrubType'
    BY <1>1, <1>2, <2>1 DEF ScrubType, Moves
  <2>3. LockInv'
    BY <1>1, <1>2, <1>4, <2>1 DEF LockInv, LocksEnd, Opened, Locked, ScrubType, Moves
  <2>4. NameInv'
    BY <1>1, <1>2, <2>1 DEF NameInv, Writing, Moves
  <2>5. PairInv'
    BY <1>1, <1>2, <2>1 DEF PairInv, Writing, Starting, Moves
  <2> QED
    BY <1>1, <2>2, <2>3, <2>4, <2>5 DEF ScrubInv
<1> QED
  BY <1>3, <1>4

\* Reading and closing it: the reader holds the lock, so the file is not half
\* written.
LEMMA ReadPastInv ==
    ASSUME ScrubInv, NEW p \in Procs, ReadPast(p)
    PROVE  ScrubInv'
<1>1. /\ ScrubType /\ LockInv /\ NameInv /\ PairInv /\ ~torn
      /\ setup' = setup /\ UNCHANGED <<tmp, data, content, result>>
      /\ Procs' = Procs /\ "none" \notin Procs /\ 0 \notin Inodes
  BY Names DEF ScrubInv, ReadPast, Procs
<1>2. pc[p] = "read" /\ w[p].fd \in Inodes /\ flock[w[p].fd] = p
  BY <1>1 DEF ReadPast, LockInv, Opened, Locked
<1>3. ~torn' /\ flock' = [flock EXCEPT ![w[p].fd] = "none"]
  BY <1>1, <1>2 DEF ReadPast, LockInv
<1>4. PICK l \in {"exit", "bind"} : Moves(p, l, 0)
  BY <1>1, Shapes DEF ReadPast, Steps
<1>5. ScrubType'
  BY <1>1, <1>2, <1>3, <1>4 DEF ScrubType, Moves
<1>6. LockInv'
  BY <1>1, <1>2, <1>3, <1>4 DEF LockInv, LocksEnd, Opened, Locked, ScrubType, Moves
<1>7. NameInv'
  BY <1>1, <1>2, <1>4 DEF NameInv, Writing, Moves
<1>8. PairInv'
  BY <1>1, <1>2, <1>4 DEF PairInv, Writing, Starting, Moves
<1> QED
  BY <1>1, <1>3, <1>5, <1>6, <1>7, <1>8 DEF ScrubInv

\* Opening the temporary file, or creating it.
LEMMA WOpenInv ==
    ASSUME ScrubInv, NEW p \in Procs, WOpen(p)
    PROVE  ScrubInv'
<1>1. /\ ScrubType /\ LockInv /\ NameInv /\ PairInv /\ ~torn
      /\ setup' = setup /\ UNCHANGED <<data, flock, torn, result>>
      /\ Procs' = Procs /\ "none" \notin Procs /\ 0 \notin Inodes /\ pc[p] = "open"
  BY Names DEF ScrubInv, WOpen, Procs
<1>2. CASE tmp # 0
  <2>1. Moves(p, "lock", tmp) /\ UNCHANGED <<tmp, content>> /\ tmp \in Inodes
    <3>1. w' = [w EXCEPT ![p].fd = tmp] /\ Goto(p, "lock") /\ UNCHANGED <<tmp, content>>
      BY <1>2, Zenon DEF WOpen
    <3> QED
      BY <1>1, <1>2, <3>1, Shapes DEF ScrubType, Steps
  <2>2. ScrubType'
    BY <1>1, <2>1 DEF ScrubType, Moves
  <2>3. LockInv'
    BY <1>1, <2>1 DEF LockInv, LocksEnd, Opened, Locked, ScrubType, Moves
  <2>4. NameInv'
    BY <1>1, <2>1 DEF NameInv, Writing, Moves
  <2>5. PairInv'
    BY <1>1, <1>2, <2>1 DEF PairInv, NameInv, Writing, Starting, Moves
  <2> QED
    BY <1>1, <2>2, <2>3, <2>4, <2>5 DEF ScrubInv
<1>3. CASE tmp = 0
  <2>1. PICK i \in Inodes : /\ Free(i) /\ tmp' = i /\ w' = [w EXCEPT ![p].fd = i]
                            /\ content' = [content EXCEPT ![i] = [state |-> "empty", rec |-> NoRecs]]
                            /\ Goto(p, "lock")
    BY <1>3, Zenon DEF WOpen
  <2>2. Moves(p, "lock", i)
    BY <1>1, <2>1, Shapes DEF Steps
  <2>3. ScrubType'
    BY <1>1, <2>1, <2>2 DEF ScrubType, Moves, Contents, NoRecs, Records
  <2>4. /\ i # data /\ \A q \in Procs : w[q].fd # i
        /\ content'[i].state = "empty" /\ \A j \in Inodes : j # i => content'[j] = content[j]
    BY <1>1, <2>1 DEF Free, ScrubType
  <2>5. LockInv'
    BY <1>1, <2>2, <2>4 DEF LockInv, LocksEnd, Opened, Locked, ScrubType, Moves
  <2>6. NameInv'
    BY <1>1, <2>1, <2>2, <2>4 DEF NameInv, LockInv, Opened, Locked, Writing, Moves
  <2>7. PairInv'
    BY <1>1, <2>1, <2>2, <2>4 DEF PairInv, Writing, Starting, Moves, ScrubType
  <2> QED
    BY <1>1, <2>3, <2>5, <2>6, <2>7 DEF ScrubInv
<1> QED
  BY <1>2, <1>3

\* Locking it, or giving the write up.
LEMMA WLockInv ==
    ASSUME ScrubInv, NEW p \in Procs, WLock(p)
    PROVE  ScrubInv'
<1>1. /\ ScrubType /\ LockInv /\ NameInv /\ PairInv /\ ~torn
      /\ setup' = setup /\ UNCHANGED <<tmp, data, content, torn, result>>
      /\ Procs' = Procs /\ "none" \notin Procs /\ 0 \notin Inodes
  BY Names DEF ScrubInv, WLock, Procs
<1>2. pc[p] = "lock" /\ w[p].fd \in Inodes
  BY <1>1 DEF WLock, LockInv, Opened
<1>3. CASE flock[w[p].fd] = "none"
  <2>1. Moves(p, "write", w[p].fd) /\ flock' = [flock EXCEPT ![w[p].fd] = p]
    BY <1>1, <1>3, Shapes DEF WLock, Steps
  <2>2. ScrubType'
    BY <1>1, <1>2, <2>1 DEF ScrubType, Moves
  <2>3. LockInv'
    BY <1>1, <1>2, <1>3, <2>1 DEF LockInv, LocksEnd, Opened, Locked, ScrubType, Moves
  <2>4. NameInv'
    BY <1>1, <1>2, <2>1 DEF NameInv, Writing, Moves
  <2>5. PairInv'
    BY <1>1, <1>2, <1>3, <2>1 DEF PairInv, LockInv, Locked, Writing, Starting, Moves
  <2> QED
    BY <1>1, <2>2, <2>3, <2>4, <2>5 DEF ScrubInv
<1>4. CASE flock[w[p].fd] # "none"
  <2>1. PICK l \in {"fork", "running", "end"} : Moves(p, l, 0) /\ flock' = flock
    <3>1. After(p) \in {"fork", "running", "end"} /\ After(p) \in Steps
      BY DEF After, Steps
    <3>2. FailedWith(p, 0) /\ Goto(p, After(p)) /\ flock' = flock
      BY <1>4, Zenon DEF WLock
    <3> QED
      BY <1>1, <3>1, <3>2, Shapes
  <2>2. ScrubType'
    BY <1>1, <1>2, <2>1 DEF ScrubType, Moves
  <2>3. LockInv'
    BY <1>1, <1>2, <1>4, <2>1 DEF LockInv, LocksEnd, Opened, Locked, ScrubType, Moves
  <2>4. /\ flock[w[p].fd] \in Procs /\ flock[w[p].fd] # p /\ w[flock[w[p].fd]].fd = w[p].fd
        /\ pc[flock[w[p].fd]] \in Locked
    BY <1>1, <1>2, <1>4 DEF LockInv, LocksEnd, Locked, ScrubType
  <2>5. NameInv'
    <3>1. \A q \in Procs : pc'[q] \in {"rlock", "read", "rename", "close"}
             => pc[q] = pc'[q] /\ w'[q].fd = w[q].fd
      BY <1>2, <2>1 DEF Moves
    <3>2. tmp # 0 /\ content[tmp].state # "whole"
             => \E q \in Procs : w'[q].fd = tmp /\ pc'[q] \in Writing
      BY <1>1, <1>2, <2>1, <2>4 DEF NameInv, Locked, Writing, Moves
    <3> QED
      BY <1>1, <3>1, <3>2 DEF NameInv
  <2>6. PairInv'
    BY <1>1, <1>2, <2>1, <2>4 DEF PairInv, NameInv, Locked, Writing, Starting, Moves
  <2> QED
    BY <1>1, <2>2, <2>3, <2>5, <2>6 DEF ScrubInv
<1> QED
  BY <1>3, <1>4

\* Starting to write, under the lock.
LEMMA WWriteInv ==
    ASSUME ScrubInv, NEW p \in Procs, WWrite(p)
    PROVE  ScrubInv'
<1>1. /\ ScrubType /\ LockInv /\ NameInv /\ PairInv /\ ~torn
      /\ setup' = setup /\ UNCHANGED <<tmp, data, flock, torn, result>>
      /\ Procs' = Procs /\ "none" \notin Procs /\ 0 \notin Inodes
  BY Names DEF ScrubInv, WWrite, Procs
<1>2. /\ pc[p] = "write" /\ w[p].fd \in Inodes /\ flock[w[p].fd] = p
      /\ \A q \in Procs : q # p /\ pc[q] \in Locked => w[q].fd # w[p].fd
  BY <1>1 DEF WWrite, LockInv, Opened, Locked
<1>3. Moves(p, "written", w[p].fd)
  BY <1>1, Shapes DEF WWrite, Steps
<1>4. /\ content' \in [Inodes -> Contents] /\ content'[w[p].fd].state = "half"
      /\ \A i \in Inodes : i # w[p].fd => content'[i] = content[i]
  <2>1. content \in [Inodes -> Contents] /\ content[w[p].fd] \in Contents
    BY <1>1, <1>2 DEF ScrubType
  <2>2. [content[w[p].fd] EXCEPT !.state = "half"] \in Contents
        /\ [content[w[p].fd] EXCEPT !.state = "half"].state = "half"
    BY <2>1 DEF Contents
  <2> QED
    BY <1>2, <2>1, <2>2 DEF WWrite
<1>5. ScrubType'
  BY <1>1, <1>3, <1>4 DEF ScrubType, Moves
<1>6. LockInv'
  BY <1>1, <1>2, <1>3, <1>4 DEF LockInv, LocksEnd, Opened, Locked, ScrubType, Moves
<1>7. NameInv'
  <2>1. \A q \in Procs : pc'[q] \in {"rlock", "read", "rename", "close"}
           => pc[q] = pc'[q] /\ w'[q].fd = w[q].fd /\ q # p
    BY <1>3 DEF Moves
  <2>2. \A q \in Procs : pc'[q] \in {"rename", "close"} => content'[w'[q].fd].state = "whole"
    BY <1>1, <1>2, <1>4, <2>1 DEF NameInv, Locked, LockInv, Opened
  <2>3. tmp # 0 /\ content'[tmp].state # "whole"
           => \E q \in Procs : w'[q].fd = tmp /\ pc'[q] \in Writing
    <3>1. CASE tmp = w[p].fd
      BY <1>3, <3>1 DEF Moves, Writing
    <3>2. CASE tmp # w[p].fd
      BY <1>1, <1>2, <1>3, <1>4, <3>2 DEF NameInv, Moves, Writing, ScrubType
    <3> QED
      BY <3>1, <3>2
  <2> QED
    BY <1>1, <2>1, <2>2, <2>3 DEF NameInv
<1>8. PairInv'
  <2>1. ASSUME Cardinality(Procs) = 2, NEW q \in Procs, NEW r \in Procs,
               data # 0, w'[q].fd = data, pc'[q] \in Writing, r # q
        PROVE  /\ pc'[r] \notin Starting
               /\ w'[r].fd = data => pc'[r] = "close" /\ pc'[q] = "lock"
    <3>1. w[q].fd = data /\ w'[r].fd = w[r].fd /\ pc[q] \in Writing
          /\ (q # p => pc'[q] = pc[q]) /\ (r # p => pc'[r] = pc[r])
      BY <1>2, <1>3, <2>1 DEF Moves, Writing
    <3>2. /\ pc[r] \notin Starting
          /\ w[r].fd = data => pc[r] = "close" /\ pc[q] = "lock"
      BY <1>1, <2>1, <3>1 DEF PairInv
    <3>3. pc'[p] = "written"
      BY <1>3 DEF Moves
    <3> QED
      BY <1>2, <3>1, <3>2, <3>3 DEF Starting
  <2>2. data # 0 /\ content'[data].state # "whole" /\ Cardinality(Procs) = 2
           => \E q \in Procs : w'[q].fd = data /\ pc'[q] \in Writing
    <3>1. CASE data = w[p].fd
      BY <1>3, <3>1 DEF Moves, Writing
    <3>2. CASE data # w[p].fd
      BY <1>1, <1>2, <1>3, <1>4, <3>2 DEF PairInv, Moves, Writing, ScrubType
    <3> QED
      BY <3>1, <3>2
  <2> QED
    BY <1>1, <2>1, <2>2 DEF PairInv
<1> QED
  BY <1>1, <1>5, <1>6, <1>7, <1>8 DEF ScrubInv

\* The file is complete.
LEMMA WWrittenInv ==
    ASSUME ScrubInv, NEW p \in Procs, WWritten(p)
    PROVE  ScrubInv'
<1>1. /\ ScrubType /\ LockInv /\ NameInv /\ PairInv /\ ~torn
      /\ setup' = setup /\ UNCHANGED <<tmp, data, flock, torn, result>>
      /\ Procs' = Procs /\ "none" \notin Procs /\ 0 \notin Inodes
  BY Names DEF ScrubInv, WWritten, Procs
<1>2. /\ pc[p] = "written" /\ w[p].fd \in Inodes /\ flock[w[p].fd] = p
      /\ \A q \in Procs : q # p /\ pc[q] \in Locked => w[q].fd # w[p].fd
  BY <1>1 DEF WWritten, LockInv, Opened, Locked
<1>3. Moves(p, "rename", w[p].fd)
  BY <1>1, Shapes DEF WWritten, Steps
<1>4. /\ content' \in [Inodes -> Contents] /\ content'[w[p].fd].state = "whole"
      /\ \A i \in Inodes : i # w[p].fd => content'[i] = content[i]
  <2>1. content \in [Inodes -> Contents] /\ Written(p) \in Records
    BY <1>1 DEF ScrubType, Written, Records
  <2>2. [state |-> "whole", rec |-> Written(p)] \in Contents
    BY <2>1 DEF Contents
  <2> QED
    BY <1>2, <2>1, <2>2 DEF WWritten
<1>5. ScrubType'
  BY <1>1, <1>3, <1>4 DEF ScrubType, Moves
<1>6. LockInv'
  BY <1>1, <1>2, <1>3, <1>4 DEF LockInv, LocksEnd, Opened, Locked, ScrubType, Moves
<1>7. NameInv'
  BY <1>1, <1>2, <1>3, <1>4 DEF NameInv, Locked, LockInv, Opened, Moves, Writing, ScrubType
<1>8. PairInv'
  BY <1>1, <1>2, <1>3, <1>4 DEF PairInv, Moves, Writing, Starting, ScrubType
<1> QED
  BY <1>1, <1>5, <1>6, <1>7, <1>8 DEF ScrubInv

\* Closing it.
LEMMA WCloseInv ==
    ASSUME ScrubInv, NEW p \in Procs, WClose(p)
    PROVE  ScrubInv'
<1>1. /\ ScrubType /\ LockInv /\ NameInv /\ PairInv /\ ~torn
      /\ setup' = setup /\ UNCHANGED <<tmp, data, content, torn, result>>
      /\ Procs' = Procs /\ "none" \notin Procs /\ 0 \notin Inodes
  BY Names DEF ScrubInv, WClose, Procs
<1>2. pc[p] = "close" /\ w[p].fd \in Inodes /\ flock[w[p].fd] = p
  BY <1>1 DEF WClose, LockInv, Opened, Locked
<1>3. PICK l \in {"fork", "running", "end"} : Moves(p, l, 0)
  <2>1. After(p) \in {"fork", "running", "end"} /\ After(p) \in Steps
    BY DEF After, Steps
  <2> QED
    BY <1>1, <2>1, Shapes DEF WClose
<1>4. flock' = [flock EXCEPT ![w[p].fd] = "none"]
  BY DEF WClose
<1>5. ScrubType'
  BY <1>1, <1>2, <1>3, <1>4 DEF ScrubType, Moves
<1>6. LockInv'
  BY <1>1, <1>2, <1>3, <1>4 DEF LockInv, LocksEnd, Opened, Locked, ScrubType, Moves
<1>7. NameInv'
  BY <1>1, <1>2, <1>3 DEF NameInv, Writing, Moves
<1>8. PairInv'
  BY <1>1, <1>2, <1>3 DEF PairInv, Writing, Starting, Moves
<1> QED
  BY <1>1, <1>5, <1>6, <1>7, <1>8 DEF ScrubInv

\* rename, which moves whatever has the temporary name.
LEMMA WRenameInv ==
    ASSUME ScrubInv, NEW p \in Procs, WRename(p)
    PROVE  ScrubInv'
<1>1. /\ ScrubType /\ LockInv /\ NameInv /\ PairInv /\ ~torn
      /\ setup' = setup /\ UNCHANGED <<flock, content, torn, result>>
      /\ Procs' = Procs /\ "none" \notin Procs /\ 0 \notin Inodes
  BY Names DEF ScrubInv, WRename, Procs
<1>2. /\ pc[p] = "rename" /\ w[p].fd \in Inodes /\ flock[w[p].fd] = p
      /\ \A q \in Procs : q # p /\ pc[q] \in Locked => w[q].fd # w[p].fd
  BY <1>1 DEF WRename, LockInv, Opened, Locked
<1>3. Moves(p, "close", w[p].fd)
  <2>1. Goto(p, "close") /\ (w' = w \/ FailedWith(p, w[p].fd))
    BY DEF WRename
  <2> QED
    BY <1>1, <1>2, <2>1, Shapes DEF Steps
<1>4. LockInv'
  BY <1>1, <1>2, <1>3 DEF LockInv, LocksEnd, Opened, Locked, ScrubType, Moves
<1>5. CASE tmp # 0
  <2>1. data' = tmp /\ tmp' = 0 /\ tmp \in Inodes
    BY <1>1, <1>5 DEF WRename, ScrubType
  <2>2. ScrubType'
    BY <1>1, <1>3, <2>1 DEF ScrubType, Moves
  <2>3. NameInv'
    BY <1>1, <1>2, <1>3, <1>4, <2>1 DEF NameInv, LockInv, Opened, Locked, Moves
  <2>4. ASSUME Cardinality(Procs) = 2 PROVE \A q, r \in Procs : r # q /\ q # p => r = p
    BY <1>1, <2>4, Names, OnlyTwo
  <2>5. PairInv'
    <3>1. ASSUME Cardinality(Procs) = 2, NEW q \in Procs, NEW r \in Procs,
                 w'[q].fd = tmp, pc'[q] \in Writing, r # q
          PROVE  /\ pc'[r] \notin Starting
                 /\ w'[r].fd = tmp => pc'[r] = "close" /\ pc'[q] = "lock"
      <4>1. q # p /\ w[q].fd = tmp /\ pc'[q] = pc[q] /\ r = p
        BY <1>3, <2>4, <3>1 DEF Moves, Writing
      <4>2. pc'[r] = "close" /\ w'[r].fd = w[p].fd
        BY <1>3, <4>1 DEF Moves
      <4> QED
        BY <1>2, <3>1, <4>1, <4>2 DEF Starting, Writing, Locked
    <3>2. content[tmp].state # "whole"
             => \E q \in Procs : w'[q].fd = tmp /\ pc'[q] \in Writing
      BY <1>1, <1>2, <1>3, <1>5 DEF NameInv, Moves, Writing
    <3> QED
      BY <1>1, <2>1, <3>1, <3>2 DEF PairInv
  <2> QED
    BY <1>1, <1>4, <2>2, <2>3, <2>5 DEF ScrubInv
<1>6. CASE tmp = 0
  <2>1. UNCHANGED <<data, tmp>>
    BY <1>6 DEF WRename
  <2>2. ScrubType'
    BY <1>1, <1>3, <2>1 DEF ScrubType, Moves
  <2>3. NameInv'
    BY <1>1, <1>2, <1>3, <1>6, <2>1 DEF NameInv, Moves, LockInv, Opened, Locked
  <2>4. PairInv'
    BY <1>1, <1>2, <1>3, <2>1 DEF PairInv, Moves, Writing, Starting
  <2> QED
    BY <1>1, <1>4, <2>2, <2>3, <2>4 DEF ScrubInv
<1> QED
  BY <1>5, <1>6

-----------------------------------------------------------------------------
(* The theorems *)

\* When the scrubs start no file exists.
LEMMA ScrubInit == Init => ScrubInv
<1> SUFFICES ASSUME Init PROVE ScrubInv
  OBVIOUS
<1>1. ScrubType
  BY ScrubFileAssumption DEF Init, ScrubType, Procs, Writers, Contents, NoRecs, Records, Steps
<1>2. LockInv
  BY DEF Init, LockInv, LocksEnd, Opened, Locked
<1>3. NameInv /\ PairInv
  BY DEF Init, NameInv, PairInv
<1> QED
  BY <1>1, <1>2, <1>3 DEF ScrubInv, Init

\* Every step of every process keeps the invariant.
LEMMA ScrubNext == ScrubInv /\ [Next]_vars => ScrubInv'
<1> SUFFICES ASSUME ScrubInv, [Next]_vars PROVE ScrubInv'
  OBVIOUS
<1>1. CASE Next
  <2>1. PICK p \in Procs : Process(p) \/ Cycle(p) \/ ParentClose(p) \/ ParentUnlink(p)
    BY <1>1 DEF Next
  <2> QED
    BY <2>1, QuietSteps, OpenRInv, RLockInv, ReadPastInv, WOpenInv, WLockInv, WWriteInv,
       WWrittenInv, WRenameInv, WCloseInv, Zenon DEF Process
<1>2. CASE UNCHANGED vars
  BY <1>2, SMTT(30) DEF vars, ScrubInv, ScrubType, LockInv, LocksEnd, NameInv, PairInv, Procs
<1> QED
  BY <1>1, <1>2

\* No process ever reads a status file that another is in the middle of
\* writing, and a lock ends with the read or the write it was taken for,
\* whatever the number of scrub processes.
THEOREM ReadersSafe == Spec => []ReadersNeverHalf
<1>1. ScrubInv => ReadersNeverHalf
  BY DEF ScrubInv, LockInv, ReadersNeverHalf
<1> QED
  BY <1>1, ScrubInit, ScrubNext, PTL DEF Spec

\* When two scrubs have ended, the status file they leave is a complete one.
THEOREM PairLeavesWhole == Spec => []FileWhole
<1>1. ScrubInv => FileWhole
  BY DEF ScrubInv, PairInv, FileWhole, AllExited, Writing
<1> QED
  BY <1>1, ScrubInit, ScrubNext, PTL DEF Spec
=============================================================================

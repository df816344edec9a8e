------------------------------- MODULE Scrub -------------------------------
(***************************************************************************)
(* btrfs scrub start, resume and cancel (cmds-scrub.c): the main thread,   *)
(* one thread per device that sits in the scrub ioctl, the progress thread *)
(* that rewrites the status file every five seconds, and the status file,  *)
(* which the next start or resume reads.  The kernel's scrub of a device   *)
(* is external: it goes through the device's blocks in order.              *)
(***************************************************************************)
EXTENDS Integers, FiniteSets

CONSTANTS
    MaxDevs,    \* devices are 1 .. MaxDevs
    FirstDevs,  \* number of devices in the beginning
    Size,       \* number of blocks of a device
    MaxRuns,    \* bound on the number of starts and resumes
    Fails,      \* whether the scrub ioctl may fail (device missing)
    Crashes     \* whether the machine may stop

VARIABLES
    ndev,       \* fi_args.num_devices
    file,       \* status file: device -> record
    main,       \* main thread: [pc, i]
    sp,         \* struct scrub_progress of every device
    dev,        \* pc of scrub_one_dev for every device
    prog,       \* scrub_progress_cycle: [pc, i, this, buf]
    cancel,     \* pthread_cancel was called on the progress thread
    mutex,      \* owner of spc_write_mutex
    kernel,     \* device -> [state, next, last, bytes]
    runs,       \* starts and resumes so far
    checked,    \* history: device -> blocks checked in this scrub cycle
    outcome,    \* history: device -> how its last ioctl ended
    crashed     \* history: a crash came in this start and its resumes

vars == <<ndev, file, main, sp, dev, prog, cancel, mutex, kernel, runs, checked, outcome, crashed>>
Threads == <<sp, dev, prog, cancel, mutex>>
History == <<checked, outcome, crashed>>
Devs == 1 .. MaxDevs
Here == 1 .. ndev

\* What a line of the status file keeps: last_physical, the bytes scrubbed
\* and the flags.
Rec(pos, bytes, fin, can) == [pos |-> pos, bytes |-> bytes, finished |-> fin, canceled |-> can]
ZeroRec == Rec(0, 0, FALSE, FALSE)
NoRec == [pos |-> 0, bytes |-> 0, finished |-> TRUE, canceled |-> TRUE, none |-> TRUE]

\* struct scrub_progress after calloc.
NewSp == [p |-> ZeroRec, start |-> 0, skip |-> FALSE, resumed |-> NoRec]
Idle == [state |-> "idle", next |-> 0, last |-> 0, bytes |-> 0]
NoProg == [pc |-> "none", i |-> 0, this |-> 0, buf |-> [b \in 0 .. 1 |-> [d \in Devs |-> NewSp]]]

\* scrub_resumed_stats: old and new result of a resumed scrub are added up,
\* last_physical too.
scrub_resumed_stats(s) ==
    IF s.resumed = NoRec \/ s.skip THEN s.p
    ELSE [s.p EXCEPT !.pos = s.resumed.pos + @, !.bytes = s.resumed.bytes + @]
\* scrub_write_file: one line for every device.
scrub_write_file(data) == [d \in Devs |-> IF d \in Here THEN scrub_resumed_stats(data[d]) ELSE NoRec]

-----------------------------------------------------------------------------
(* Main thread: scrub_start *)

\* is_scrub_running_on_fs
Running(d) == file[d] # NoRec /\ ~(file[d].finished \/ file[d].canceled)
is_scrub_running_on_fs == \E d \in Here : Running(d)

\* What the loop over the devices does for start and for resume.
Setup(resume, d) ==
    IF ~resume THEN NewSp
    ELSE IF file[d] # NoRec /\ (file[d].canceled \/ ~file[d].finished)
    THEN [NewSp EXCEPT !.start = file[d].pos, !.resumed = file[d]]
    ELSE [NewSp EXCEPT !.skip = TRUE, !.resumed = file[d]]

\* Up to the fork: read the status file, refuse or set up the devices, and
\* "write all-zero progress file for a start".
scrub_start(resume) ==
    /\ main.pc \in {"exit", "down"} /\ runs < MaxRuns
    /\ ~is_scrub_running_on_fs
    /\ \E d \in Here : ~Setup(resume, d).skip
    /\ sp' = [d \in Devs |-> IF d \in Here THEN Setup(resume, d) ELSE NewSp]
    /\ file' = [d \in Devs |-> IF d \in Here THEN scrub_resumed_stats(Setup(resume, d)) ELSE NoRec]
    /\ checked' = IF resume THEN checked ELSE [d \in Devs |-> {}]
    /\ outcome' = [d \in Devs |-> IF sp'[d].skip THEN outcome[d] ELSE "none"]
    /\ crashed' = (resume /\ crashed)
    /\ main' = [pc |-> "spawn", i |-> 1] /\ runs' = runs + 1
    /\ dev' = [d \in Devs |-> "none"] /\ prog' = NoProg /\ cancel' = FALSE /\ mutex' = "none"
    /\ UNCHANGED <<ndev, kernel>>

\* One turn of the loop that creates the device threads.
Spawn ==
    /\ main.pc = "spawn" /\ main.i \in Here
    /\ LET d == main.i IN
       \/ /\ ~sp[d].skip
          /\ dev' = [dev EXCEPT ![d] = "start"]
          /\ main' = [main EXCEPT !.i = @ + 1] /\ UNCHANGED sp
       \/ /\ sp[d].skip /\ sp[d].resumed # NoRec
          /\ sp' = [sp EXCEPT ![d].p = [sp[d].resumed EXCEPT !.finished = TRUE]]
          /\ main' = [main EXCEPT !.i = @ + 1] /\ UNCHANGED dev
       \/ /\ sp[d].skip /\ sp[d].resumed = NoRec    \* sp[i].resumed is NULL
          /\ main' = [main EXCEPT !.pc = "fault"] /\ UNCHANGED <<sp, dev>>
    /\ UNCHANGED <<ndev, file, prog, cancel, mutex, kernel, runs, History>>

SpawnProgress ==
    /\ main.pc = "spawn" /\ main.i \notin Here
    /\ main' = [pc |-> "join", i |-> 1]
    /\ prog' = [NoProg EXCEPT !.pc = "init"]
    /\ UNCHANGED <<ndev, file, sp, dev, cancel, mutex, kernel, runs, History>>

Join ==
    /\ main.pc = "join" /\ main.i \in Here
    /\ sp[main.i].skip \/ dev[main.i] = "end"
    /\ main' = [main EXCEPT !.i = @ + 1]
    /\ UNCHANGED <<ndev, file, Threads, kernel, runs, History>>

CancelProgress ==
    /\ main.pc = "join" /\ main.i \notin Here
    /\ cancel' = TRUE /\ main' = [main EXCEPT !.pc = "join_prog"]
    /\ UNCHANGED <<ndev, file, sp, dev, prog, mutex, kernel, runs, History>>

\* Faulty variant: does not wait for the progress thread.
JoinNothing ==
    /\ main.pc = "join_prog" /\ main' = [main EXCEPT !.pc = "lock"]
    /\ UNCHANGED <<ndev, file, Threads, kernel, runs, History>>
JoinProgress ==
    /\ main.pc = "join_prog" /\ prog.pc = "dead"
    /\ main' = [main EXCEPT !.pc = "lock"]
    /\ UNCHANGED <<ndev, file, Threads, kernel, runs, History>>

\* scrub_write_progress of the result.
FinalLock ==
    /\ main.pc = "lock" /\ mutex = "none"
    /\ mutex' = "main" /\ main' = [main EXCEPT !.pc = "write"]
    /\ UNCHANGED <<ndev, file, sp, dev, prog, cancel, kernel, runs, History>>
FinalWrite ==
    /\ main.pc = "write"
    /\ file' = scrub_write_file(sp)
    /\ mutex' = "none" /\ main' = [main EXCEPT !.pc = "exit"]
    /\ UNCHANGED <<ndev, sp, dev, prog, cancel, kernel, runs, History>>

-----------------------------------------------------------------------------
(* Device threads: scrub_one_dev *)

DevStart(d) ==
    /\ dev[d] = "start"
    /\ sp' = [sp EXCEPT ![d].p.canceled = FALSE, ![d].p.finished = FALSE]
    /\ \/ /\ dev' = [dev EXCEPT ![d] = "ioctl"]
          /\ kernel' = [kernel EXCEPT ![d] = [Idle EXCEPT !.state = "run", !.next = sp[d].start]]
          /\ UNCHANGED outcome
       \/ /\ Fails /\ dev' = [dev EXCEPT ![d] = "failed"]     \* ENODEV
          /\ outcome' = [outcome EXCEPT ![d] = "failed"] /\ UNCHANGED kernel
    /\ UNCHANGED <<ndev, file, main, prog, cancel, mutex, runs, checked, crashed>>

\* Faulty variant: never returns from a canceled scrub.
DevReturnDone(d) ==
    /\ dev[d] = "ioctl" /\ kernel[d].state = "done"
    /\ sp' = [sp EXCEPT ![d].p.pos = kernel[d].last, ![d].p.bytes = kernel[d].bytes]
    /\ kernel' = [kernel EXCEPT ![d] = Idle]
    /\ dev' = [dev EXCEPT ![d] = "returned"]
    /\ UNCHANGED <<ndev, file, main, prog, cancel, mutex, runs, History>>
\* The ioctl returns: progress is copied out, canceled is set on an error.
DevReturn(d) ==
    /\ \/ /\ dev[d] = "ioctl" /\ kernel[d].state \in {"done", "stopped"}
          /\ sp' = [sp EXCEPT ![d].p.pos = kernel[d].last, ![d].p.bytes = kernel[d].bytes,
                              ![d].p.canceled = kernel[d].state = "stopped"]
       \/ /\ dev[d] = "failed"
          /\ sp' = [sp EXCEPT ![d].p.canceled = TRUE]
    /\ kernel' = [kernel EXCEPT ![d] = Idle]
    /\ dev' = [dev EXCEPT ![d] = "returned"]
    /\ UNCHANGED <<ndev, file, main, prog, cancel, mutex, runs, History>>

\* finished is set under progress_mutex, after everything else.
DevFinish(d) ==
    /\ dev[d] = "returned"
    /\ sp' = [sp EXCEPT ![d].p.finished = TRUE]
    /\ dev' = [dev EXCEPT ![d] = "end"]
    /\ UNCHANGED <<ndev, file, main, prog, cancel, mutex, kernel, runs, History>>

-----------------------------------------------------------------------------
(* Progress thread: scrub_progress_cycle *)

\* The copies taken in the beginning; of the result, finished only.
ProgInit ==
    /\ prog.pc = "init"
    /\ prog' = [prog EXCEPT !.pc = "poll", !.this = 1,
                  !.buf = [b \in 0 .. 1 |-> [d \in Devs |->
                             [sp[d] EXCEPT !.p = [ZeroRec EXCEPT !.finished = sp[d].p.finished]]]]]
    /\ UNCHANGED <<ndev, file, main, sp, dev, cancel, mutex, kernel, runs, History>>

\* The poll, a cancellation point, times out: the next cycle uses the other
\* buffer.
ProgPoll ==
    /\ prog.pc = "poll" /\ ~cancel
    /\ prog' = [prog EXCEPT !.pc = "devs", !.i = 1, !.this = 1 - @]
    /\ UNCHANGED <<ndev, file, main, sp, dev, cancel, mutex, kernel, runs, History>>

\* progress_one_dev: what the running kernel says; when the scrub is over, the
\* last value until finished is set, then the result.
Fetch(buf, this, d) ==
    IF buf[this][d].p.finished THEN buf
    ELSE IF kernel[d].state = "run"
    THEN [buf EXCEPT ![this][d].p.pos = kernel[d].last, ![this][d].p.bytes = kernel[d].bytes]
    ELSE IF ~sp[d].p.finished THEN [buf EXCEPT ![this][d] = buf[1 - this][d]]
    ELSE [buf EXCEPT ![0][d] = sp[d], ![1][d] = sp[d]]

ProgDev ==
    /\ prog.pc = "devs" /\ prog.i \in Here
    /\ prog' = [prog EXCEPT !.i = @ + 1, !.buf = Fetch(@, prog.this, prog.i)]
    /\ UNCHANGED <<ndev, file, main, sp, dev, cancel, mutex, kernel, runs, History>>

\* scrub_write_progress: lock, disable cancellation, write, unlock, enable.
ProgLock ==
    /\ prog.pc = "devs" /\ prog.i \notin Here /\ mutex = "none"
    /\ mutex' = "prog" /\ prog' = [prog EXCEPT !.pc = "locked"]
    /\ UNCHANGED <<ndev, file, main, sp, dev, cancel, kernel, runs, History>>
ProgDisable ==
    /\ prog.pc = "locked" /\ prog' = [prog EXCEPT !.pc = "write"]
    /\ UNCHANGED <<ndev, file, main, sp, dev, cancel, mutex, kernel, runs, History>>
ProgWrite ==
    /\ prog.pc = "write"
    /\ file' = scrub_write_file(prog.buf[prog.this])
    /\ mutex' = "none" /\ prog' = [prog EXCEPT !.pc = "unlocked"]
    /\ UNCHANGED <<ndev, main, sp, dev, cancel, kernel, runs, History>>
ProgEnable ==
    /\ prog.pc = "unlocked" /\ prog' = [prog EXCEPT !.pc = IF cancel THEN "dead" ELSE "poll"]
    /\ UNCHANGED <<ndev, file, main, sp, dev, cancel, mutex, kernel, runs, History>>

\* Asynchronous cancellation, anywhere it is not disabled.
ProgCanceled ==
    /\ cancel /\ prog.pc \in {"init", "poll", "devs", "locked"}
    /\ prog' = [prog EXCEPT !.pc = "dead"]
    /\ UNCHANGED <<ndev, file, main, sp, dev, cancel, mutex, kernel, runs, History>>

-----------------------------------------------------------------------------
(* The kernel, other commands and the machine *)

KernelBlock(d) ==
    /\ kernel[d].state = "run" /\ kernel[d].next < Size
    /\ kernel' = [kernel EXCEPT ![d].next = @ + 1, ![d].last = kernel[d].next + 1, ![d].bytes = @ + 1]
    /\ checked' = [checked EXCEPT ![d] = @ \cup {kernel[d].next}]
    /\ UNCHANGED <<ndev, file, main, Threads, runs, outcome, crashed>>
KernelDone(d) ==
    /\ kernel[d].state = "run" /\ kernel[d].next >= Size
    /\ kernel' = [kernel EXCEPT ![d].state = "done"]
    /\ outcome' = [outcome EXCEPT ![d] = "done"]
    /\ UNCHANGED <<ndev, file, main, Threads, runs, checked, crashed>>

\* btrfs scrub cancel, or SIGINT: stops the scrub of all devices.
cmd_scrub_cancel ==
    /\ \E d \in Devs : kernel[d].state = "run"
    /\ kernel' = [d \in Devs |-> IF kernel[d].state = "run" THEN [kernel[d] EXCEPT !.state = "stopped"]
                                 ELSE kernel[d]]
    /\ outcome' = [d \in Devs |-> IF kernel[d].state = "run" THEN "canceled" ELSE outcome[d]]
    /\ UNCHANGED <<ndev, file, main, Threads, runs, checked, crashed>>

Crash ==
    /\ Crashes /\ main.pc \notin {"exit", "down"}
    /\ main' = [main EXCEPT !.pc = "down"]
    /\ dev' = [d \in Devs |-> "none"] /\ prog' = NoProg /\ cancel' = FALSE /\ mutex' = "none"
    /\ kernel' = [d \in Devs |-> Idle]
    /\ outcome' = [d \in Devs |-> IF dev[d] \in {"none", "end"} THEN outcome[d] ELSE "crashed"]
    /\ crashed' = TRUE
    /\ UNCHANGED <<ndev, file, sp, runs, checked>>

AddDevice ==
    /\ main.pc \in {"exit", "down"} /\ ndev < MaxDevs /\ ndev' = ndev + 1
    /\ UNCHANGED <<file, main, Threads, kernel, runs, History>>

-----------------------------------------------------------------------------
Init ==
    /\ ndev = FirstDevs /\ file = [d \in Devs |-> NoRec]
    /\ main = [pc |-> "exit", i |-> 1] /\ sp = [d \in Devs |-> NewSp]
    /\ dev = [d \in Devs |-> "none"] /\ prog = NoProg /\ cancel = FALSE /\ mutex = "none"
    /\ kernel = [d \in Devs |-> Idle] /\ runs = 0
    /\ checked = [d \in Devs |-> {}] /\ outcome = [d \in Devs |-> "none"]
    /\ crashed = FALSE

MainStep == Spawn \/ SpawnProgress \/ Join \/ CancelProgress \/ JoinProgress \/ FinalLock \/ FinalWrite
DevStep(d) == DevStart(d) \/ DevReturn(d) \/ DevFinish(d)
ProgStep == ProgInit \/ ProgPoll \/ ProgDev \/ ProgLock \/ ProgDisable \/ ProgWrite \/ ProgEnable
KernelStep(d) == KernelBlock(d) \/ KernelDone(d)
Next == \/ \E resume \in BOOLEAN : scrub_start(resume)
        \/ MainStep \/ ProgStep \/ ProgCanceled
        \/ \E d \in Devs : DevStep(d) \/ KernelStep(d)
        \/ cmd_scrub_cancel \/ Crash \/ AddDevice
Spec == Init /\ [][Next]_vars
\* Threads run, the kernel goes on, and a pending cancellation is delivered.
FairSpec == /\ Spec /\ WF_vars(MainStep) /\ WF_vars(ProgStep) /\ WF_vars(ProgCanceled)
            /\ \A d \in Devs : WF_vars(DevStep(d)) /\ WF_vars(KernelStep(d))

-----------------------------------------------------------------------------
(* Properties *)

Recs == [pos : Nat, bytes : Nat, finished : BOOLEAN, canceled : BOOLEAN]
\* Types of the status file, the threads and the kernel's scrubs.
TypeOK ==
    /\ ndev \in Devs /\ file \in [Devs -> Recs \cup {NoRec}]
    /\ main.pc \in {"exit", "down", "fault", "spawn", "join", "join_prog", "lock", "write"}
    /\ \A d \in Devs : sp[d].p \in Recs /\ sp[d].resumed \in Recs \cup {NoRec}
    /\ dev \in [Devs -> {"none", "start", "ioctl", "failed", "returned", "end"}]
    /\ prog.pc \in {"none", "init", "poll", "devs", "locked", "write", "unlocked", "dead"}
    /\ mutex \in {"none", "main", "prog"}
    /\ \A d \in Devs : kernel[d].state = "run" => dev[d] = "ioctl"

\* The result stands: when scrub exits, every device's record is finished and
\* canceled says whether its ioctl failed, whatever the progress thread was
\* about to write. This is said of cycles without a crash. After one it is not
\* so: what StatusTruthful forbids may be what the crash leaves in the file, and
\* a resume then skips the device.
ResultRecorded ==
    main.pc = "exit" /\ ~crashed => \A d \in Devs : file[d] # NoRec =>
        file[d].finished /\ (file[d].canceled <=> outcome[d] # "done")

\* Over a start and its resumes the recorded bytes are those that the kernel
\* checked, none lost and none counted twice, also for devices that a resume
\* skips. A crash loses what was read since the last write (NeverOverstated).
BytesExact ==
    main.pc = "exit" /\ ~crashed => \A d \in Devs : file[d] # NoRec => file[d].bytes = Cardinality(checked[d])

\* Whatever is interrupted when, a record never claims more bytes than the
\* kernel checked in this cycle.
NeverOverstated == \A d \in Devs : file[d] # NoRec => file[d].bytes <= Cardinality(checked[d])

\* A record that is finished and not canceled belongs to a scrub that went to
\* the end of the device.
StatusTruthful ==
    \A d \in Devs : file[d] # NoRec /\ file[d].finished /\ ~file[d].canceled => outcome[d] = "done"

\* Every scrub comes to the point where all devices are joined and the progress
\* thread is gone.
Spawning == main.pc = "spawn"
Joined == main.pc \in {"lock", "fault", "down"}
DevicesEnd == Spawning ~> Joined

\* Every scrub ends.
ScrubEnds == Spawning ~> (main.pc \in {"exit", "fault"})

\* A cycle of start and resumes that ended checked all of the device.
AllScrubbed ==
    main.pc = "exit" => \A d \in Devs :
        file[d] # NoRec /\ outcome[d] = "done" => checked[d] = 0 .. Size - 1

\* After an interruption no record says that a scrub is running, so that
\* resume goes on.
InterruptedResumes == main.pc = "down" => ~is_scrub_running_on_fs

\* Resume never takes the record of a device that has none.
ResumeHasRecord == main.pc # "fault"
=============================================================================

-------------------------------- MODULE Send --------------------------------
(***************************************************************************)
(* btrfs send (cmds-send.c): the arguments are checked, a parent is chosen *)
(* for each subvolume, the kernel writes its stream into a pipe and        *)
(* dump_thread copies it out.  Subvolumes are [id, uuid, parent, name,     *)
(* ctransid, ro, tree]; parent is the uuid of what they are a snapshot of. *)
(***************************************************************************)
EXTENDS SendStream

VARIABLES snd
\* snd = [pc, at, clone_sources, parent, full, pipe, ret]

\* subvol_uuid_search: by uuid and by root id.
ByUuid(u) == {s \in world.subvols : s.uuid = u}
ById(i) == {s \in world.subvols : s.id = i}
get_parent(id) == UNION {ByUuid(s.parent) : s \in ById(id)}

Distance(id, p) == LET d == Some(ById(id)).ctransid - p.ctransid IN IF d < 0 THEN -d ELSE d
\* find_good_parent: the parent itself when it is a clone source, else the
\* first of its nearest children among them; 0 when there is none.
Nearer(a, b) == a < b
RECURSIVE Nearest(_, _, _)
Nearest(p, sources, best) ==
    IF sources = <<>> THEN best
    ELSE LET s == Head(sources)
             mine == \E q \in get_parent(s) : q.id = p.id
         IN  Nearest(p, Tail(sources),
                     IF mine /\ (best = 0 \/ Nearer(Distance(s, p), Distance(best, p))) THEN s ELSE best)
find_good_parent(id, sources) ==
    IF get_parent(id) = {} THEN 0
    ELSE LET p == Some(get_parent(id)) IN
         IF \E k \in DOMAIN sources : sources[k] = p.id THEN p.id ELSE Nearest(p, sources, 0)

SendInit ==
    snd = [pc |-> "check", at |-> 1, clone_sources |-> world.clones, parent |-> world.parent,
           full |-> world.clones = <<>> /\ world.parent = 0, pipe |-> <<>>, ret |-> 0]
add_clone_source(s, id) == [s EXCEPT !.clone_sources = Append(@, id)]

\* cmd_send up to the first subvolume: all must be there and read only.
SendFail == snd' = [snd EXCEPT !.pc = "end", !.ret = 1] /\ UNCHANGED stream
is_subvol_ro(id) == \A s \in ById(id) : s.ro
CheckArgs ==
    /\ snd.pc = "check"
    /\ IF \/ \E k \in DOMAIN world.clones : ById(world.clones[k]) = {}
          \/ snd.parent # 0 /\ ById(snd.parent) = {}
          \/ \E k \in DOMAIN world.args : ById(world.args[k]) = {} \/ ~is_subvol_ro(world.args[k])
       THEN SendFail
       ELSE /\ snd' = [IF snd.parent = 0 THEN snd ELSE add_clone_source(snd, snd.parent) EXCEPT !.pc = "next"]
            /\ UNCHANGED stream

\* One subvolume: the parent, the stream of the kernel, then it is a clone source.
NextSubvol ==
    /\ snd.pc = "next"
    /\ IF snd.at > Len(world.args) THEN snd' = [snd EXCEPT !.pc = "end"]
       ELSE LET id == world.args[snd.at]
                found == IF ~snd.full /\ snd.parent = 0 THEN find_good_parent(id, snd.clone_sources) ELSE snd.parent
            IN  IF ~snd.full /\ found = 0 THEN snd' = [snd EXCEPT !.pc = "end", !.ret = 1]
                ELSE snd' = [snd EXCEPT !.pc = "send", !.parent = found]
    /\ UNCHANGED stream
Subvol == Some(ById(world.args[snd.at]))
\* Without -e every subvolume is a stream of its own.
Sources == UNION {ById(snd.clone_sources[k]) : k \in DOMAIN snd.clone_sources}
First == ~world.new_end \/ snd.at = 1
Last == ~world.new_end \/ snd.at = Len(world.args)
do_send ==
    /\ snd.pc = "send"
    /\ snd' = [snd EXCEPT !.pc = "dump", !.pipe = Stream(Subvol, ById(snd.parent), Sources, First, Last)]
    /\ UNCHANGED stream
\* A command damaged on the way has another value and not the checksum of it.
Damaged(c, hit) == IF hit THEN [c EXCEPT !.ok = FALSE, !.val = @ + 1] ELSE c
\* dump_thread and write_buf; a failing write ends the program.
dump_thread ==
    /\ snd.pc = "dump" /\ snd.pipe # <<>>
    /\ IF Len(stream) = world.cut THEN SendFail
       ELSE /\ stream' = Append(stream, Damaged(Head(snd.pipe), Len(stream) + 1 = world.corrupt))
            /\ snd' = [snd EXCEPT !.pipe = Tail(@)]
Joined ==
    /\ snd.pc = "dump" /\ snd.pipe = <<>>
    /\ snd' = [add_clone_source(snd, world.args[snd.at]) EXCEPT !.pc = "next", !.at = @ + 1, !.parent = 0, !.full = FALSE]
    /\ UNCHANGED stream
SendStep == CheckArgs \/ NextSubvol \/ do_send \/ dump_thread \/ Joined
=============================================================================

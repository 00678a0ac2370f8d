---------------------------- MODULE ProcessFilter ----------------------------
(***************************************************************************)
(* How a process name in the configuration becomes a process id in the     *)
(* filter map of a BPF module: BpfConfig::build and BpfObject::consumer of *)
(* bpf/src/lib.rs, the thread tracker (bpf/src/threadtrack.rs) and its     *)
(* programs (bpf/src/bpf/threadtrack.bpf.c).                               *)
(*                                                                         *)
(* The tracker reports programs by file name (exec), or by the 15-byte     *)
(* comm (/proc, clone, prctl).  Names are model strings; BaseOf is the     *)
(* part after the last '/', CommOf the comm exec() gives the process.      *)
(***************************************************************************)
EXTENDS Naturals, Sequences, FiniteSets

CONSTANTS
    Tgids,          \* process ids (ids of leader threads)
    Tids,           \* ids of the other threads
    Programs,       \* files a process may exec
    Comms,          \* names a thread may give itself with prctl
    BadComms,       \* the names of Comms that are not UTF-8
    BaseOf,         \* [names -> names]: what follows the last '/'
    CommOf,         \* [Programs -> names]: the comm after exec
    Modules,        \* the modules with a filter: cpuutil, profiler, ...
    Configs,        \* the configurations to explore
    RingSlots,      \* records that fit in the tracker's ring buffer
    FilterCap,      \* entries of a module's filter map (1024 in the code)
    MaxSteps,       \* bound: what the processes of the host do
    Junk,           \* the bytes of a record header, read as a name
    None

ASSUME FilterConstants ==
    /\ RingSlots \in Nat \ {0}
    /\ FilterCap \in Nat \ {0}
    /\ BadComms \subseteq Comms
    /\ Programs \cup Comms \cup {"", Junk} \cup {CommOf[n] : n \in Programs} \subseteq DOMAIN BaseOf
    /\ \A n \in DOMAIN BaseOf : BaseOf[n] \in DOMAIN BaseOf
    /\ \A c \in Configs, m \in Modules : IsFiniteSet(c.mods[m].pids)

VARIABLES
    cfg,        \* the configuration
    phase,      \* "new", "running", "refused" or "panicked"
    tracked,    \* [Modules -> set of tgids]: the filter maps in the kernel
    watched,    \* watched_tgids of the wrapper callback
    proc,       \* [Tgids -> the process, or None]
    task,       \* [Tids -> the tgid of the thread, or None]
    ring,       \* records submitted and not consumed
    written,    \* the filename field of every record written so far
    pc,         \* the tracker: "idle", "scan" or "drain"
    scanned,    \* proc_scanned
    toScan,     \* the /proc entries still to visit
    reported,   \* <<tgid, name>> of every Process track emitted
    discovered, \* <<tid, tgid>> of every "discovered" instant
    been,       \* ghost: <<tgid, name>> a process really had
    misread,    \* ghost: tgids reported under a name left in ring memory
    lost,       \* ghost: tgids with an exec record that found no room
    steps       \* steps of the processes so far, up to MaxSteps

world == <<proc, task, been, steps>>
kernel == <<ring, written, lost>>
tracker == <<pc, scanned, toScan>>
output == <<tracked, watched, reported, discovered, misread>>
vars == <<cfg, phase, world, kernel, tracker, output>>

-----------------------------------------------------------------------------
(* BpfConfig::build and BpfObject::consumer.                                *)

On(m) == cfg.mods[m].on

\* The global filter replaces the module's own.
filter_process(m) ==
    IF cfg.global # {} THEN cfg.global ELSE cfg.mods[m].names

needs_own_names ==
    \E m \in Modules : On(m) /\ cfg.mods[m].names # {}

needs_process_filtering ==
    \E m \in Modules : On(m) /\ (cfg.mods[m].names # {} \/ cfg.global # {})

\* The flag handed to the module's programs when they are loaded.
filter_enabled(m) == cfg.mods[m].pids # {} \/ filter_process(m) # {}

\* Every module inserts its pid_filters before its programs are attached; a
\* full map fails the build.  The thread tracker is attached last.
build ==
    /\ phase = "new"
    /\ IF \/ needs_process_filtering /\ ~cfg.tracker
          \/ \E m \in Modules : On(m) /\ Cardinality(cfg.mods[m].pids) > FilterCap
         THEN /\ phase' = "refused"
              /\ UNCHANGED tracked
         ELSE /\ phase' = "running"
              /\ tracked' = [m \in Modules |-> IF On(m) THEN cfg.mods[m].pids ELSE {}]
    /\ UNCHANGED <<cfg, world, kernel, tracker, watched, reported, discovered, misread>>

Attached == phase \in {"running", "panicked"} /\ cfg.tracker

-----------------------------------------------------------------------------
(* threadtrack.bpf.c: the programs and their ring buffer.                   *)

\* bpf_ringbuf_reserve() does not clear the record.  A program that leaves the
\* filename field alone submits what the memory holds: zeroes on the first lap.
\* A record is 288 bytes long, which does not divide the size of the buffer, so
\* from the second lap on the field may hold the header of an earlier record
\* (Junk) or the end of a long file name, its last component included.
Leftover ==
    LET older == 1 .. (Len(written) + 1 - RingSlots)
    IN  {""} \cup {BaseOf[written[i]] : i \in older} \cup {Junk : i \in older}

\* A record [tid, tgid, comm, filename, own]; own tells whether the program
\* wrote the filename itself.  Without room, or without a tracker, nothing.
Submit(e) ==
    IF ~Attached \/ Len(ring) >= RingSlots
      THEN UNCHANGED <<ring, written>>
      ELSE /\ ring' = Append(ring, e)
           /\ written' = Append(written, e.filename)

\* handle_sched_wakeup_new and handle_prctl_setname: tid, tgid and comm.
SubmitComm(tid, tgid, comm) ==
    /\ \E f \in Leftover :
           Submit([tid |-> tid, tgid |-> tgid, comm |-> comm, filename |-> f, own |-> FALSE])
    /\ UNCHANGED lost

\* handle_sched_process_exec: tid, tgid and filename.
handle_sched_process_exec(tgid, program) ==
    /\ Submit([tid |-> tgid, tgid |-> tgid, comm |-> "", filename |-> program, own |-> TRUE])
    /\ lost' = IF Attached /\ Len(ring) >= RingSlots
                 THEN lost \cup {tgid} ELSE lost \ {tgid}

(* The processes of the host.  A process is its program, its comm and how   *)
(* the tracker can learn of it: it was there "before" the tracker, it did   *)
(* an "exec" since then, or only its "thread" is reported (fork, rename).   *)

NewProc(program, comm, how) == [program |-> program, comm |-> comm, how |-> how]

\* Every step of the host is counted.
Step == steps < MaxSteps /\ steps' = steps + 1

Fork(p, q) ==
    /\ proc[p] # None /\ Step /\ proc[q] = None
    /\ proc' = [proc EXCEPT ![q] = NewProc(proc[p].program, proc[p].comm,
                                           IF Attached THEN "thread" ELSE "before")]
    /\ been' = been \cup {<<q, proc[p].comm>>}
    /\ SubmitComm(q, q, proc[p].comm)
    /\ UNCHANGED <<cfg, phase, task, tracker, output>>

Clone(p, t) ==
    /\ proc[p] # None /\ Step /\ task[t] = None
    /\ task' = [task EXCEPT ![t] = p]
    /\ SubmitComm(t, p, proc[p].comm)
    /\ UNCHANGED <<cfg, phase, proc, been, tracker, output>>

Exec(p, n) ==
    /\ proc[p] # None /\ Step /\ proc[p].program # n
    /\ proc' = [proc EXCEPT ![p] = NewProc(n, CommOf[n], IF Attached THEN "exec" ELSE "before")]
    /\ task' = [t \in Tids |-> IF task[t] = p THEN None ELSE task[t]]
    /\ been' = been \cup {<<p, n>>, <<p, CommOf[n]>>}
    /\ handle_sched_process_exec(p, n)
    /\ UNCHANGED <<cfg, phase, tracker, output>>

\* prctl(PR_SET_NAME) of the leader.
SetName(p, c) ==
    /\ proc[p] # None /\ Step /\ proc[p].comm # c
    /\ proc' = [proc EXCEPT ![p].comm = c,
                            ![p].how = IF Attached /\ @ = "before" THEN "thread" ELSE @]
    /\ been' = been \cup {<<p, c>>}
    /\ SubmitComm(p, p, c)
    /\ UNCHANGED <<cfg, phase, task, tracker, output>>

Exit(p) ==
    /\ proc[p] # None /\ Step
    /\ proc' = [proc EXCEPT ![p] = None]
    /\ task' = [t \in Tids |-> IF task[t] = p THEN None ELSE task[t]]
    /\ UNCHANGED <<cfg, phase, been, kernel, tracker, output>>

-----------------------------------------------------------------------------
(* The wrapper callback of BpfObject::consumer.                             *)

Matches(m, name) ==
    name \in filter_process(m) \/ BaseOf[name] \in filter_process(m)

Filterable(m, p) == p \in tracked[m] \/ Cardinality(tracked[m]) < FilterCap

on_process_first(p, name) ==
    LET added == {m \in Modules : On(m) /\ Matches(m, name) /\ Filterable(m, p)}
        only == IF added = {} THEN {} ELSE {CHOOSE m \in added : TRUE}
    IN  /\ tracked' = [m \in Modules |-> IF m \in only THEN tracked[m] \cup {p} ELSE tracked[m]]
        /\ watched' = IF added # {} THEN watched \cup {p} ELSE watched
        /\ reported' = reported \cup {<<p, name>>}

on_process_shared(p, name) ==
    LET added == {m \in Modules : On(m) /\ Filterable(m, p) /\ \E k \in Modules : Matches(k, name)}
    IN  /\ tracked' = [m \in Modules |-> IF m \in added THEN tracked[m] \cup {p} ELSE tracked[m]]
        /\ watched' = IF added # {} THEN watched \cup {p} ELSE watched
        /\ reported' = reported \cup {<<p, name>>}

on_process_watched(p, name) ==
    LET added == {m \in Modules : On(m) /\ Matches(m, name) /\ Filterable(m, p)}
    IN  /\ tracked' = [m \in Modules |-> IF m \in added THEN tracked[m] \cup {p} ELSE tracked[m]]
        /\ watched' = IF \E m \in Modules : On(m) /\ Matches(m, name) THEN watched \cup {p} ELSE watched
        /\ reported' = reported \cup {<<p, name>>}

\* Each module is tried on its own; one that refuses the process is logged.
on_process(p, name) ==
    LET added == {m \in Modules : On(m) /\ Matches(m, name) /\ Filterable(m, p)}
    IN  /\ tracked' = [m \in Modules |-> IF m \in added THEN tracked[m] \cup {p} ELSE tracked[m]]
        /\ watched' = IF added # {} THEN watched \cup {p} ELSE watched
        /\ reported' = reported \cup {<<p, name>>}

\* The track, then a "discovered" instant for a thread of a watched process.
Discovered(threads) == discovered \cup {x \in threads : x[2] \in watched}

-----------------------------------------------------------------------------
(* ThreadTracker: poll and consume.                                         *)

\* The first call lists /proc.
consume ==
    /\ phase = "running" /\ cfg.tracker /\ pc = "idle"
    /\ scanned => ring # <<>>
    /\ pc' = IF scanned THEN "drain" ELSE "scan"
    /\ toScan' = IF scanned THEN {} ELSE {p \in Tgids : proc[p] # None}
    /\ UNCHANGED <<cfg, phase, world, kernel, scanned, output>>

\* One entry of /proc: its comm as a process, its tasks as threads.  An entry
\* that is gone, or whose comm cannot be read as UTF-8, is passed over.
scan_proc(p) ==
    /\ pc = "scan" /\ p \in toScan
    /\ toScan' = toScan \ {p}
    /\ IF proc[p] # None /\ proc[p].comm \notin BadComms
         THEN on_process(p, proc[p].comm)
         ELSE UNCHANGED <<tracked, watched, reported>>
    /\ discovered' = discovered \cup
           {x \in {t \in Tids : task[t] = p} \X {p} : proc[p].comm \notin BadComms /\ p \in watched'}
    /\ UNCHANGED <<cfg, phase, world, kernel, pc, scanned, misread>>

scan_late ==
    /\ pc = "scan" /\ toScan = {}
    /\ pc' = "drain"
    /\ scanned' = TRUE
    /\ ring' = <<>>
    /\ UNCHANGED <<cfg, phase, world, written, lost, toScan, output>>

scan_done ==
    /\ pc = "scan" /\ toScan = {}
    /\ pc' = "drain"
    /\ scanned' = TRUE
    /\ UNCHANGED <<cfg, phase, world, kernel, toScan, output>>

\* The ring buffer callback: a record with a file name is a process, any other
\* a thread.  A name that is not UTF-8 ends the program.
handle_record ==
    /\ phase = "running" /\ pc = "drain" /\ ring # <<>>
    /\ LET e == Head(ring)
       IN  IF e.filename # ""
             THEN /\ on_process(e.tgid, e.filename)
                  /\ misread' = IF e.own THEN misread ELSE misread \cup {e.tgid}
                  /\ UNCHANGED <<discovered, phase>>
             ELSE /\ phase' = IF e.comm \in BadComms THEN "panicked" ELSE phase
                  /\ discovered' = IF e.comm \in BadComms THEN discovered
                                   ELSE Discovered({<<e.tid, e.tgid>>})
                  /\ UNCHANGED <<tracked, watched, reported, misread>>
    /\ ring' = Tail(ring)
    /\ UNCHANGED <<cfg, world, written, lost, tracker>>

drained ==
    /\ phase = "running" /\ pc = "drain" /\ ring = <<>>
    /\ pc' = "idle"
    /\ UNCHANGED <<cfg, phase, world, kernel, scanned, toScan, output>>

-----------------------------------------------------------------------------
Init ==
    /\ cfg \in Configs
    /\ phase = "new"
    /\ tracked = [m \in Modules |-> {}]
    /\ watched = {}
    /\ \E first \in Tgids, n \in Programs :
           /\ proc = [p \in Tgids |-> IF p = first THEN NewProc(n, CommOf[n], "before") ELSE None]
           /\ been = {<<first, n>>, <<first, CommOf[n]>>}
    /\ task = [t \in Tids |-> None]
    /\ ring = <<>> /\ written = <<>>
    /\ pc = "idle" /\ scanned = FALSE /\ toScan = {}
    /\ reported = {} /\ discovered = {}
    /\ misread = {} /\ lost = {}
    /\ steps = 0

World ==
    \/ \E p \in Tgids : \/ \E q \in Tgids : Fork(p, q)
                        \/ \E t \in Tids : Clone(p, t)
                        \/ \E n \in Programs : Exec(p, n)
                        \/ \E c \in Comms : SetName(p, c)
                        \/ Exit(p)

Tracker ==
    \/ consume
    \/ \E p \in Tgids : scan_proc(p)
    \/ scan_done
    \/ handle_record
    \/ drained

Next == build \/ World \/ Tracker

\* The main loop of kinetrace calls consume() every 10 ms.
Spec == Init /\ [][Next]_vars /\ WF_vars(build) /\ WF_vars(Tracker)

-----------------------------------------------------------------------------
\* A module that discards everything but the processes of its filter map has
\* an entry in it, or a tracker that may add one: build() never leaves a module
\* on that can record nothing.
NoSilentModule ==
    phase = "running" =>
        \A m \in Modules : On(m) /\ filter_enabled(m) => tracked[m] # {} \/ cfg.tracker

\* A process in a module's map is one of its pid_filters, or had at some time a
\* name of its filter, or was reported under a name that some other process left
\* in the ring buffer's memory.
TracedWasMatching ==
    \A m \in Modules : \A p \in tracked[m] :
        \/ p \in cfg.mods[m].pids
        \/ \E x \in been : x[1] = p /\ Matches(m, x[2])
        \/ p \in misread

\* The documented meaning of filter_process: a module with a name filter traces
\* no process that never had one of the names.
OnlyMatchingTraced ==
    \A m \in Modules : \A p \in tracked[m] :
        p \in cfg.mods[m].pids \/ \E x \in been : x[1] = p /\ Matches(m, x[2])

\* Two modules with the same names differ in the processes added by name only
\* where a map is full: a module that refuses a process does not keep it from
\* the next one.
SameFilterSameTrace ==
    \A m, k \in Modules :
        On(m) /\ On(k) /\ filter_process(m) = filter_process(k) =>
            \A p \in tracked[m] \ (tracked[k] \cup cfg.mods[m].pids) :
                Cardinality(tracked[k]) >= FilterCap

\* A thread is announced as "discovered" only when some module traces its
\* process, and the processes the wrapper watches are traced by the module whose
\* filter they matched.
DiscoveredSound ==
    /\ \A x \in discovered : x[2] \in watched
    /\ \A p \in watched : \E m \in Modules :
           p \in tracked[m] /\ \E x \in reported : x[1] = p /\ Matches(m, x[2])

\* The tracker can learn that p runs a program of m's filter: from the comm it
\* will read in /proc, or from the record of its exec.
Visible(m, p) ==
    /\ phase = "running" /\ cfg.tracker /\ On(m) /\ proc[p] # None
    /\ \/ proc[p].how = "before" /\ proc[p].comm \notin BadComms /\ Matches(m, proc[p].comm)
       \/ proc[p].how = "exec" /\ p \notin lost /\ Matches(m, proc[p].program)

\* A process that keeps a name of the filter comes to be traced, whether it
\* started before the tracker, during the walk over /proc or after it, unless
\* the module's map fills up or a name that is not UTF-8 ends the tracer.
MatchingIsTraced ==
    \A m \in Modules, p \in Tgids :
        Visible(m, p) ~> (\/ p \in tracked[m] \/ ~Visible(m, p)
                          \/ Cardinality(tracked[m]) >= FilterCap)
=============================================================================

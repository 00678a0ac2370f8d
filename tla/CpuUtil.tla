------------------------------- MODULE CpuUtil --------------------------------
(***************************************************************************)
(* The processor time of threads: the programs of bpf/src/bpf/             *)
(* cpuutil.bpf.c, with one cpu_state per processor, and the consumer of    *)
(* bpf/src/cpuutil.rs, which adds the slices up and reports every thread   *)
(* when as many boundaries have come in as there are processors.           *)
(***************************************************************************)
EXTENDS Scheduler, FiniteSetsExt

CONSTANTS
    CpuRingCap,     \* events that fit in the ring buffer
    nprocs          \* possible processors, which may exceed those online

ASSUME CpuUtilConstants ==
    /\ CpuRingCap \in Nat \ {0} /\ nprocs \in Nat \ {0}
    /\ "0" \notin Processes    \* the process of the idle thread

VARIABLES
    cpu_tgids,      \* the filter map; Processes when the filter is off
    cpu_states,     \* [CPUs -> [tid, tgid, start, kstart, kacc, in_kernel]]
    cpu_events,     \* the ring buffer
    thread_stats,   \* [subset of Tids -> [cpu, kernel, min]]
    boundaries_reported,
    max_timestamp,
    report,         \* the last report: [subset of Tids -> [cpu, kernel, elapsed]]
    total,          \* ghost: [Tids -> time reported so far]
    ran,            \* ghost: [Tids -> time on a processor, since seen there]
    lost            \* ghost: threads with an event that found no room, or that
                    \* ran before their process was in the filter

cpuVars == <<cpu_tgids, cpu_states, cpu_events, thread_stats, boundaries_reported,
             max_timestamp, report, total, ran, lost>>

NoTgid == "0"

ZeroState == [tid |-> Idle, tgid |-> NoTgid, start |-> 0, kstart |-> 0, kacc |-> 0,
              in_kernel |-> FALSE]

CpuUtilIdle ==
    /\ cpu_states = [c \in CPUs |-> ZeroState]
    /\ cpu_events = <<>>
    /\ thread_stats = [t \in {} |-> {}]
    /\ boundaries_reported = 0 /\ max_timestamp = 0
    /\ report = [t \in {} |-> {}]
    /\ total = [t \in Tids |-> 0] /\ ran = [t \in Tids |-> 0]
    /\ lost = {}

-----------------------------------------------------------------------------
(* The programs.  Each works on the cpu_state of the processor it runs on.  *)

Tgid(t) == IF t = Idle THEN NoTgid ELSE TgidOf[t]

\* Process 0 passes the filter; the consumer drops it.
cpu_should_track(tgid) == tgid = NoTgid \/ tgid \in cpu_tgids

submit_cpu_event(state, boundary) ==
    LET kernel == state.kacc + (IF state.in_kernel /\ state.kstart > 0
                                  THEN now - state.kstart ELSE 0)
        event == [tid |-> state.tid, tgid |-> state.tgid, start |-> state.start,
                  end |-> now, kernel |-> kernel, boundary |-> boundary]
    IN  IF Len(cpu_events) < CpuRingCap
          THEN cpu_events' = Append(cpu_events, event) /\ UNCHANGED lost
          ELSE lost' = lost \cup {state.tid} /\ UNCHANGED cpu_events

cpu_sched_switch(c, prev, next) ==
    LET state == [cpu_states[c] EXCEPT !.tgid = Tgid(prev)]
    IN  /\ IF state.tid = prev /\ state.tid # Idle /\ cpu_should_track(state.tgid)
             THEN submit_cpu_event(state, FALSE)
             ELSE UNCHANGED <<cpu_events, lost>>
        /\ cpu_states' = [cpu_states EXCEPT ![c] = [ZeroState EXCEPT !.tid = next, !.start = now]]

handle_sys_enter(c, t) ==
    cpu_states' = IF cpu_states[c].tid = t /\ ~cpu_states[c].in_kernel
                    THEN [cpu_states EXCEPT ![c].in_kernel = TRUE, ![c].kstart = now]
                    ELSE cpu_states

handle_sys_exit(c, t) ==
    LET state == cpu_states[c]
        counted == state.in_kernel /\ state.kstart > 0
    IN  cpu_states' =
          IF state.tid # t THEN cpu_states
          ELSE [cpu_states EXCEPT ![c].kacc = IF counted THEN @ + (now - state.kstart) ELSE @,
                                  ![c].kstart = IF counted THEN 0 ELSE @,
                                  ![c].in_kernel = FALSE]

handle_boundary_event_open(c) ==
    LET tgid == Tgid(cpu[c])
        state == [cpu_states[c] EXCEPT !.tgid = IF cpu_should_track(tgid) THEN tgid ELSE @]
    IN  /\ submit_cpu_event(state, TRUE)
        /\ cpu_states' = [cpu_states EXCEPT
               ![c] = [state EXCEPT !.kacc = 0, !.kstart = IF state.in_kernel THEN now ELSE @]]

\* The sampling clock of processor c.  The event closes the slice, for the
\* thread that runs there, and opens the next one.
handle_boundary_event(c) ==
    LET tgid == Tgid(cpu[c])
        state == [cpu_states[c] EXCEPT !.tgid = IF cpu_should_track(tgid) THEN tgid ELSE @]
    IN  /\ submit_cpu_event(state, TRUE)
        /\ cpu_states' = [cpu_states EXCEPT
               ![c] = [state EXCEPT !.start = now, !.kacc = 0,
                                    !.kstart = IF state.in_kernel THEN now ELSE @]]

-----------------------------------------------------------------------------
(* cpuutil.rs: the ring buffer callback.                                    *)

AddMin(stats, e) ==
    LET old == IF e.tid \in DOMAIN stats THEN stats[e.tid]
               ELSE [cpu |-> 0, kernel |-> 0, min |-> e.start]
    IN  IF e.tgid = NoTgid \/ e.tid = Idle \/ e.start = 0 THEN stats
        ELSE [t \in DOMAIN stats \cup {e.tid} |->
                 IF t # e.tid THEN stats[t]
                 ELSE [cpu |-> old.cpu + (e.end - e.start), kernel |-> old.kernel + e.kernel,
                       min |-> old.min]]

Add(stats, e) ==
    LET old == IF e.tid \in DOMAIN stats THEN stats[e.tid]
               ELSE [cpu |-> 0, kernel |-> 0, min |-> e.start]
    IN  IF e.tgid = NoTgid \/ e.tid = Idle \/ e.start = 0 THEN stats
        ELSE [t \in DOMAIN stats \cup {e.tid} |->
                 IF t # e.tid THEN stats[t]
                 ELSE [cpu |-> old.cpu + (e.end - e.start), kernel |-> old.kernel + e.kernel,
                       min |-> Min({old.min, e.start})]]

\* The last boundary of a round reports every thread and starts it again.
cpu_consume ==
    /\ cpu_events # <<>>
    /\ LET e == Head(cpu_events)
           stats == Add(thread_stats, e)
           max == Max({max_timestamp, e.end})
           round == e.boundary /\ boundaries_reported + 1 = nprocs
       IN  /\ max_timestamp' = max
           /\ boundaries_reported' = IF round THEN 0
                                     ELSE IF e.boundary THEN boundaries_reported + 1
                                     ELSE boundaries_reported
           /\ thread_stats' = IF round THEN [t \in DOMAIN stats |-> [cpu |-> 0, kernel |-> 0, min |-> max]]
                              ELSE stats
           /\ report' = IF round THEN [t \in DOMAIN stats |->
                                          [cpu |-> stats[t].cpu, kernel |-> stats[t].kernel,
                                           elapsed |-> max - stats[t].min]]
                        ELSE report
           /\ total' = IF round THEN [t \in Tids |-> total[t] +
                                          (IF t \in DOMAIN stats THEN stats[t].cpu ELSE 0)]
                       ELSE total
    /\ cpu_events' = Tail(cpu_events)
    /\ UNCHANGED <<cpu_tgids, cpu_states, ran, lost>>

cpu_filter(p) ==
    /\ p \notin cpu_tgids
    /\ cpu_tgids' = cpu_tgids \cup {p}
    /\ UNCHANGED <<cpu_states, cpu_events, thread_stats, boundaries_reported, max_timestamp,
                   report, total, ran>>
    /\ lost' = lost \cup {t \in Tids : TgidOf[t] = p}

\* ghost: a tick of the clock is a unit of time for the thread a processor runs,
\* once a switch has shown it to the module.
Ran ==
    ran' = [t \in Tids |-> IF \E c \in CPUs : cpu_states[c].tid = t THEN ran[t] + 1 ELSE ran[t]]

-----------------------------------------------------------------------------
\* No thread is reported with more than all of the time, nor with more time in
\* the kernel than on a processor, although the slices of a round come from
\* several processors whose boundaries fall at different times.
PercentBounded ==
    \A t \in DOMAIN report :
        report[t].cpu <= report[t].elapsed /\ report[t].kernel <= report[t].cpu

\* The units of time of the slices of a thread that are still in the ring buffer.
InRing(t) ==
    Cardinality({u \in (DOMAIN cpu_events) \X (0 .. now) :
        /\ cpu_events[u[1]].tid = t /\ cpu_events[u[1]].tgid # NoTgid
        /\ cpu_events[u[1]].start <= u[2] /\ u[2] < cpu_events[u[1]].end})

\* Those of the slice that is open on its processor.
InSlice(t) ==
    Cardinality({u \in CPUs \X (0 .. now) :
        cpu_states[u[1]].tid = t /\ cpu_states[u[1]].start <= u[2] /\ u[2] < now})

Accounted(t) ==
    total[t] + (IF t \in DOMAIN thread_stats THEN thread_stats[t].cpu ELSE 0)
             + InRing(t) + InSlice(t)

\* The time reported for a thread, with what is still to be reported, is the
\* time it ran: all of it for a process traced from the start when no event was
\* lost, and never more.
CpuTimeExact ==
    \A t \in Tids :
        /\ Accounted(t) <= ran[t]
        /\ t \notin lost /\ TgidOf[t] \in cpu_tgids => Accounted(t) = ran[t]
=============================================================================

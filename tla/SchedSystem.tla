----------------------------- MODULE SchedSystem ------------------------------
(***************************************************************************)
(* The modules on the scheduler's tracepoints and on the processors'       *)
(* timers.  The configuration enables any of them: bpf/src/lib.rs builds a *)
(* module for each section it finds and consumes them one after the other. *)
(***************************************************************************)
EXTENDS SchedTrace, CpuUtil, PerfCounter

CONSTANT Attachments    \* the sets of modules to explore

VARIABLE attached

vars == <<world, schedVars, cpuVars, perfVars, attached>>

\* A tracepoint or a tick of the clock that no module looks at is no step here.
Observed == attached \cap {"schedtrace", "cpuutil"} # {}

\* A module that is not attached ignores a tracepoint.
Sched(results) == IF "schedtrace" \in attached THEN Install(results) ELSE UNCHANGED schedVars

CpuRest == <<cpu_tgids, thread_stats, boundaries_reported, max_timestamp, report, total, ran>>

OnSwitch(c, next, reason) ==
    LET prev == cpu[c]
    IN  /\ Switch(c, next, reason)
        /\ Sched(handle_sched_switch(prev, next, reason))
        /\ IF "cpuutil" \in attached
             THEN cpu_sched_switch(c, prev, next) /\ UNCHANGED CpuRest
             ELSE UNCHANGED cpuVars
        /\ UNCHANGED attached

OnWakeup(t) ==
    /\ Wakeup(t) \/ WakeupNew(t)
    /\ Sched(handle_task_wakeup(Maps, t))
    /\ UNCHANGED <<cpuVars, attached>>

OnExit(t) ==
    /\ ProcessExit(t)
    /\ Sched(handle_sched_process_exit(Maps, t))
    /\ UNCHANGED <<cpuVars, attached>>

OnSyscall(c, t) ==
    /\ "cpuutil" \in attached /\ cpu[c] = t
    /\ \/ SysEnter(t) /\ handle_sys_enter(c, t)
       \/ SysExit(t) /\ handle_sys_exit(c, t)
    /\ UNCHANGED <<schedVars, CpuRest, cpu_events, lost, attached>>

OnBoundary(c) ==
    /\ "cpuutil" \in attached /\ Fires
    /\ handle_boundary_event(c)
    /\ UNCHANGED <<now, cpu, thread, schedVars, CpuRest, attached>>

OnTick ==
    /\ Tick /\ Ran
    /\ UNCHANGED <<schedVars, cpu_tgids, cpu_states, cpu_events, thread_stats,
                   boundaries_reported, max_timestamp, report, total, lost, attached>>

\* The wrapper callback adds the process to each module whose filter names it.
OnFilter(p) ==
    /\ \/ "schedtrace" \in attached /\ sched_filter(p) /\ UNCHANGED cpuVars
       \/ "cpuutil" \in attached /\ cpu_filter(p) /\ UNCHANGED schedVars
    /\ UNCHANGED <<world, attached>>

OnConsume ==
    /\ \/ sched_consume /\ UNCHANGED cpuVars
       \/ cpu_consume /\ UNCHANGED schedVars
    /\ UNCHANGED <<world, attached>>

OnPerf == "perfcounter" \in attached /\ PerfCounterNext /\ UNCHANGED <<world, schedVars, cpuVars, attached>>

Init ==
    /\ SchedulerInit
    /\ attached \in Attachments
    /\ SchedTraceIdle
    /\ tracked_tgids \in (IF "schedtrace" \in attached THEN {{}, Processes} ELSE {{}})
    /\ CpuUtilIdle
    /\ cpu_tgids \in (IF "cpuutil" \in attached THEN {{}, Processes} ELSE {{}})
    /\ PerfCounterIdle
    /\ perf_config \in (IF "perfcounter" \in attached THEN PerfConfigs ELSE {<<>>})

Next ==
    \/ /\ Observed /\ UNCHANGED perfVars
       /\ \/ \E c \in CPUs, next \in Tids \cup {Idle}, reason \in Reasons : OnSwitch(c, next, reason)
          \/ \E t \in Tids : OnWakeup(t) \/ OnExit(t) \/ \E c \in CPUs : OnSyscall(c, t)
          \/ \E c \in CPUs : OnBoundary(c)
          \/ OnTick
          \/ \E p \in Processes : OnFilter(p)
          \/ OnConsume
    \/ OnPerf

Spec == Init /\ [][Next]_vars
=============================================================================

------------------------------- MODULE Scheduler ------------------------------
(***************************************************************************)
(* The part of the kernel that the scheduler modules of bpf/ observe: the  *)
(* threads, the processor each runs on, and the clock.  It is external to  *)
(* the repository; its steps are the tracepoints sched_switch,             *)
(* sched_wakeup, sched_wakeup_new, sched_process_exit, sys_enter and       *)
(* sys_exit, which fire under the run queue's lock, one at a time for a    *)
(* thread.                                                                 *)
(***************************************************************************)
EXTENDS Naturals, Sequences, FiniteSets

CONSTANTS
    CPUs,
    Tids,           \* thread ids; an id is used again once its thread is dead
    TgidOf,         \* [Tids -> process ids]
    MaxTime,        \* bound of the clock
    MaxSteps,       \* bound: tracepoints fired
    Idle            \* the idle thread, tid 0

ASSUME SchedulerConstants ==
    /\ MaxTime \in Nat /\ MaxSteps \in Nat
    /\ Idle \notin Tids

VARIABLES
    now,            \* the clock; 0 stands for "no time yet" in the programs
    cpu,            \* [CPUs -> Tids \cup {Idle}]: the thread on the processor
    thread,         \* [Tids -> [state, since, exiting, syscall, used]]; used: a
                    \* thread with this id is dead
    steps

world == <<now, cpu, thread, steps>>

Processes == {TgidOf[t] : t \in Tids}

SchedulerInit ==
    /\ now = 1
    /\ cpu = [c \in CPUs |-> Idle]
    /\ thread = [t \in Tids |-> [state |-> "none", since |-> 1, exiting |-> FALSE,
                                 syscall |-> FALSE, used |-> FALSE]]
    /\ steps = 0

Fires == steps < MaxSteps /\ steps' = steps + 1

Tick ==
    /\ now < MaxTime /\ now' = now + 1
    /\ UNCHANGED <<cpu, thread, steps>>

Goes(t, state) == [thread EXCEPT ![t].state = state, ![t].since = now]

\* Why the thread that leaves the processor does so: preempted, by its own will
\* but still runnable, to sleep, or for good.
Reasons == {"preempt", "yield", "sleep", "dead"}

Leaves(th, reason) ==
    [th EXCEPT !.state = CASE reason = "sleep" -> "blocked" [] reason = "dead" -> "none"
                           [] OTHER -> "runnable",
               !.since = now,
               !.exiting = @ /\ reason # "dead",
               !.syscall = @ /\ reason # "dead",
               !.used = @ \/ reason = "dead"]

Enters(th) == [th EXCEPT !.state = "running", !.since = now]

\* sched_switch on processor c, from its thread to next.
Switch(c, next, reason) ==
    LET prev == cpu[c]
    IN  /\ prev # next
        /\ prev = Idle => reason = "yield"
        /\ prev # Idle => (reason = "dead" => thread[prev].exiting)
        /\ next # Idle => thread[next].state = "runnable"
        /\ cpu' = [cpu EXCEPT ![c] = next]
        /\ thread' = [t \in Tids |-> CASE t = prev -> Leaves(thread[t], reason)
                                       [] t = next -> Enters(thread[t])
                                       [] OTHER -> thread[t]]
        /\ Fires /\ UNCHANGED now

\* sched_wakeup of a sleeping thread, or of one that was about to sleep and is
\* still on its processor.
Wakeup(t) ==
    /\ \/ thread[t].state = "blocked" /\ thread' = Goes(t, "runnable")
       \/ thread[t].state = "running" /\ UNCHANGED thread
    /\ Fires /\ UNCHANGED <<now, cpu>>

\* sched_wakeup_new: the id may have belonged to a thread that is dead.
WakeupNew(t) ==
    /\ thread[t].state = "none"
    /\ thread' = Goes(t, "runnable")
    /\ Fires /\ UNCHANGED <<now, cpu>>

\* sched_process_exit: the thread still runs, and may sleep before its last switch.
ProcessExit(t) ==
    /\ thread[t].state = "running" /\ ~thread[t].exiting
    /\ thread' = [thread EXCEPT ![t].exiting = TRUE]
    /\ Fires /\ UNCHANGED <<now, cpu>>

SysEnter(t) ==
    /\ thread[t].state = "running" /\ ~thread[t].syscall /\ ~thread[t].exiting
    /\ thread' = [thread EXCEPT ![t].syscall = TRUE]
    /\ Fires /\ UNCHANGED <<now, cpu>>

SysExit(t) ==
    /\ thread[t].state = "running" /\ thread[t].syscall /\ ~thread[t].exiting
    /\ thread' = [thread EXCEPT ![t].syscall = FALSE]
    /\ Fires /\ UNCHANGED <<now, cpu>>
=============================================================================

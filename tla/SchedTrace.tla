------------------------------ MODULE SchedTrace ------------------------------
(***************************************************************************)
(* The scheduler tracer: the programs of bpf/src/bpf/schedtrace.bpf.c,     *)
(* which turn tracepoints into running, blocked and runnable spans, and    *)
(* the consumer of bpf/src/schedtrace.rs.                                  *)
(***************************************************************************)
EXTENDS Scheduler

CONSTANTS
    StatesCap,      \* entries of the LRU map task_states (10000 in the code)
    SpanRingCap     \* spans that fit in the ring buffer

ASSUME SchedTraceConstants == StatesCap \in Nat \ {0} /\ SpanRingCap \in Nat \ {0}

VARIABLES
    tracked_tgids,  \* the filter map; Processes when the filter is off
    task_states,    \* [subset of Tids -> [state, since, exiting]]
    events,         \* the ring buffer
    thread_track_ids, \* threads whose "scheduler" track was emitted
    lastEnd,        \* ghost: [Tids -> end of the last span sent], 0 before
    wrong           \* ghost: spans that are not what the thread did

schedVars == <<tracked_tgids, task_states, events, thread_track_ids, lastEnd, wrong>>

SchedTraceIdle ==
    /\ task_states = [t \in {} |-> {}] /\ events = <<>>
    /\ thread_track_ids = {} /\ lastEnd = [t \in Tids |-> 0] /\ wrong = {}

-----------------------------------------------------------------------------
(* The programs.  A program works on a record of the maps it may change, so *)
(* that sched_switch can run the two halves of its handler in order.        *)

Maps == [states |-> task_states, events |-> events, wrong |-> wrong]

should_track_tgid(t) == t # Idle /\ TgidOf[t] \in tracked_tgids

Entry(state) == [state |-> state, since |-> now, exiting |-> FALSE]

\* Did the thread do nothing else from the start of the span until now?
TrueSpan(t, kind, since) ==
    thread[t].state = kind /\ thread[t].since <= since

\* A span of no length, or that the ring buffer has no room for, is dropped.
emit_span(maps, t, kind) ==
    LET since == maps.states[t].since
        span == [tid |-> t, kind |-> kind, start |-> since, end |-> now]
    IN  IF since = 0 \/ since >= now THEN maps
        ELSE IF Len(maps.events) >= SpanRingCap THEN maps
          ELSE [maps EXCEPT !.events = Append(@, span),
                            !.wrong = IF TrueSpan(t, kind, since) THEN @ ELSE @ \cup {span}]

\* Writing an entry that is not there may evict another one.
Put(maps, t, entry) ==
    LET full == t \notin DOMAIN maps.states /\ Cardinality(DOMAIN maps.states) >= StatesCap
        Kept(gone) == [u \in (DOMAIN maps.states \ gone) \cup {t} |->
                           IF u = t THEN entry ELSE maps.states[u]]
    IN  IF full
          THEN {[maps EXCEPT !.states = Kept({u})] : u \in DOMAIN maps.states}
          ELSE {[maps EXCEPT !.states = Kept({})]}

Delete(maps, t) ==
    [maps EXCEPT !.states = [u \in DOMAIN maps.states \ {t} |-> maps.states[u]]]

handle_task_off_cpu_woken(maps, t, reason) ==
    IF ~should_track_tgid(t) THEN {maps}
    ELSE LET seen == t \in DOMAIN maps.states
             sent == IF seen /\ maps.states[t].state = "running"
                       THEN emit_span(maps, t, "running") ELSE maps
         IN  IF seen /\ maps.states[t].exiting THEN {Delete(sent, t)}
             ELSE Put(sent, t, Entry(IF reason = "preempt" THEN "runnable" ELSE "blocked"))

\* The results handle_task_off_cpu() may have.
handle_task_off_cpu(maps, t, reason) ==
    IF ~should_track_tgid(t) THEN {maps}
    ELSE LET seen == t \in DOMAIN maps.states
             sent == IF seen /\ maps.states[t].state = "running"
                       THEN emit_span(maps, t, "running") ELSE maps
         IN  IF seen /\ maps.states[t].exiting THEN {Delete(sent, t)}
             ELSE Put(sent, t, Entry(IF reason \in {"preempt", "yield"}
                                       THEN "runnable" ELSE "blocked"))

\* The results handle_task_on_cpu() may have.
handle_task_on_cpu(maps, t) ==
    IF ~should_track_tgid(t) THEN {maps}
    ELSE Put(IF t \in DOMAIN maps.states /\ maps.states[t].state # "running"
               THEN emit_span(maps, t, maps.states[t].state) ELSE maps,
             t, Entry("running"))

handle_task_wakeup_late(maps, t) ==
    IF ~should_track_tgid(t) THEN {maps}
    ELSE IF t \in DOMAIN maps.states
      THEN IF maps.states[t].state # "blocked" THEN {maps}
           ELSE LET sent == emit_span(maps, t, "blocked")
                IN  {[sent EXCEPT !.states[t].state = "runnable"]}
      ELSE Put(maps, t, Entry("runnable"))

\* A wakeup ends a blocked span; of a thread in another state it says nothing.
handle_task_wakeup(maps, t) ==
    IF ~should_track_tgid(t) THEN {maps}
    ELSE IF t \in DOMAIN maps.states
      THEN IF maps.states[t].state # "blocked" THEN {maps}
           ELSE LET sent == emit_span(maps, t, "blocked")
                IN  {[sent EXCEPT !.states[t].state = "runnable", !.states[t].since = now]}
      ELSE Put(maps, t, Entry("runnable"))

\* The last switch of the thread is to delete the entry.
handle_sched_process_exit(maps, t) ==
    IF ~should_track_tgid(t) THEN {maps}
    ELSE IF t \in DOMAIN maps.states
      THEN {[maps EXCEPT !.states[t].exiting = TRUE]}
      ELSE Put(maps, t, [Entry("running") EXCEPT !.exiting = TRUE])

handle_sched_switch(prev, next, reason) ==
    UNION {handle_task_on_cpu(maps, next) : maps \in handle_task_off_cpu(Maps, prev, reason)}

Install(results) ==
    \E maps \in results :
        /\ task_states' = maps.states
        /\ events' = maps.events
        /\ wrong' = maps.wrong
        /\ UNCHANGED <<tracked_tgids, thread_track_ids, lastEnd>>

-----------------------------------------------------------------------------
(* schedtrace.rs.                                                           *)

\* The wrapper callback of bpf/src/lib.rs found a process to trace.
sched_filter(p) ==
    /\ p \notin tracked_tgids
    /\ tracked_tgids' = tracked_tgids \cup {p}
    /\ UNCHANGED <<task_states, events, thread_track_ids, lastEnd, wrong>>

\* The ring buffer callback: the thread's track, once, then the span.
sched_consume ==
    /\ events # <<>>
    /\ LET span == Head(events)
       IN  /\ thread_track_ids' = thread_track_ids \cup {span.tid}
           /\ lastEnd' = [lastEnd EXCEPT ![span.tid] = span.end]
    /\ events' = Tail(events)
    /\ UNCHANGED <<tracked_tgids, task_states, wrong>>

-----------------------------------------------------------------------------
\* The spans sent for a thread are in order and do not overlap, whatever was
\* evicted, lost or filtered in between.
SpansDisjoint ==
    \A i \in DOMAIN events :
        /\ events[i].start >= lastEnd[events[i].tid]
        /\ \A j \in 1 .. (i - 1) :
               events[j].tid = events[i].tid => events[j].end <= events[i].start

\* A span says what the thread did from its start to its end.  The exception:
\* an entry of a dead thread, taken for the state of the next one of that id,
\* is sent as a blocked span.
SpansTrue ==
    \A s \in wrong : s.kind = "blocked" /\ thread[s.tid].used
=============================================================================

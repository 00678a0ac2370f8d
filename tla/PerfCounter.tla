----------------------------- MODULE PerfCounter ------------------------------
(***************************************************************************)
(* Hardware and software counters of the processors: the timer program of  *)
(* bpf/src/bpf/perfcounter.bpf.c and bpf/src/perfcounter.rs, which opens   *)
(* one perf event per counter and processor while the timers already run,  *)
(* and turns the values they send into increments and instructions per     *)
(* cycle.  The counters themselves are the kernel's.                       *)
(***************************************************************************)
EXTENDS Scheduler, SequencesExt

CONSTANTS
    PerfConfigs,        \* the lists of counters to explore
    NamedCounters,      \* the names to_perf_config() knows
    MAX_PERF_COUNTERS,
    PerfRingCap,        \* events that fit in the ring buffer
    MaxCount            \* bound: cycles counted on a processor

ASSUME PerfCounterConstants ==
    /\ MAX_PERF_COUNTERS \in Nat /\ PerfRingCap \in Nat \ {0}
    /\ PerfConfigs \subseteq Seq(STRING)

VARIABLES
    perf_config,        \* the counters of the configuration
    perf_phase,         \* of PerfCounter::new
    opened,             \* pairs of a processor and a counter that is open there
    hw,                 \* [CPUs -> Seq of the counters' values]
    perf_events,        \* the ring buffer
    previous_values,    \* [pairs of a processor and a counter -> value]
    shown,              \* ghost: [the same pairs -> the sum of the increments sent]
    first_values,       \* ghost: [the same pairs -> the first value received]
    ipc_shown           \* ghost: the quotients sent, as [instructions, cycles]

perfVars == <<perf_config, perf_phase, opened, hw, perf_events, previous_values, shown,
              first_values, ipc_shown>>

-----------------------------------------------------------------------------
(* PerfCounterConfig.                                                       *)

Plain(name) == [name |-> name, derived_only |-> FALSE]
ForIpc(name) == [name |-> name, derived_only |-> TRUE]

expand_counters_swapped(config) ==
    FlattenSeq([i \in DOMAIN config |->
        IF config[i] = "ipc" THEN <<ForIpc("cpu-instructions"), ForIpc("cpu-cycles")>>
        ELSE <<Plain(config[i])>>])

\* ipc stands for two counters of its own, which are not shown themselves.
expand_counters(config) ==
    FlattenSeq([i \in DOMAIN config |->
        IF config[i] = "ipc" THEN <<ForIpc("cpu-cycles"), ForIpc("cpu-instructions")>>
        ELSE <<Plain(config[i])>>])

perf_validate(config) ==
    LET counters == expand_counters(config)
    IN  /\ counters # <<>> /\ Len(counters) <= MAX_PERF_COUNTERS
        /\ \A i \in DOMAIN counters : counters[i].name \in NamedCounters

counters == expand_counters(perf_config)

\* Where the two counters of each ipc are: neighbours, in either order.
Pairs == {i \in 1 .. (Len(counters) - 1) :
             /\ counters[i].derived_only /\ counters[i + 1].derived_only
             /\ (Cardinality({j \in 1 .. i : counters[j].derived_only}) % 2) = 1}
CyclesIdx(i) == IF counters[i].name = "cpu-cycles" THEN i ELSE i + 1
InstructionsIdx(i) == IF counters[i].name = "cpu-cycles" THEN i + 1 ELSE i

-----------------------------------------------------------------------------
(* PerfCounter::new.                                                        *)

perf_attach ==
    /\ perf_phase = "new"
    /\ perf_phase' = IF perf_validate(perf_config) THEN "opening" ELSE "failed"
    /\ hw' = [c \in CPUs |-> [i \in DOMAIN counters |-> 0]]
    /\ UNCHANGED <<perf_config, opened, perf_events, previous_values, shown, first_values, ipc_shown>>

\* A counter is opened on every processor before the next one; an error of
\* perf_event_open ends new() and takes the timers with it.
perf_open(c) ==
    /\ perf_phase = "opening"
    /\ \E i \in DOMAIN counters :
           /\ \A j \in 1 .. (i - 1) : \A d \in CPUs : <<d, j>> \in opened
           /\ <<c, i>> \notin opened
           /\ \/ opened' = opened \cup {<<c, i>>} /\ UNCHANGED perf_phase
              \/ perf_phase' = "failed" /\ UNCHANGED opened
    /\ UNCHANGED <<perf_config, hw, perf_events, previous_values, shown, first_values, ipc_shown>>

perf_running ==
    /\ perf_phase = "opening" /\ opened = CPUs \X DOMAIN counters
    /\ perf_phase' = "running"
    /\ UNCHANGED <<perf_config, opened, hw, perf_events, previous_values, shown, first_values,
                   ipc_shown>>

-----------------------------------------------------------------------------
(* The counters, and the timer program.                                     *)

\* A processor retires at most one instruction in a cycle.
Count(c) ==
    /\ perf_phase \in {"opening", "running"}
    /\ \A i \in DOMAIN counters : hw[c][i] < MaxCount
    /\ \E retired, other \in 0 .. 1 :
           hw' = [hw EXCEPT ![c] = [i \in DOMAIN counters |->
                     IF <<c, i>> \notin opened THEN @[i]
                     ELSE @[i] + (CASE counters[i].name = "cpu-cycles" -> 1
                                    [] counters[i].name = "cpu-instructions" -> retired
                                    [] OTHER -> other)]]
    /\ UNCHANGED <<perf_config, perf_phase, opened, perf_events, previous_values, shown,
                   first_values, ipc_shown>>

\* A counter that is not open yet reads as 0; an event that finds no room is lost.
perfcounter_timer(c) ==
    /\ perf_phase \in {"opening", "running"}
    /\ Len(perf_events) < PerfRingCap
    /\ perf_events' = Append(perf_events,
           [cpu |-> c, values |-> [i \in DOMAIN counters |-> IF <<c, i>> \in opened THEN hw[c][i] ELSE 0]])
    /\ UNCHANGED <<perf_config, perf_phase, opened, hw, previous_values, shown, first_values,
                   ipc_shown>>

-----------------------------------------------------------------------------
(* The ring buffer callback.                                                *)

delta_whole(e, i) ==
    LET key == <<e.cpu, i>>
    IN  IF key \notin DOMAIN previous_values \/ e.values[i] < previous_values[key]
          THEN e.values[i] ELSE e.values[i] - previous_values[key]

\* The increment of counter i since the last event of its processor; a value
\* that went back counts as a counter that began anew.
delta(e, i) ==
    LET key == <<e.cpu, i>>
    IN  IF key \notin DOMAIN previous_values THEN 0
        ELSE IF e.values[i] >= previous_values[key] THEN e.values[i] - previous_values[key]
        ELSE e.values[i]

update_previous_values(e) ==
    previous_values' = [k \in DOMAIN previous_values \cup ({e.cpu} \X DOMAIN counters) |->
                           IF k[1] = e.cpu THEN e.values[k[2]] ELSE previous_values[k]]

\* Counters that only serve a derived one are left out.
Regular(e) == {e.cpu} \X {i \in DOMAIN counters : ~counters[i].derived_only}

process_regular_counters(e) ==
    shown' = [k \in DOMAIN shown \cup Regular(e) |->
                 (IF k \in DOMAIN shown THEN shown[k] ELSE 0)
                     + (IF k[1] = e.cpu THEN delta(e, k[2]) ELSE 0)]

process_derived_counters(e) ==
    ipc_shown' = ipc_shown \cup
        {[instructions |-> delta(e, InstructionsIdx(i)), cycles |-> delta(e, CyclesIdx(i))] : i \in Pairs}

perf_consume ==
    /\ perf_phase = "running" /\ perf_events # <<>>
    /\ LET e == Head(perf_events)
       IN  /\ process_regular_counters(e)
           /\ process_derived_counters(e)
           /\ update_previous_values(e)
           /\ first_values' = [k \in DOMAIN first_values \cup Regular(e) |->
                  IF k \in DOMAIN first_values THEN first_values[k] ELSE e.values[k[2]]]
    /\ perf_events' = Tail(perf_events)
    /\ UNCHANGED <<perf_config, perf_phase, opened, hw>>

PerfCounterIdle ==
    /\ perf_phase = "new"
    /\ opened = {} /\ hw = [c \in CPUs |-> <<>>]
    /\ perf_events = <<>>
    /\ previous_values = [k \in {} |-> 0] /\ shown = [k \in {} |-> 0]
    /\ first_values = [k \in {} |-> 0]
    /\ ipc_shown = {}

PerfCounterNext ==
    \/ perf_attach \/ perf_running \/ perf_consume
    \/ \E c \in CPUs : perf_open(c) \/ Count(c) \/ perfcounter_timer(c)

-----------------------------------------------------------------------------
\* The increments in the trace add up to what the counter went up by between the
\* first and the last event that came through, although timers fire before the
\* counters are open and events are lost in between.
IncrementsAddUp ==
    \A k \in DOMAIN shown :
        shown[k] = previous_values[k] - first_values[k] /\ previous_values[k] <= hw[k[1]][k[2]]

\* No quotient exceeds what the processor can retire: the instructions are those
\* of the cycles they are divided by, or of a part of them, also when the timer
\* fires between the opening of the two counters.
IpcNotOverstated == \A q \in ipc_shown : q.instructions <= q.cycles
=============================================================================

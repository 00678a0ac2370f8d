\* The tracer with a map of one entry and the meter with room for one event, each
\* on the same tracepoints, with the filter off, or on and filled while tracing.
SPECIFICATION Spec
CONSTANTS
    t1 = t1  t2 = t2  Idle = Idle
    c1 = c1  c2 = c2
    CPUs = {c1, c2}
    Tids = {t1, t2}
    MaxTime = 3
    MaxSteps = 7
    StatesCap = 1
    SpanRingCap = 1
    CpuRingCap = 1
    nprocs = 2
    Attachments = {{"schedtrace"}, {"cpuutil"}, {"perfcounter"}}
    NamedCounters = {"cpu-cycles", "cpu-instructions", "faults"}
    MAX_PERF_COUNTERS = 3
    PerfRingCap = 2
    MaxCount = 2
    PerfConfigs <- MCPerfConfigs
    TgidOf <- MCTgidOf
SYMMETRY Symmetry
INVARIANTS SpansDisjoint SpansTrue  CpuTimeExact IncrementsAddUp 
CHECK_DEADLOCK FALSE

\* Callbacks of two threads while sessions begin and end.
SPECIFICATION Spec
CONSTANTS
    t1 = t1  t2 = t2  None = None
    Threads = {t1, t2}
    Named = {t1}
    Spans = {"s"}
    Sites = {"debug", "info"}
    OwnPid = "own"
    MaxCallbacks = 4
    MaxFailures = 1
    Sessions <- MCSessions
    Offset <- MCOffset
INVARIANTS NamedFirst FilterHonoured SpanTimesTrue
CHECK_DEADLOCK FALSE

SPECIFICATION Spec
CONSTANTS
    r1 = r1  r2 = r2  d1 = d1  d2 = d2  None = None
    Requests = {r1, r2}
    Devs = {d1, d2}
    DepthDevs = {d1}
    Ops = {"read"}
    Lens = {2}
    NsPerMicro = 1
    HISTOGRAM_BUCKETS = 4
    RingCap = 1
    Interval = 3
    MaxTime = 4
    MaxEvents = 4
    Configs <- MCConfigs
    Clocks <- MCClocks
    DevOf <- MCDevOf
SYMMETRY Symmetry
INVARIANTS DepthExact    FlushReportsAll PercentileBound
CHECK_DEADLOCK FALSE

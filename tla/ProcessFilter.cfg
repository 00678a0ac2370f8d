\* Processes come and go around the attach, the walk over /proc and the drain of
\* a ring buffer of two records; the filter map of a module holds one process.
SPECIFICATION Spec
CONSTANTS
    p1 = p1  p2 = p2  t1 = t1  None = None  Junk = "junk"
    Tgids = {p1, p2}
    Tids = {t1}
    Programs = {"/bin/srv", "/bin/cat"}
    Comms = {"nonutf8"}
    BadComms = {"nonutf8"}
    Modules = {"cpuutil", "nettrack"}
    RingSlots = 2
    FilterCap = 1
    MaxSteps = 4
    BaseOf <- MCBaseOf
    CommOf <- MCCommOf
    Configs <- MCConfigs
INVARIANTS NoSilentModule  SameFilterSameTrace DiscoveredSound
 
CHECK_DEADLOCK FALSE

\* A filtered program, another one, and a ring buffer on its second lap.
SPECIFICATION Spec
CONSTANTS
    p1 = p1  p2 = p2  t1 = t1  None = None  Junk = "junk"
    Tgids = {p1, p2}
    Tids = {t1}
    Programs = {"/bin/srv", "/bin/cat"}
    Comms = {}
    BadComms = {}
    Modules = {"cpuutil", "nettrack"}
    RingSlots = 2
    FilterCap = 2
    MaxSteps = 4
    BaseOf <- MCBaseOf
    CommOf <- MCCommOf
    Configs <- MCStaleConfigs
INVARIANT OnlyMatchingTraced
CHECK_DEADLOCK FALSE

SPECIFICATION Spec
CONSTANTS
    c1 = c1  c2 = c2  p1 = p1  p2 = p2  a1 = a1  None = None
    Cpus = {c1, c2}
    Procs = {p1, p2}
    Remotes = {a1}
    Interval = 1
    PeerInterval = 2
    MaxTime = 3
    MaxCalls = 3
    CallKinds <- MCCallKinds
    Configs <- MCConfigs
SYMMETRY Symmetry
INVARIANTS  NeverOvercounted 
CHECK_DEADLOCK FALSE

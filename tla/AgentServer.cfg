\* Two connections on which requests pile up: several are read at once, and the
\* process id is asked for in several ways.
SPECIFICATION ServerSpec
CONSTANTS
    i1 = i1  i2 = i2  None = None
    Conns = {i1, i2}
    HasExtension = TRUE
    StartKinds = {"good", "badring", "badfilter"}
    PidOptions = {"true", "other"}
    AgentVersion = "v1"
    MaxQueue = 2
SYMMETRY Symmetry
INVARIANTS SessionConsistent RecordingFollowsSession 
CHECK_DEADLOCK FALSE

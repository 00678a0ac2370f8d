\* One client making any four calls, on at most two connections, against a slow
\* agent; it may die or fall silent.
SPECIFICATION SystemSpec
CONSTANTS
    i1 = i1  i2 = i2  c1 = c1  None = None
    Conns = {i1, i2}
    Clients = {c1}
    HasExtension = TRUE
    StartKinds = {"good"}
    PidOptions = {"absent"}
    AgentVersion = "v1"
    ClientVersion = "v1"
    SlowAgent = TRUE
    MaxQueue = 4
    MaxCalls = 4
 
PROPERTIES LostSessionEnds 
CHECK_DEADLOCK FALSE

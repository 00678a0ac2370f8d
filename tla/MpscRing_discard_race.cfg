\* Two producers, one of which discards its records.
SPECIFICATION SafetySpec
CONSTANTS
    p1 = p1  p2 = p2  Nobody = Nobody
    Producers = {p1, p2}
    Discarders = {p1, p2}
    Counting = {}
    Forced = {}
    Crashers = {}
    Polling = TRUE
    RingSize = 2
    Lens = {0}
    U32 = 32
    MaxReserves = 2
INVARIANT HeldRecordCommitted

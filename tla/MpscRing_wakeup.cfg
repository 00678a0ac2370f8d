\* Two producers that always notify and a consumer that waits: is a wakeup ever
\* lost?  One may discard, the other may die with the lock; the ring is large
\* enough never to wrap.
SPECIFICATION Spec
CONSTANTS
    p1 = p1  p2 = p2  Nobody = Nobody
    Producers = {p1, p2}
    Discarders = {p2}
    Counting = {}
    Forced = {p1, p2}
    Crashers = {p1}
    Polling = FALSE
    RingSize = 8
    Lens = {0}
    U32 = 64
    MaxReserves = 2
PROPERTIES EveryRecordPassed ReserveReturns
CHECK_DEADLOCK FALSE

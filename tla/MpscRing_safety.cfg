\* Two producers, records of one to three words in a ring of four; one length
\* never fits.  Nobody discards; either producer may die anywhere; the
\* consumer polls, as the kinetrace collector does.
SPECIFICATION SafetySpec
CONSTANTS
    p1 = p1  p2 = p2  Nobody = Nobody
    Producers = {p1, p2}
    Discarders = {}
    Counting = {p1, p2}
    Forced = {}
    Crashers = {p1, p2}
    Polling = TRUE
    RingSize = 4
    Lens = {0, 8, 9, 24}
    U32 = 32
    MaxReserves = 2
SYMMETRY Symmetry
INVARIANTS IInv NeverOverrun UnreadIntact HeldRecordIntact
PROPERTY ImplementsQueue

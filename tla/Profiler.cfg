\* Messages in any order, one write of which fails; samples of two processes
\* whose traces share a bucket and a frame.
SPECIFICATION Spec
CONSTANTS
    None = None
    Pids = {1, 2}
    Customs = {7}
    Counters = {8}
    Addresses = {"a", "b", "k"}
    Known = {"a", "k"}
    MaxFailures = 1
    MaxMessages = 3
    SampleRingCap = 2
    TidsOf <- MCTidsOf
    UserTraces <- MCUserTraces
    KernelTraces <- MCKernelTraces
    BucketOf <- MCBucketOf
INVARIANTS TracksFirst SlicesClosed  StacksDistinct
CHECK_DEADLOCK FALSE

---------------------------- MODULE MCBlockTrack ----------------------------
EXTENDS BlockTrack, TLC

CONSTANTS r1, r2, d1, d2

Base ==
    [frequency |-> 9, operations |-> {"read"}, devices |-> {}, max_devices |-> 2,
     metrics |-> Metrics, max_requests |-> 2, timeline |-> TRUE,
     timeline_sample_every |-> 1, timeline_min_latency_ns |-> 0, ringbuf_ok |-> TRUE]

MCConfigs ==
    {Base,
     [Base EXCEPT !.max_requests = 1, !.timeline_sample_every = 2,
                  !.timeline_min_latency_ns = 2, !.max_devices = 1],
     [Base EXCEPT !.metrics = {"throughput", "errors"}, !.timeline = FALSE],
     [Base EXCEPT !.devices = {d2}],
     [Base EXCEPT !.frequency = 0],
     [Base EXCEPT !.devices = {d1, d2}, !.max_devices = 1]}

MCClocks ==
    {[strict |-> TRUE, skew |-> 0], [strict |-> TRUE, skew |-> 1],
     [strict |-> FALSE, skew |-> 0]}

MCDevOf == [r \in Requests |-> d1]

Symmetry == Permutations(Requests)

=============================================================================

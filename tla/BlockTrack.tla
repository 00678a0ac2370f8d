----------------------------- MODULE BlockTrack -----------------------------
(***************************************************************************)
(* The block I/O tracker: the BPF programs that follow every request       *)
(* through the block layer (bpf/src/bpf/blocktrack.bpf.c) and the sampler  *)
(* that turns their maps and ring buffer into a trace (blocktrack.rs).     *)
(*                                                                         *)
(* A handler runs where the block layer hits its tracepoint, on any CPU.   *)
(* It reads the clock first and takes the depth lock later, so its         *)
(* timestamp may be up to clock.skew older than the moment its effects land.     *)
(* Handlers of one request never overlap.  The callback given by the       *)
(* kinetrace command always returns 0, so no emission is cut short.        *)
(***************************************************************************)
EXTENDS Integers, FiniteSets, Sequences

CONSTANTS
    Requests,           \* addresses of struct request
    Devs,               \* physical devices
    DevOf,              \* the device a request's tag set belongs to
    Ops,                \* operations
    Lens,               \* sizes of a request, in bytes
    Configs,            \* the [bpf.block_io] sections a user may write
    DepthDevs,          \* what discover_physical_devices() finds
    Clocks,             \* [strict, skew]: how the clock may behave
    None,
    NsPerMicro,         \* 1000 in the code
    HISTOGRAM_BUCKETS,  \* 32 in the code
    RingCap,            \* spans the ring buffer holds
    Interval,           \* ns between two samples, 10^9 / frequency
    MaxTime,            \* bound: the last instant explored
    MaxEvents           \* bound: tracepoint hits explored

ASSUME BlockAssumption ==
    /\ DevOf \in [Requests -> Devs]
    /\ DepthDevs \subseteq Devs
    /\ Lens \subseteq Nat \ {0}
    /\ Clocks \subseteq [strict : BOOLEAN, skew : Nat]
    /\ \A c \in Configs : c.operations \subseteq Ops /\ c.max_requests \in Nat /\ c.max_devices \in Nat
    /\ NsPerMicro \in Nat \ {0} /\ HISTOGRAM_BUCKETS \in Nat \ {0, 1}
    /\ RingCap \in Nat \ {0} /\ Interval \in Nat \ {0}
    /\ MaxTime \in Nat /\ MaxEvents \in Nat

Buckets == 0 .. HISTOGRAM_BUCKETS - 1

\* What the maps hold: struct request_state, device_depth and device_stats.
RequestStates ==
    [first_seen_ns : Nat, issue_ns : Nat, service_ns : Nat, bytes : Nat,
     remaining_bytes : Nat, dev : Devs, operation : Ops, requeues : Nat,
     inserted : BOOLEAN, issued : BOOLEAN]

DeviceDepths ==
    [first_seen_ns : Nat, last_update_ns : Nat, busy_ns : Nat, saturated_ns : Nat,
     inflight_ns : Int, queued_ns : Int, inflight : Nat, queued : Nat,
     max_inflight : Nat, max_queued : Nat]

OperationStats ==
    [bytes : Nat, operations : Nat, errors : Nat, queue : Nat, service : Nat,
     total : Nat, total_histogram : [Buckets -> Nat]]

DeviceStats ==
    [operations : [Ops -> OperationStats], requeues : Nat, lost_requests : Nat,
     timeline_drops : Nat, first_seen_ns : Nat]

\* What the sampler keeps of a depth until the next sample.
Snapshots == [first_seen_ns : Nat, busy_ns : Nat, inflight_ns : Int]

ASSUME NoneAssumption ==
    None \notin RequestStates \cup DeviceDepths \cup DeviceStats \cup Snapshots \cup Nat

VARIABLES
    phase,              \* "config", "running", "failed" or "flushed"
    cfg,                \* the section build() was given
    clock,              \* strict: two events of a request never share a timestamp;
                        \* skew: how far a timestamp may lag behind its effects
    now, hits,          \* the clock; tracepoints hit so far
    blk,                \* the block layer's own view of each request
    requests,           \* BPF map: request -> request_state or None
    device_stats,       \* BPF map: device -> device_stats or None
    device_depths,      \* BPF map: device -> device_depth or None
    ring,               \* BPF ring buffer of request spans
    last_sample_ns, previous_stats, previous_depth,
    reported,           \* what the counters emitted so far add up to
    finished,           \* history: requests the block layer has finished
    unseen,             \* history: the tracker missed the start of a request
    window,             \* history: total latencies (us) since the last sample
    percentiles         \* history: the last sample's percentiles and the truth

config   == <<phase, cfg, clock>>
kernel   == <<requests, device_stats, device_depths, ring>>
sampler  == <<last_sample_ns, previous_stats, previous_depth, reported, percentiles>>
history  == <<finished, unseen, window>>
vars     == <<config, now, hits, blk, kernel, sampler, history>>

(***************************************************************************)
(* Configuration: BlockIoConfig and BlockIo::new.                          *)
(***************************************************************************)
Metrics == {"throughput", "iops", "latency", "saturation", "errors"}

has_metric(c, m) == m \in c.metrics

validate(c) ==
    /\ c.frequency # 0
    /\ c.operations # {} /\ c.metrics # {}
    /\ c.max_devices # 0 /\ c.max_requests # 0
    /\ c.timeline_sample_every # 0
    /\ c.timeline => c.ringbuf_ok

\* The devices whose depth is followed: chosen once, before the programs attach.
depth_devices(c) ==
    IF ~has_metric(c, "saturation") THEN {}
    ELSE IF c.devices = {} THEN DepthDevs ELSE c.devices

limits_ok(c) ==
    /\ Cardinality(c.devices) <= c.max_devices
    /\ Cardinality(depth_devices(c)) <= c.max_devices

request_tracking(c) ==
    c.timeline \/ \E m \in {"iops", "latency", "saturation"} : has_metric(c, m)

operations_enabled(c) == has_metric(c, "iops") \/ has_metric(c, "latency")

should_track(d, op) == op \in cfg.operations /\ (cfg.devices # {} => d \in cfg.devices)

(***************************************************************************)
(* Queue depth: adjust_depth() under the device's spin lock.               *)
(***************************************************************************)
NewDepth(t) ==
    [first_seen_ns |-> t, last_update_ns |-> t, busy_ns |-> 0, saturated_ns |-> 0,
     inflight_ns |-> 0, queued_ns |-> 0, inflight |-> 0, queued |-> 0,
     max_inflight |-> 0, max_queued |-> 0]

Larger(a, b) == IF a > b THEN a ELSE b

\* Mutant: the last request is never taken off.
MovedStuck(count, delta) ==
    IF delta > 0 THEN count + 1
    ELSE IF delta < 0 /\ count > 1 THEN count - 1 ELSE count

Moved(count, delta) ==
    IF delta > 0 THEN count + 1
    ELSE IF delta < 0 /\ count > 0 THEN count - 1 ELSE count

\* Mutant: the time of the last update is kept.
AdjustedStale(dp, queued_delta, inflight_delta, t) ==
    LET elapsed == IF t > dp.last_update_ns THEN t - dp.last_update_ns ELSE 0
    IN  [dp EXCEPT !.busy_ns = IF dp.inflight > 0 THEN @ + elapsed ELSE @,
                   !.queued = Moved(@, queued_delta), !.inflight = Moved(@, inflight_delta)]

Adjusted(dp, queued_delta, inflight_delta, t) ==
    LET elapsed  == IF t > dp.last_update_ns THEN t - dp.last_update_ns ELSE 0
        queued   == Moved(dp.queued, queued_delta)
        inflight == Moved(dp.inflight, inflight_delta)
    IN  [dp EXCEPT !.busy_ns = IF dp.inflight > 0 THEN @ + elapsed ELSE @,
                   !.saturated_ns = IF dp.queued > 0 THEN @ + elapsed ELSE @,
                   !.inflight_ns = @ + elapsed * dp.inflight,
                   !.queued_ns = @ + elapsed * dp.queued,
                   !.queued = queued,
                   !.inflight = inflight,
                   !.max_queued = Larger(@, queued),
                   !.max_inflight = Larger(@, inflight),
                   !.last_update_ns = t]

\* dps is device_depths, or what an earlier adjustment of the handler left.
adjust_depth(dps, d, queued_delta, inflight_delta, t) ==
    IF ~has_metric(cfg, "saturation") \/ dps[d] = None THEN dps
    ELSE [dps EXCEPT ![d] = Adjusted(@, queued_delta, inflight_delta, t)]

(***************************************************************************)
(* Per-device statistics.  sts is device_stats, or what an earlier update  *)
(* of the same handler left of it.                                         *)
(***************************************************************************)
ZeroOp ==
    [bytes |-> 0, operations |-> 0, errors |-> 0, queue |-> 0, service |-> 0,
     total |-> 0, total_histogram |-> [b \in Buckets |-> 0]]

ZeroStats(t) ==
    [operations |-> [op \in Ops |-> ZeroOp], requeues |-> 0, lost_requests |-> 0,
     timeline_drops |-> 0, first_seen_ns |-> t]

get_device_stats(sts, d, t) ==
    IF sts[d] # None \/ Cardinality({e \in Devs : sts[e] # None}) >= cfg.max_devices
    THEN sts
    ELSE [sts EXCEPT ![d] = ZeroStats(t)]

\* The counter is bumped unless the map had no room for the device.
Bump(sts, d, t, Change(_)) ==
    LET got == get_device_stats(sts, d, t)
    IN  IF got[d] = None THEN got ELSE [got EXCEPT ![d] = Change(@)]

\* 1 << k, for the shifts the histogram is made of.
Bit[k \in 0 .. HISTOGRAM_BUCKETS] == IF k = 0 THEN 1 ELSE 2 * Bit[k - 1]

latency_bucket(ns) ==
    LET micros == ns \div NsPerMicro
    IN  IF micros <= 1 THEN 0
        ELSE IF micros >= Bit[HISTOGRAM_BUCKETS - 1] THEN HISTOGRAM_BUCKETS - 1
        ELSE CHOOSE b \in Buckets : Bit[b] <= micros /\ micros < Bit[b + 1]

record_bytes(sts, d, op, bytes, error, t) ==
    LET counted == error /\ has_metric(cfg, "errors")
        Add(s) == [s EXCEPT !.operations[op].bytes =
                                IF has_metric(cfg, "throughput") THEN @ + bytes ELSE @,
                            !.operations[op].errors = IF counted THEN @ + 1 ELSE @]
    IN  IF has_metric(cfg, "throughput") \/ counted THEN Bump(sts, d, t, Add) ELSE sts

record_completion(sts, d, op, queue_ns, service_ns, total_ns, t) ==
    LET Count(o) == [o EXCEPT !.operations = @ + 1]
        Time(o) == IF ~has_metric(cfg, "latency") THEN o
                   ELSE [o EXCEPT !.queue = @ + queue_ns, !.service = @ + service_ns,
                                  !.total = @ + total_ns,
                                  !.total_histogram[latency_bucket(total_ns)] = @ + 1]
        Add(s) == [s EXCEPT !.operations[op] = Time(Count(@))]
    IN  IF operations_enabled(cfg) THEN Bump(sts, d, t, Add) ELSE sts

record_lost_request(sts, d, t) ==
    LET Add(s) == [s EXCEPT !.lost_requests = @ + 1]
    IN  IF has_metric(cfg, "errors") THEN Bump(sts, d, t, Add) ELSE sts

(***************************************************************************)
(* Request states and spans.                                               *)
(***************************************************************************)
Room == Cardinality({r \in Requests : requests[r] # None}) < cfg.max_requests

\* Mutant: the bytes left to complete are not those of the request.
NewRequestShort(r, op, len, t, inserted) ==
    [first_seen_ns |-> t, issue_ns |-> 0, service_ns |-> 0, bytes |-> len,
     remaining_bytes |-> 1, dev |-> DevOf[r], operation |-> op, requeues |-> 0,
     inserted |-> inserted, issued |-> FALSE]

NewRequest(r, op, len, t, inserted) ==
    [first_seen_ns |-> t, issue_ns |-> 0, service_ns |-> 0, bytes |-> len,
     remaining_bytes |-> len, dev |-> DevOf[r], operation |-> op, requeues |-> 0,
     inserted |-> inserted, issued |-> FALSE]

\* A span is sampled out, dropped because the ring is full, or submitted.
emit_request_span(sts, r, state, start_ns, end_ns, service_ns, total_ns, completed) ==
    LET span == [request |-> r, dev |-> state.dev, start |-> start_ns, end |-> end_ns,
                 service |-> service_ns, completed |-> completed]
        Drop(s) == [s EXCEPT !.timeline_drops = @ + 1]
        full == Len(ring) >= RingCap
        wanted == /\ cfg.timeline /\ end_ns > start_ns
                  /\ total_ns >= cfg.timeline_min_latency_ns
    IN  \/ /\ ~wanted \/ cfg.timeline_sample_every > 1
           /\ ring' = ring /\ device_stats' = sts
        \/ /\ wanted
           /\ IF full
              THEN ring' = ring /\ device_stats' = Bump(sts, state.dev, end_ns, Drop)
              ELSE ring' = Append(ring, span) /\ device_stats' = sts

(***************************************************************************)
(* The tracepoint handlers: effects on the maps and the ring buffer.       *)
(***************************************************************************)
Tracked(r, op) == request_tracking(cfg) /\ should_track(DevOf[r], op)

\* create_request() for a request first seen when it is inserted.
create_inserted(r, op, len, t) ==
    /\ UNCHANGED ring
    /\ IF Room
       THEN /\ requests' = [requests EXCEPT ![r] = NewRequest(r, op, len, t, TRUE)]
            /\ device_depths' = adjust_depth(device_depths, DevOf[r], 1, 0, t)
            /\ UNCHANGED device_stats
       ELSE /\ device_stats' = record_lost_request(device_stats, DevOf[r], t)
            /\ UNCHANGED <<requests, device_depths>>

trace_block_rq_insert(r, op, len, t) ==
    LET state == requests[r]
        fresh == ~state.inserted /\ ~state.issued
    IN  \/ ~Tracked(r, op) /\ UNCHANGED kernel
        \/ Tracked(r, op) /\ state = None /\ create_inserted(r, op, len, t)
        \/ /\ Tracked(r, op) /\ state # None
           /\ requests' = [requests EXCEPT
                 ![r].bytes = len,
                 ![r].remaining_bytes = Larger(@, len),
                 ![r].inserted = @ \/ fresh]
           /\ device_depths' = IF fresh THEN adjust_depth(device_depths, DevOf[r], 1, 0, t)
                               ELSE device_depths
           /\ UNCHANGED <<device_stats, ring>>

trace_block_rq_merge(r, len) ==
    /\ requests' = IF ~request_tracking(cfg) \/ requests[r] = None THEN requests
                   ELSE [requests EXCEPT ![r].bytes = len, ![r].remaining_bytes = len]
    /\ UNCHANGED <<device_stats, device_depths, ring>>

trace_block_rq_issue(r, op, len, t) ==
    LET d == DevOf[r]
        state == IF requests[r] # None THEN requests[r] ELSE NewRequest(r, op, len, t, FALSE)
        dequeued == IF state.inserted THEN adjust_depth(device_depths, d, -1, 0, t)
                    ELSE device_depths
    IN  \/ ~Tracked(r, op) /\ UNCHANGED kernel
        \/ /\ Tracked(r, op) /\ requests[r] = None /\ ~Room
           /\ device_stats' = record_lost_request(device_stats, d, t)
           /\ UNCHANGED <<requests, device_depths, ring>>
        \/ /\ Tracked(r, op) /\ (requests[r] # None \/ Room)
           /\ device_depths' = IF state.issued THEN dequeued
                               ELSE adjust_depth(dequeued, d, 0, 1, t)
           /\ requests' = [requests EXCEPT ![r] =
                 [state EXCEPT !.inserted = FALSE, !.issued = TRUE, !.issue_ns = t,
                               !.bytes = len,
                               !.remaining_bytes = IF @ = 0 THEN len ELSE @]]
           /\ UNCHANGED <<device_stats, ring>>

\* Mutant: the attempt must have lasted more than one tick.
AttemptLong(state, t) == IF state.issued /\ t > state.issue_ns + 1 THEN t - state.issue_ns ELSE 0

\* What requeue and complete do with an attempt that was issued before now.
Attempt(state, t) == IF state.issued /\ t > state.issue_ns THEN t - state.issue_ns ELSE 0

trace_block_rq_requeue(r, op, t) ==
    LET d == DevOf[r]
        Add(s) == [s EXCEPT !.requeues = @ + 1]
        counted == IF has_metric(cfg, "errors") THEN Bump(device_stats, d, t, Add)
                   ELSE device_stats
        state == requests[r]
        attempt == Attempt(state, t)
        ended == [state EXCEPT !.service_ns = @ + attempt,
                               !.issued = @ /\ attempt = 0,
                               !.requeues = @ + 1]
    IN  \/ ~should_track(d, op) /\ UNCHANGED kernel
        \/ /\ should_track(d, op) /\ (~request_tracking(cfg) \/ state = None)
           /\ device_stats' = counted
           /\ UNCHANGED <<requests, device_depths, ring>>
        \/ /\ Tracked(r, op) /\ state # None
           /\ device_depths' = IF attempt > 0 THEN adjust_depth(device_depths, state.dev, 0, -1, t)
                               ELSE device_depths
           /\ emit_request_span(counted, r, ended, state.issue_ns, t, attempt,
                                t - state.first_seen_ns, FALSE)
           /\ requests' = [requests EXCEPT ![r] = [ended EXCEPT !.issue_ns = 0]]

trace_block_rq_complete(r, op, error, nr_bytes, t) ==
    LET d == DevOf[r]
        bytes == record_bytes(device_stats, d, op, nr_bytes, error, t)
        state == requests[r]
        complete == error \/ nr_bytes >= state.remaining_bytes
        attempt == Attempt(state, t)
        service == state.service_ns + attempt
        total == Larger(0, t - state.first_seen_ns)
        queue == Larger(0, total - service)
        started == IF state.issue_ns # 0 THEN state.issue_ns ELSE state.first_seen_ns
        landed == IF attempt > 0 THEN adjust_depth(device_depths, state.dev, 0, -1, t)
                  ELSE device_depths
    IN  \/ ~should_track(d, op) /\ UNCHANGED kernel
        \/ /\ should_track(d, op) /\ ~request_tracking(cfg)
           /\ device_stats' = bytes
           /\ UNCHANGED <<requests, device_depths, ring>>
        \/ /\ Tracked(r, op) /\ state = None
           /\ device_stats' = record_completion(bytes, d, op, 0, 0, 0, t)
           /\ UNCHANGED <<requests, device_depths, ring>>
        \/ /\ Tracked(r, op) /\ state # None /\ ~complete
           /\ requests' = [requests EXCEPT ![r].remaining_bytes = @ - nr_bytes]
           /\ device_stats' = bytes
           /\ UNCHANGED <<device_depths, ring>>
        \/ /\ Tracked(r, op) /\ state # None /\ complete
           /\ device_depths' = IF state.inserted THEN adjust_depth(landed, state.dev, -1, 0, t)
                               ELSE landed
           /\ emit_request_span(record_completion(bytes, state.dev, state.operation,
                                                  queue, service, total, t),
                                r, state, started, t, service, total, TRUE)
           /\ requests' = [requests EXCEPT ![r] = None]

(***************************************************************************)
(* The sampler.                                                            *)
(***************************************************************************)
Less(a, b) == Larger(0, a - b)

\* OperationStats::delta; only the fields the counters are computed from.
op_delta(o, p) ==
    [bytes |-> Less(o.bytes, p.bytes), operations |-> Less(o.operations, p.operations),
     errors |-> Less(o.errors, p.errors),
     total_histogram |-> [b \in Buckets |-> Less(o.total_histogram[b], p.total_histogram[b])]]

\* Mutant: nothing is subtracted.
stats_delta_total(s, p) == s

\* DeviceStats::delta: a map entry that was recreated is not subtracted from.
stats_delta(s, p) ==
    IF p = None \/ p.first_seen_ns # s.first_seen_ns THEN s
    ELSE [operations |-> [op \in Ops |-> op_delta(s.operations[op], p.operations[op])],
          requeues |-> Less(s.requeues, p.requeues),
          lost_requests |-> Less(s.lost_requests, p.lost_requests),
          timeline_drops |-> Less(s.timeline_drops, p.timeline_drops)]

\* DeviceDepth::snapshot extends the live depth to the time of the sample.
snapshot(dp, t) ==
    LET elapsed == Less(t, dp.last_update_ns)
    IN  [first_seen_ns |-> dp.first_seen_ns,
         busy_ns |-> dp.busy_ns + (IF dp.inflight > 0 THEN elapsed ELSE 0),
         inflight_ns |-> dp.inflight_ns + elapsed * dp.inflight]

busy_delta(s, p) ==
    IF p = None \/ p.first_seen_ns # s.first_seen_ns THEN s.busy_ns
    ELSE Less(s.busy_ns, p.busy_ns)

\* How many latencies the loop has passed when it has added a bucket.
cumulative(histogram) ==
    LET upto[b \in Buckets] == histogram[b] + (IF b = 0 THEN 0 ELSE upto[b - 1])
    IN  upto

FirstBucket(upto, target) ==
    CHOOSE b \in Buckets : upto[b] >= target /\ \A c \in Buckets : c < b => upto[c] < target

\* Mutant: the lower bound of the bucket.
histogram_percentile_low(histogram, percent) ==
    LET upto   == cumulative(histogram)
        target == (upto[HISTOGRAM_BUCKETS - 1] * percent + 99) \div 100
    IN  IF target = 0 THEN 0 ELSE Bit[FirstBucket(upto, target)]

histogram_percentile(histogram, percent) ==
    LET upto   == cumulative(histogram)
        total  == upto[HISTOGRAM_BUCKETS - 1]
        target == (total * percent + 99) \div 100
        bucket == FirstBucket(upto, target)
    IN  IF total = 0 THEN 0 ELSE IF bucket = 0 THEN 1 ELSE Bit[bucket + 1]

\* The nearest-rank percentile of the latencies themselves.
TruePercentile(lats, percent) ==
    LET AtMost(v) == Cardinality({i \in DOMAIN lats : lats[i] <= v})
        target == (Len(lats) * percent + 99) \div 100
    IN  IF lats = <<>> THEN 0
        ELSE CHOOSE v \in {lats[i] : i \in DOMAIN lats} :
                /\ AtMost(v) >= target
                /\ \A i \in DOMAIN lats : lats[i] < v => AtMost(lats[i]) < target

\* The counters of operation_samples() and of the error and timeline series:
\* a rate is its delta over the elapsed time, so the deltas are what adds up.
stats_samples(rep, delta) ==
    LET OpSum(op) ==
          [bytes |-> rep.operations[op].bytes +
               (IF has_metric(cfg, "throughput") THEN delta.operations[op].bytes ELSE 0),
           operations |-> rep.operations[op].operations +
               (IF has_metric(cfg, "iops") THEN delta.operations[op].operations ELSE 0),
           errors |-> rep.operations[op].errors +
               (IF has_metric(cfg, "errors") THEN delta.operations[op].errors ELSE 0)]
    IN  [rep EXCEPT
          !.operations = [op \in Ops |-> IF op \in cfg.operations THEN OpSum(op) ELSE @[op]],
          !.requeues = IF has_metric(cfg, "errors") THEN @ + delta.requeues ELSE @,
          !.lost_requests = IF has_metric(cfg, "errors") THEN @ + delta.lost_requests ELSE @,
          !.timeline_drops = IF cfg.timeline THEN @ + delta.timeline_drops ELSE @]

\* sample(): every device with statistics, and every device whose depth ever moved.
sample(t) ==
    LET seen  == {d \in Devs : device_stats[d] # None}
        moved == {d \in Devs : device_depths[d] # None /\
                    \/ device_depths[d].busy_ns > 0 \/ device_depths[d].saturated_ns > 0
                    \/ device_depths[d].max_inflight > 0 \/ device_depths[d].max_queued > 0}
        deep == {d \in seen \cup moved : device_depths[d] # None}
        delta == [d \in seen |-> stats_delta(device_stats[d], previous_stats[d])]
        snap == [d \in deep |-> snapshot(device_depths[d], t)]
        counted == [d \in Devs |->
                      IF d \in seen THEN stats_samples(reported[d], delta[d]) ELSE reported[d]]
    IN  /\ reported' = [d \in Devs |-> IF d \in deep
             THEN [counted[d] EXCEPT !.busy = @ + busy_delta(snap[d], previous_depth[d])]
             ELSE counted[d]]
        /\ previous_stats' = [d \in Devs |-> IF d \in seen THEN device_stats[d]
                                             ELSE previous_stats[d]]
        /\ previous_depth' = [d \in Devs |-> IF d \in deep THEN snap[d] ELSE previous_depth[d]]
        /\ percentiles' = IF ~has_metric(cfg, "latency") THEN {}
             ELSE {[shown |-> histogram_percentile(delta[d].operations[op].total_histogram, q),
                    true |-> TruePercentile(window[d][op], q)] :
                      d \in seen, op \in cfg.operations, q \in {50, 95, 99}}
        /\ window' = [d \in Devs |-> [op \in Ops |-> IF d \in seen THEN <<>> ELSE window[d][op]]]
        /\ last_sample_ns' = t

(***************************************************************************)
(* The block layer (external): a request is allocated, queued, handed to   *)
(* the driver, perhaps requeued, and completed, in parts or at once.       *)
(* block_rq_merge names a request that took part in a merge: it either     *)
(* grows, or is absorbed by another one and freed without completing.      *)
(***************************************************************************)
Stamp(r) ==
    {t \in Larger(1, now - clock.skew) .. MaxTime : t > blk[r].at \/ (~clock.strict /\ t = blk[r].at)}

\* A tracepoint is hit; its handler read the clock at t.
Hit(t) ==
    /\ phase = "running" /\ hits < MaxEvents
    /\ hits' = hits + 1 /\ now' = Larger(now, t)

RqInsert(r) ==
    /\ blk[r].st \in {"free", "requeued"}
    /\ \E op \in Ops, len \in Lens, t \in Stamp(r) :
          /\ blk[r].st = "requeued" => op = blk[r].op /\ len = blk[r].len
          /\ blk' = [blk EXCEPT ![r] = [st |-> "queued", op |-> op, len |-> len, at |-> t]]
          /\ Hit(t) /\ trace_block_rq_insert(r, op, len, t)
          /\ unseen' = (unseen \/ (Tracked(r, op) /\ requests'[r] = None))
    /\ UNCHANGED <<config, sampler, finished, window>>

RqMerge(r) ==
    /\ Hit(now)
    /\ blk[r].st = "queued"
    /\ \E len \in {blk[r].len, blk[r].len + 1}, absorbed \in BOOLEAN :
          /\ IF absorbed THEN len = blk[r].len ELSE len > blk[r].len /\ blk[r].len \in Lens
          /\ blk' = [blk EXCEPT ![r].len = IF absorbed THEN 0 ELSE len,
                                ![r].st = IF absorbed THEN "free" ELSE @]
          /\ trace_block_rq_merge(r, len)
          /\ unseen' = (unseen \/ absorbed)
    /\ UNCHANGED <<config, sampler, finished, window>>

RqIssue(r) ==
    /\ blk[r].st \in {"free", "queued", "requeued"}
    /\ \E op \in Ops, len \in Lens, t \in Stamp(r) :
          /\ blk[r].st # "free" => op = blk[r].op /\ len = blk[r].len
          /\ blk' = [blk EXCEPT ![r] = [st |-> "driver", op |-> op, len |-> len, at |-> t]]
          /\ Hit(t) /\ trace_block_rq_issue(r, op, len, t)
          /\ unseen' = (unseen \/ (Tracked(r, op) /\ requests'[r] = None))
    /\ UNCHANGED <<config, sampler, finished, window>>

RqRequeue(r) ==
    /\ blk[r].st = "driver"
    /\ \E t \in Stamp(r) :
          /\ blk' = [blk EXCEPT ![r].st = "requeued", ![r].at = t]
          /\ Hit(t) /\ trace_block_rq_requeue(r, blk[r].op, t)
    /\ UNCHANGED <<config, sampler, history>>

\* The latency record_completion() is given, None when it is not called.
Recorded(r, op, error, n, t) ==
    LET state == requests[r]
    IN  IF ~Tracked(r, op) \/ ~has_metric(cfg, "latency") \/ device_stats'[DevOf[r]] = None
        THEN None
        ELSE IF state = None THEN 0
        ELSE IF error \/ n >= state.remaining_bytes THEN Larger(0, t - state.first_seen_ns)
        ELSE None

RqComplete(r) ==
    /\ blk[r].st = "driver"
    /\ LET op == blk[r].op
           d  == DevOf[r]
       IN  \E n \in {1, blk[r].len}, error \in BOOLEAN, t \in Stamp(r) :
             /\ error => n = blk[r].len
             /\ blk' = [blk EXCEPT ![r].len = @ - n, ![r].at = t,
                                   ![r].st = IF n = blk[r].len THEN "free" ELSE @]
             /\ Hit(t) /\ trace_block_rq_complete(r, op, error, n, t)
             /\ finished' = IF n = blk[r].len THEN [finished EXCEPT ![d][op] = @ + 1]
                            ELSE finished
             /\ window' = LET ns == Recorded(r, op, error, n, t)
                              o  == IF requests[r] = None THEN op ELSE requests[r].operation
                          IN  IF ns = None THEN window
                              ELSE [window EXCEPT ![d][o] = Append(@, ns \div NsPerMicro)]
    /\ UNCHANGED <<config, sampler, unseen>>

(***************************************************************************)
(* build(), and the calls the kinetrace command makes.                     *)
(***************************************************************************)
build ==
    /\ phase = "config"
    /\ phase' = IF validate(cfg) /\ limits_ok(cfg) THEN "running" ELSE "failed"
    /\ device_depths' = IF phase' = "failed" THEN device_depths
                        ELSE [d \in Devs |-> IF d \in depth_devices(cfg) THEN NewDepth(now) ELSE None]
    /\ last_sample_ns' = now
    /\ UNCHANGED <<cfg, clock, now, hits, blk, requests, device_stats, ring,
                   previous_stats, previous_depth, reported, percentiles, history>>

SampleTimes == {t \in now - clock.skew .. MaxTime : t >= last_sample_ns}

\* consume() and poll(): the spans, then a sample when one is due.
consume ==
    /\ phase = "running"
    /\ ring' = <<>>
    /\ \E t \in SampleTimes :
          /\ now' = Larger(now, t)
          /\ \/ t - last_sample_ns >= Interval /\ sample(t)
             \/ t - last_sample_ns < Interval /\ UNCHANGED <<sampler, window>>
    /\ UNCHANGED <<config, hits, blk, requests, device_stats, device_depths, finished, unseen>>

flush ==
    /\ phase = "running" /\ phase' = "flushed"
    /\ ring' = <<>>
    /\ \E t \in SampleTimes : now' = Larger(now, t) /\ sample(t)
    /\ UNCHANGED <<cfg, clock, hits, blk, requests, device_stats, device_depths,
                   finished, unseen>>

Init ==
    /\ phase = "config" /\ cfg \in Configs /\ clock \in Clocks
    /\ now = 1 /\ hits = 0
    /\ \E busy \in SUBSET Requests, op \in Ops, len \in Lens :
          blk = [r \in Requests |-> [st |-> IF r \in busy THEN "driver" ELSE "free",
                                     op |-> op, len |-> IF r \in busy THEN len ELSE 0, at |-> 0]]
    /\ requests = [r \in Requests |-> None]
    /\ device_stats = [d \in Devs |-> None] /\ device_depths = [d \in Devs |-> None]
    /\ ring = <<>> /\ last_sample_ns = 0
    /\ previous_stats = [d \in Devs |-> None] /\ previous_depth = [d \in Devs |-> None]
    /\ reported = [d \in Devs |->
          [operations |-> [op \in Ops |-> [bytes |-> 0, operations |-> 0, errors |-> 0]],
           requeues |-> 0, lost_requests |-> 0, timeline_drops |-> 0, busy |-> 0]]
    /\ finished = [d \in Devs |-> [op \in Ops |-> 0]]
    /\ unseen = (\E r \in Requests : blk[r].st # "free")
    /\ window = [d \in Devs |-> [op \in Ops |-> <<>>]]
    /\ percentiles = {}

Next ==
    \/ build \/ consume \/ flush
    \/ \E r \in Requests :
          RqInsert(r) \/ RqMerge(r) \/ RqIssue(r) \/ RqRequeue(r) \/ RqComplete(r)

Spec == Init /\ [][Next]_vars

(***************************************************************************)
(* Properties.                                                             *)
(***************************************************************************)
Entries(d, P(_)) == Cardinality({r \in Requests : requests[r] # None /\ requests[r].dev = d
                                                  /\ P(requests[r])})

\* Every map the sampler reads stays within the limits the user configured,
\* and the depth of a device counts exactly the requests whose state says they
\* are queued or issued.  When two events of one request may share a timestamp
\* a completion at the instant of its issue leaks one in-flight request, so the
\* count is then only a lower bound.
DepthExact ==
    /\ Cardinality({r \in Requests : requests[r] # None}) <= cfg.max_requests
    /\ \A d \in Devs : device_depths[d] # None =>
         LET issued == Entries(d, LAMBDA s : s.issued)
         IN  /\ device_depths[d].queued = Entries(d, LAMBDA s : s.inserted)
             /\ device_depths[d].inflight >= issued
             /\ clock.strict => device_depths[d].inflight = issued

\* When the tracker has seen every request from its start, the depths are those
\* of the block layer itself: requests waiting in the queue, requests at the driver.
DepthTrue ==
    (clock.strict /\ ~unseen) =>
      \A d \in Devs : device_depths[d] # None =>
        LET At(st) == Cardinality({r \in Requests : DevOf[r] = d /\ blk[r].st = st
                                                    /\ Tracked(r, blk[r].op)})
        IN  device_depths[d].queued = At("queued") /\ device_depths[d].inflight = At("driver")

\* With the timestamps in the order of the updates, a device is never reported
\* busy for longer than the time sampled: the clamp to 100 percent hides nothing.
BusyBounded ==
    clock.skew = 0 => \A d \in Devs : device_depths[d] # None =>
        /\ device_depths[d].busy_ns <= device_depths[d].last_update_ns - device_depths[d].first_seen_ns
        /\ reported[d].busy <= last_sample_ns - device_depths[d].first_seen_ns

\* Every request the block layer finished is counted as one operation, however
\* many partial completions and requeues it took.
OperationsExact ==
    (~unseen /\ phase # "config" /\ request_tracking(cfg) /\ operations_enabled(cfg)) =>
      \A d \in Devs, op \in cfg.operations :
        /\ device_stats[d] # None => device_stats[d].operations[op].operations = finished[d][op]
        /\ device_stats[d] = None /\ should_track(d, op)
             /\ Cardinality({e \in Devs : device_stats[e] # None}) < cfg.max_devices
             => finished[d][op] = 0

\* After flush() the counters in the trace add up to what the kernel counted.
FlushReportsAll ==
    phase = "flushed" => \A d \in Devs : device_stats[d] # None =>
        /\ has_metric(cfg, "errors") => reported[d].requeues = device_stats[d].requeues
                                       /\ reported[d].lost_requests = device_stats[d].lost_requests
        /\ cfg.timeline => reported[d].timeline_drops = device_stats[d].timeline_drops
        /\ \A op \in cfg.operations :
             /\ has_metric(cfg, "throughput") =>
                  reported[d].operations[op].bytes = device_stats[d].operations[op].bytes
             /\ has_metric(cfg, "iops") =>
                  reported[d].operations[op].operations = device_stats[d].operations[op].operations

\* A percentile read off the power-of-two histogram bounds the true one from
\* above and is at most twice it (in whole microseconds).  The last bucket has no
\* upper end: a percentile of 2^HISTOGRAM_BUCKETS us or more (71 minutes) is
\* shown as that much.
PercentileBound ==
    \A p \in percentiles :
        /\ \/ p.true <= p.shown
           \/ p.true >= Bit[HISTOGRAM_BUCKETS] /\ p.shown = Bit[HISTOGRAM_BUCKETS]
        /\ p.true > 1 => p.shown <= 2 * p.true
        /\ p.true <= 1 => p.shown <= 1

=============================================================================

-------------------------- MODULE BlockTrack_proof --------------------------
(***************************************************************************)
(* Proofs about the block I/O tracker, for any requests, devices,          *)
(* operations, configurations, clocks and bounds: its queue depths count   *)
(* the entries of the request map and, when nothing was missed, the        *)
(* requests in the block layer; its busy times stay within the time that   *)
(* passed; each finished request is one operation; after flush() the       *)
(* deltas in the trace add up to the kernel's counters; and the latency    *)
(* percentiles bound the true ones.                                        *)
(*                                                                         *)
(* The five handlers touch one entry, one depth and one set of statistics. *)
(* Each is first shown to be an Event (the entry and the depth move        *)
(* together) and a StatsEvent (the statistics and the finished requests    *)
(* grow together); the invariant is then kept by any Event and any         *)
(* StatsEvent, whatever the handler.  For the percentiles each is also a   *)
(* LatencyEvent: it adds the same latency, if any, to the histogram and to *)
(* the window that the next sample compares it with.                       *)
(***************************************************************************)
EXTENDS BlockTrack, FiniteSetTheorems, WellFoundedInduction, TLAPS

-----------------------------------------------------------------------------
(* The inductive invariant.                                                 *)

BlkRecords == [st : {"free", "queued", "driver", "requeued"}, op : Ops, len : Nat, at : Nat]
OpCounts == [bytes : Nat, operations : Nat, errors : Nat]
Counters == [operations : [Ops -> OpCounts], requeues : Nat, lost_requests : Nat,
             timeline_drops : Nat, busy : Nat]

TypeInv ==
    /\ phase \in {"config", "running", "failed", "flushed"}
    /\ cfg \in Configs /\ clock \in Clocks
    /\ now \in Nat /\ hits \in Nat /\ last_sample_ns \in Nat /\ unseen \in BOOLEAN
    /\ blk \in [Requests -> BlkRecords]
    /\ requests \in [Requests -> RequestStates \cup {None}]
    /\ device_stats \in [Devs -> DeviceStats \cup {None}]
    /\ device_depths \in [Devs -> DeviceDepths \cup {None}]
    /\ previous_stats \in [Devs -> DeviceStats \cup {None}]
    /\ previous_depth \in [Devs -> Snapshots \cup {None}]
    /\ reported \in [Devs -> Counters]
    /\ finished \in [Devs -> [Ops -> Nat]]

\* An entry is of the request's own device, and was issued no later than the last
\* event of the request.
OwnDevice ==
    \A r \in Requests : requests[r] # None =>
        /\ requests[r].dev = DevOf[r]
        /\ requests[r].issued => requests[r].issue_ns <= blk[r].at

Followed == \A d \in Devs : device_depths[d] # None => has_metric(cfg, "saturation")

\* Before build() there is nothing in the maps.
Blank ==
    phase = "config" =>
        /\ \A r \in Requests : requests[r] = None
        /\ \A d \in Devs : device_depths[d] = None /\ device_stats[d] = None
                           /\ previous_depth[d] = None /\ reported[d].busy = 0
        /\ \A d \in Devs, op \in Ops : finished[d][op] = 0

Kept(rq) == {r \in Requests : rq[r] # None}
Queued(rq, d) == {r \in Requests : rq[r] # None /\ rq[r].dev = d /\ rq[r].inserted}
Issued(rq, d) == {r \in Requests : rq[r] # None /\ rq[r].dev = d /\ rq[r].issued}

DepthsOK(rq, dps, strict) ==
    \A d \in Devs : dps[d] # None =>
        /\ dps[d].queued = Cardinality(Queued(rq, d))
        /\ dps[d].inflight >= Cardinality(Issued(rq, d))
        /\ strict => dps[d].inflight = Cardinality(Issued(rq, d))

KeptOK(rq, n) == IsFiniteSet(Kept(rq)) /\ Cardinality(Kept(rq)) <= n

\* While no start of a request was missed, the tracker has an entry for just the
\* requests that are under way, with the bytes they still have to complete; and
\* when every event has a time of its own, the entry says where the request is.
RequestSeen(r) ==
    IF blk[r].st = "free" \/ ~Tracked(r, blk[r].op) THEN requests[r] = None
    ELSE /\ requests[r] # None
         /\ requests[r].remaining_bytes = blk[r].len /\ requests[r].operation = blk[r].op
         /\ clock.strict => /\ requests[r].inserted <=> blk[r].st = "queued"
                            /\ requests[r].issued <=> blk[r].st = "driver"

SeenInv ==
    /\ \A r \in Requests : blk[r].st # "free" => blk[r].len > 0
    /\ ~unseen => \A r \in Requests : RequestSeen(r)

\* A device's busy time, up to its last update and up to now.
BusyDepth(dp, n, pb) ==
    /\ dp.first_seen_ns <= dp.last_update_ns /\ dp.last_update_ns <= n
    /\ dp.busy_ns <= dp.last_update_ns - dp.first_seen_ns
    /\ pb <= dp.busy_ns + (IF dp.inflight > 0 THEN n - dp.last_update_ns ELSE 0)

BusyInv ==
    clock.skew = 0 =>
        /\ last_sample_ns <= now
        /\ \A d \in Devs : device_depths[d] = None => previous_depth[d] = None /\ reported[d].busy = 0
        /\ \A d \in Devs : device_depths[d] # None =>
              /\ BusyDepth(device_depths[d], now, reported[d].busy)
              /\ device_depths[d].first_seen_ns <= last_sample_ns
              /\ reported[d].busy <= last_sample_ns - device_depths[d].first_seen_ns
              /\ IF previous_depth[d] = None THEN reported[d].busy = 0
                 ELSE /\ previous_depth[d].busy_ns = reported[d].busy
                      /\ previous_depth[d].first_seen_ns = device_depths[d].first_seen_ns

\* The statistics of a device, and what was reported of them.
Stats(sts) == {d \in Devs : sts[d] # None}

AtLeast(s, p) ==
    /\ p.first_seen_ns = s.first_seen_ns /\ p.requeues <= s.requeues
    /\ p.lost_requests <= s.lost_requests /\ p.timeline_drops <= s.timeline_drops
    /\ \A op \in Ops : /\ p.operations[op].bytes <= s.operations[op].bytes
                       /\ p.operations[op].operations <= s.operations[op].operations

Shown(c, rep, s) ==
    /\ has_metric(c, "errors") => rep.requeues = s.requeues /\ rep.lost_requests = s.lost_requests
    /\ c.timeline => rep.timeline_drops = s.timeline_drops
    /\ \A op \in c.operations :
          /\ has_metric(c, "throughput") => rep.operations[op].bytes = s.operations[op].bytes
          /\ has_metric(c, "iops") => rep.operations[op].operations = s.operations[op].operations

ReportInv ==
    /\ \A d \in Devs :
          IF previous_stats[d] = None THEN Shown(cfg, reported[d], ZeroStats(0))
          ELSE /\ device_stats[d] # None /\ AtLeast(device_stats[d], previous_stats[d])
               /\ Shown(cfg, reported[d], previous_stats[d])
    /\ phase = "flushed" => \A d \in Devs : device_stats[d] = previous_stats[d]

Counting(c) == request_tracking(c) /\ operations_enabled(c)

OperationsInv ==
    /\ IsFiniteSet(Stats(device_stats))
    /\ \A d \in Devs : device_stats[d] # None => (cfg.devices # {} => d \in cfg.devices)
    /\ ~unseen /\ Counting(cfg) => \A d \in Devs, op \in cfg.operations :
          /\ device_stats[d] # None => device_stats[d].operations[op].operations = finished[d][op]
          /\ device_stats[d] = None /\ should_track(d, op)
               /\ Cardinality(Stats(device_stats)) < cfg.max_devices
               => finished[d][op] = 0

BlockInv ==
    /\ TypeInv /\ OwnDevice /\ Followed /\ Blank
    /\ KeptOK(requests, cfg.max_requests)
    /\ DepthsOK(requests, device_depths, clock.strict)
    /\ SeenInv /\ BusyInv /\ ReportInv /\ OperationsInv

-----------------------------------------------------------------------------
(* Queue depth.                                                             *)

\* A finite set gains or loses one element.
LEMMA Toggled ==
    ASSUME NEW S, IsFiniteSet(S), NEW r
    PROVE  /\ Cardinality(S) \in Nat
           /\ r \notin S => IsFiniteSet(S \cup {r}) /\ Cardinality(S \cup {r}) = Cardinality(S) + 1
           /\ r \in S => /\ IsFiniteSet(S \ {r}) /\ Cardinality(S \ {r}) = Cardinality(S) - 1
                         /\ Cardinality(S) > 0
<1>1. Cardinality(S) \in Nat
  BY FS_CardinalityType
<1>2. r \notin S => IsFiniteSet(S \cup {r}) /\ Cardinality(S \cup {r}) = Cardinality(S) + 1
  BY FS_AddElement
<1>3. ASSUME r \in S
      PROVE  IsFiniteSet(S \ {r}) /\ Cardinality(S \ {r}) = Cardinality(S) - 1 /\ Cardinality(S) > 0
  <2>1. IsFiniteSet(S \ {r}) /\ Cardinality(S \ {r}) = Cardinality(S) - 1
    BY <1>3, FS_RemoveElement
  <2>2. Cardinality(S \ {r}) \in Nat
    BY <2>1, FS_CardinalityType
  <2>. QED BY <1>1, <2>1, <2>2
<1>. QED BY <1>1, <1>2, <1>3

Depths == [Devs -> DeviceDepths \cup {None}]

\* The depth of d is adjusted at time t: how the counts move, and that the busy
\* time stays within the time that passed.
Adj(dps, ndps, d, qd, id, t) ==
    /\ ndps \in Depths
    /\ \A e \in Devs : e # d => ndps[e] = dps[e]
    /\ dps[d] = None <=> ndps[d] = None
    /\ dps[d] # None =>
         /\ ndps[d].queued = Moved(dps[d].queued, qd)
         /\ ndps[d].inflight = Moved(dps[d].inflight, id)
         /\ ndps[d].first_seen_ns = dps[d].first_seen_ns
         /\ \A n, pb \in Nat : n <= t /\ BusyDepth(dps[d], n, pb) => BusyDepth(ndps[d], t, pb)

LEMMA MovedType ==
    ASSUME NEW k \in Nat, NEW i \in Int
    PROVE  Moved(k, i) \in Nat /\ Moved(k, 0) = k
BY DEF Moved

\* One adjustment moves the two counts and keeps the busy time within the time that passed.
LEMMA AdjustedOne ==
    ASSUME NEW dp \in DeviceDepths, NEW q \in Int, NEW i \in Int, NEW t \in Nat
    PROVE  /\ Adjusted(dp, q, i, t) \in DeviceDepths
           /\ Adjusted(dp, q, i, t).queued = Moved(dp.queued, q)
           /\ Adjusted(dp, q, i, t).inflight = Moved(dp.inflight, i)
           /\ Adjusted(dp, q, i, t).first_seen_ns = dp.first_seen_ns
           /\ \A n, pb \in Nat : n <= t /\ BusyDepth(dp, n, pb) => BusyDepth(Adjusted(dp, q, i, t), t, pb)
<1>1. /\ dp.first_seen_ns \in Nat /\ dp.last_update_ns \in Nat /\ dp.busy_ns \in Nat
      /\ dp.saturated_ns \in Nat /\ dp.inflight_ns \in Int /\ dp.queued_ns \in Int
      /\ dp.inflight \in Nat /\ dp.queued \in Nat /\ dp.max_inflight \in Nat /\ dp.max_queued \in Nat
  BY DEF DeviceDepths
<1>2. PICK x : x = IF t > dp.last_update_ns THEN t - dp.last_update_ns ELSE 0
  OBVIOUS
<1>3. x \in Nat
  BY <1>1, <1>2
<1>4. PICK nq, ni : nq = Moved(dp.queued, q) /\ ni = Moved(dp.inflight, i)
  OBVIOUS
<1>5. nq \in Nat /\ ni \in Nat
  BY <1>1, <1>4, MovedType
<1>6. PICK b, s, fi, fq, mq, mi :
         /\ b = (IF dp.inflight > 0 THEN dp.busy_ns + x ELSE dp.busy_ns)
         /\ s = (IF dp.queued > 0 THEN dp.saturated_ns + x ELSE dp.saturated_ns)
         /\ fi = dp.inflight_ns + x * dp.inflight /\ fq = dp.queued_ns + x * dp.queued
         /\ mq = Larger(dp.max_queued, nq) /\ mi = Larger(dp.max_inflight, ni)
  OBVIOUS
<1>7. b \in Nat /\ s \in Nat /\ fi \in Int /\ fq \in Int /\ mq \in Nat /\ mi \in Nat
  BY <1>1, <1>3, <1>5, <1>6 DEF Larger
<1>8. PICK z : z = [dp EXCEPT !.busy_ns = b, !.saturated_ns = s, !.inflight_ns = fi, !.queued_ns = fq,
                              !.queued = nq, !.inflight = ni, !.max_queued = mq, !.max_inflight = mi,
                              !.last_update_ns = t]
  OBVIOUS
<1>9. /\ z \in DeviceDepths /\ z.queued = nq /\ z.inflight = ni
      /\ z.first_seen_ns = dp.first_seen_ns /\ z.last_update_ns = t /\ z.busy_ns = b
  BY <1>5, <1>7, <1>8 DEF DeviceDepths
<1>10. Adjusted(dp, q, i, t) = z
  BY <1>2, <1>4, <1>6, <1>8 DEF Adjusted, DeviceDepths
<1>11. ASSUME NEW n \in Nat, NEW pb \in Nat, n <= t, BusyDepth(dp, n, pb) PROVE BusyDepth(z, t, pb)
  <2>1. /\ dp.first_seen_ns <= dp.last_update_ns /\ dp.last_update_ns <= n
        /\ dp.busy_ns <= dp.last_update_ns - dp.first_seen_ns
        /\ pb <= dp.busy_ns + (IF dp.inflight > 0 THEN n - dp.last_update_ns ELSE 0)
    BY <1>11 DEF BusyDepth
  <2>2. x = t - dp.last_update_ns
    BY <1>1, <1>2, <1>11, <2>1
  <2>3. CASE dp.inflight > 0
    <3>1. b = dp.busy_ns + (t - dp.last_update_ns) /\ pb <= dp.busy_ns + (n - dp.last_update_ns)
      BY <1>6, <2>1, <2>2, <2>3
    <3>2. /\ dp.first_seen_ns <= t /\ b <= t - dp.first_seen_ns /\ pb <= b
      BY <3>1, <2>1, <1>1, <1>11
    <3>. QED BY <3>2, <1>9, <1>1, <1>5, <1>7 DEF BusyDepth
  <2>4. CASE ~(dp.inflight > 0)
    <3>1. b = dp.busy_ns /\ pb <= dp.busy_ns
      BY <1>1, <1>6, <2>1, <2>4
    <3>2. /\ dp.first_seen_ns <= t /\ b <= t - dp.first_seen_ns /\ pb <= b
      BY <3>1, <2>1, <1>1, <1>11
    <3>. QED BY <3>2, <1>9, <1>1, <1>5, <1>7 DEF BusyDepth
  <2>. QED BY <2>3, <2>4
<1>. QED BY <1>4, <1>9, <1>10, <1>11

\* A bound on the busy time at n is one at any later time.
LEMMA BusyLater ==
    ASSUME NEW dp \in DeviceDepths, NEW n \in Nat, NEW t \in Nat, NEW pb \in Nat, n <= t,
           BusyDepth(dp, n, pb)
    PROVE  BusyDepth(dp, t, pb)
<1>1. dp.first_seen_ns \in Nat /\ dp.last_update_ns \in Nat /\ dp.busy_ns \in Nat
  BY DEF DeviceDepths
<1>. QED BY <1>1 DEF BusyDepth

\* No adjustment is one by nothing.
LEMMA AdjNothing ==
    ASSUME NEW dps \in Depths, NEW d \in Devs, NEW t \in Nat
    PROVE  Adj(dps, dps, d, 0, 0, t)
<1>1. ASSUME dps[d] # None
      PROVE  /\ dps[d].queued = Moved(dps[d].queued, 0) /\ dps[d].inflight = Moved(dps[d].inflight, 0)
             /\ \A n, pb \in Nat : n <= t /\ BusyDepth(dps[d], n, pb) => BusyDepth(dps[d], t, pb)
  <2>1. dps[d] \in DeviceDepths
    BY <1>1 DEF Depths
  <2>2. dps[d].queued \in Nat /\ dps[d].inflight \in Nat
    BY <2>1 DEF DeviceDepths
  <2>3. \A n, pb \in Nat : n <= t /\ BusyDepth(dps[d], n, pb) => BusyDepth(dps[d], t, pb)
    BY <2>1, BusyLater
  <2>4. dps[d].queued = Moved(dps[d].queued, 0) /\ dps[d].inflight = Moved(dps[d].inflight, 0)
    BY <2>2 DEF Moved
  <2>. QED BY <2>3, <2>4
<1>. QED BY <1>1 DEF Adj

\* adjust_depth() changes the one device it is given.
LEMMA AdjustDepth ==
    ASSUME NEW dps \in Depths, NEW d \in Devs, NEW q \in Int, NEW i \in Int, NEW t \in Nat,
           \A e \in Devs : dps[e] # None => has_metric(cfg, "saturation")
    PROVE  Adj(dps, adjust_depth(dps, d, q, i, t), d, q, i, t)
<1>1. PICK ndps : ndps = adjust_depth(dps, d, q, i, t)
  OBVIOUS
<1>2. CASE dps[d] = None
  <2>1. ndps = dps
    BY <1>1, <1>2 DEF adjust_depth
  <2>. QED BY <1>1, <1>2, <2>1 DEF Adj
<1>3. CASE dps[d] # None
  <2>1. PICK dp : dp = dps[d]
    OBVIOUS
  <2>2. dp \in DeviceDepths
    BY <1>3, <2>1 DEF Depths
  <2>3. PICK z : z = Adjusted(dp, q, i, t)
    OBVIOUS
  <2>4. ndps = [dps EXCEPT ![d] = z]
    BY <1>1, <1>3, <2>1, <2>3 DEF adjust_depth
  <2>5. /\ z \in DeviceDepths /\ z.queued = Moved(dp.queued, q) /\ z.inflight = Moved(dp.inflight, i)
        /\ z.first_seen_ns = dp.first_seen_ns
        /\ \A n, pb \in Nat : n <= t /\ BusyDepth(dp, n, pb) => BusyDepth(z, t, pb)
    BY <2>2, <2>3, AdjustedOne
  <2>6. z # None
    BY <2>5, NoneAssumption
  <2>7. ndps \in Depths /\ ndps[d] = z /\ \A e \in Devs : e # d => ndps[e] = dps[e]
    BY <2>4, <2>5 DEF Depths
  <2>. QED BY <1>1, <1>3, <2>1, <2>5, <2>6, <2>7 DEF Adj
<1>. QED BY <1>2, <1>3

\* Two adjustments of one handler: of the queue and of the driver.
\* The four adjustments the handlers make.
LEMMA AdjustOnce ==
    ASSUME NEW dps \in Depths, NEW d \in Devs, NEW t \in Nat,
           \A e \in Devs : dps[e] # None => has_metric(cfg, "saturation")
    PROVE  /\ Adj(dps, adjust_depth(dps, d, 1, 0, t), d, 1, 0, t)
           /\ Adj(dps, adjust_depth(dps, d, -1, 0, t), d, -1, 0, t)
           /\ Adj(dps, adjust_depth(dps, d, 0, 1, t), d, 0, 1, t)
           /\ Adj(dps, adjust_depth(dps, d, 0, -1, t), d, 0, -1, t)
<1>1. PICK up \in Int : up = 1
  OBVIOUS
<1>2. PICK down \in Int : down = -1
  OBVIOUS
<1>3. PICK flat \in Int : flat = 0
  OBVIOUS
<1>4. Adj(dps, adjust_depth(dps, d, up, flat, t), d, up, flat, t)
  BY AdjustDepth
<1>5. Adj(dps, adjust_depth(dps, d, down, flat, t), d, down, flat, t)
  BY AdjustDepth
<1>6. Adj(dps, adjust_depth(dps, d, flat, up, t), d, flat, up, t)
  BY AdjustDepth
<1>7. Adj(dps, adjust_depth(dps, d, flat, down, t), d, flat, down, t)
  BY AdjustDepth
<1>. QED BY <1>1, <1>2, <1>3, <1>4, <1>5, <1>6, <1>7

\* A handler that adjusts both counts does so in two adjustments.
LEMMA AdjTwice ==
    ASSUME NEW a \in Depths, NEW b, NEW c, NEW d \in Devs, NEW q \in Int, NEW i \in Int, NEW t \in Nat,
           \/ Adj(a, b, d, q, 0, t) /\ Adj(b, c, d, 0, i, t)
           \/ Adj(a, b, d, 0, i, t) /\ Adj(b, c, d, q, 0, t)
    PROVE  Adj(a, c, d, q, i, t)
<1>1. b \in Depths /\ c \in Depths
  BY DEF Adj
<1>2. (\A e \in Devs : e # d => c[e] = a[e]) /\ (a[d] = None <=> c[d] = None)
  BY DEF Adj
<1>3. ASSUME a[d] # None
      PROVE  /\ c[d].queued = Moved(a[d].queued, q) /\ c[d].inflight = Moved(a[d].inflight, i)
             /\ c[d].first_seen_ns = a[d].first_seen_ns
             /\ \A n, pb \in Nat : n <= t /\ BusyDepth(a[d], n, pb) => BusyDepth(c[d], t, pb)
  <2>1. b[d] # None
    BY <1>3 DEF Adj
  <2>2. a[d] \in DeviceDepths /\ b[d] \in DeviceDepths
    BY <1>1, <1>3, <2>1 DEF Depths
  <2>3. a[d].queued \in Nat /\ a[d].inflight \in Nat /\ b[d].queued \in Nat /\ b[d].inflight \in Nat
    BY <2>2 DEF DeviceDepths
  <2>4. c[d].first_seen_ns = a[d].first_seen_ns
    BY <1>3, <2>1 DEF Adj
  <2>5. c[d].queued = Moved(a[d].queued, q) /\ c[d].inflight = Moved(a[d].inflight, i)
    <3>1. CASE Adj(a, b, d, q, 0, t) /\ Adj(b, c, d, 0, i, t)
      <4>1. b[d].queued = Moved(a[d].queued, q) /\ b[d].inflight = Moved(a[d].inflight, 0)
        BY <1>3, <3>1 DEF Adj
      <4>2. c[d].queued = Moved(b[d].queued, 0) /\ c[d].inflight = Moved(b[d].inflight, i)
        BY <2>1, <3>1 DEF Adj
      <4>. QED BY <4>1, <4>2, <2>3, MovedType
    <3>2. CASE Adj(a, b, d, 0, i, t) /\ Adj(b, c, d, q, 0, t)
      <4>1. b[d].queued = Moved(a[d].queued, 0) /\ b[d].inflight = Moved(a[d].inflight, i)
        BY <1>3, <3>2 DEF Adj
      <4>2. c[d].queued = Moved(b[d].queued, q) /\ c[d].inflight = Moved(b[d].inflight, 0)
        BY <2>1, <3>2 DEF Adj
      <4>. QED BY <4>1, <4>2, <2>3, MovedType
    <3>. QED BY <3>1, <3>2
  <2>6. ASSUME NEW n \in Nat, NEW pb \in Nat, n <= t, BusyDepth(a[d], n, pb) PROVE BusyDepth(c[d], t, pb)
    <3>1. BusyDepth(b[d], t, pb)
      BY <1>3, <2>6 DEF Adj
    <3>2. t <= t
      OBVIOUS
    <3>3. \A n1, pb1 \in Nat : n1 <= t /\ BusyDepth(b[d], n1, pb1) => BusyDepth(c[d], t, pb1)
      BY <2>1 DEF Adj
    <3>. QED BY <3>1, <3>2, <3>3
  <2>. QED BY <2>4, <2>5, <2>6
<1>. QED BY <1>1, <1>2, <1>3 DEF Adj

-----------------------------------------------------------------------------
(* One request's entry changes, and the depth of its device with it.        *)

Entered == [Requests -> RequestStates \cup {None}]
Owned(rq) == \A r \in Requests : rq[r] # None => rq[r].dev = DevOf[r]

IsQueued(s) == s # None /\ s.inserted
IsIssued(s) == s # None /\ s.issued

Toggle(was, is, delta) ==
    \/ delta = 1 /\ ~was /\ is
    \/ delta = -1 /\ was /\ ~is
    \/ delta = 0 /\ (was <=> is)

\* A completion at the instant of the issue leaks a request.
Leak(was, is, delta, strict) == ~strict /\ delta = 0 /\ was /\ ~is

EntryMoves(s, x, q, i, strict) ==
    /\ Toggle(IsQueued(s), IsQueued(x), q)
    /\ Toggle(IsIssued(s), IsIssued(x), i) \/ Leak(IsIssued(s), IsIssued(x), i, strict)

Becomes(nrq, rq, r, x) == nrq = [rq EXCEPT ![r] = x]

\* The sets of queued, issued and kept requests when one entry changes.
LEMMA SetsAfter ==
    ASSUME NEW rq \in Entered, Owned(rq), NEW r \in Requests, NEW x,
           x # None => x.dev = DevOf[r], NEW d, NEW nrq, Becomes(nrq, rq, r, x)
    PROVE  /\ Queued(nrq, d) = IF IsQueued(x) /\ DevOf[r] = d THEN Queued(rq, d) \cup {r}
                               ELSE Queued(rq, d) \ {r}
           /\ Issued(nrq, d) = IF IsIssued(x) /\ DevOf[r] = d THEN Issued(rq, d) \cup {r}
                               ELSE Issued(rq, d) \ {r}
           /\ Kept(nrq) = IF x # None THEN Kept(rq) \cup {r} ELSE Kept(rq) \ {r}
           /\ r \in Queued(rq, d) <=> IsQueued(rq[r]) /\ DevOf[r] = d
           /\ r \in Issued(rq, d) <=> IsIssued(rq[r]) /\ DevOf[r] = d
<1>2. nrq[r] = x /\ \A u \in Requests : u # r => nrq[u] = rq[u]
  BY DEF Entered, Becomes
<1>3. Queued(nrq, d) = IF IsQueued(x) /\ DevOf[r] = d THEN Queued(rq, d) \cup {r}
                       ELSE Queued(rq, d) \ {r}
  BY <1>2 DEF Queued, IsQueued
<1>4. Issued(nrq, d) = IF IsIssued(x) /\ DevOf[r] = d THEN Issued(rq, d) \cup {r}
                       ELSE Issued(rq, d) \ {r}
  BY <1>2 DEF Issued, IsIssued
<1>5. Kept(nrq) = IF x # None THEN Kept(rq) \cup {r} ELSE Kept(rq) \ {r}
  BY <1>2 DEF Kept
<1>6. /\ r \in Queued(rq, d) <=> IsQueued(rq[r]) /\ DevOf[r] = d
      /\ r \in Issued(rq, d) <=> IsIssued(rq[r]) /\ DevOf[r] = d
  BY DEF Queued, Issued, IsQueued, IsIssued, Owned
<1>. QED BY <1>3, <1>4, <1>5, <1>6

\* A set of requests changes by r, and a count with it.
LEMMA CountMoves ==
    ASSUME NEW S, IsFiniteSet(S), NEW r, NEW is \in BOOLEAN, NEW k \in Nat, NEW delta,
           NEW nS, nS = IF is THEN S \cup {r} ELSE S \ {r}
    PROVE  /\ k = Cardinality(S) /\ Toggle(r \in S, is, delta) => Moved(k, delta) = Cardinality(nS)
           /\ k >= Cardinality(S) /\ Toggle(r \in S, is, delta) => Moved(k, delta) >= Cardinality(nS)
           /\ k >= Cardinality(S) /\ delta = 0 /\ ~is => Moved(k, delta) >= Cardinality(nS)
<1>1. /\ Cardinality(S) \in Nat
      /\ r \notin S => IsFiniteSet(S \cup {r}) /\ Cardinality(S \cup {r}) = Cardinality(S) + 1
      /\ r \in S => /\ IsFiniteSet(S \ {r}) /\ Cardinality(S \ {r}) = Cardinality(S) - 1
                    /\ Cardinality(S) > 0
  BY Toggled
<1>0. PICK m : m = Cardinality(nS)
  OBVIOUS
<1>2. PICK n \in Nat : n = Cardinality(S) /\ m = Cardinality(nS)
  BY <1>0, <1>1
<1>3. CASE r \in S /\ is
  <2>1. nS = S
    BY <1>3
  <2>2. Toggle(r \in S, is, delta) => delta = 0
    BY <1>3 DEF Toggle
  <2>3. Moved(k, 0) = k /\ n = m
    BY <1>2, <2>1 DEF Moved
  <2>. QED BY <1>2, <1>3, <2>2, <2>3
<1>4. CASE r \notin S /\ ~is
  <2>1. nS = S
    BY <1>4
  <2>. QED BY <1>2, <1>4, <2>1 DEF Toggle, Moved
<1>5. CASE r \in S /\ ~is
  <2>1. m = n - 1 /\ n > 0
    BY <1>1, <1>2, <1>5
  <2>. QED BY <1>2, <1>5, <2>1 DEF Toggle, Moved
<1>6. CASE r \notin S /\ is
  <2>1. m = n + 1
    BY <1>1, <1>2, <1>6
  <2>. QED BY <1>2, <1>6, <2>1 DEF Toggle, Moved
<1>. QED BY <1>3, <1>4, <1>5, <1>6

\* The depths still count the entries when an entry and the depth of its device move together.
LEMMA EntryDepths ==
    ASSUME NEW rq \in Entered, Owned(rq), IsFiniteSet(Kept(rq)), NEW r \in Requests, NEW x,
           x # None => x.dev = DevOf[r],
           NEW dps \in Depths, NEW ndps, NEW q, NEW i, NEW t, NEW strict \in BOOLEAN,
           DepthsOK(rq, dps, strict), Adj(dps, ndps, DevOf[r], q, i, t),
           EntryMoves(rq[r], x, q, i, strict), NEW nrq, Becomes(nrq, rq, r, x)
    PROVE  DepthsOK(nrq, ndps, strict)
<1> SUFFICES ASSUME NEW d \in Devs, ndps[d] # None
             PROVE  /\ ndps[d].queued = Cardinality(Queued(nrq, d))
                    /\ ndps[d].inflight >= Cardinality(Issued(nrq, d))
                    /\ strict => ndps[d].inflight = Cardinality(Issued(nrq, d))
  BY DEF DepthsOK
<1>2. DevOf[r] \in Devs
  BY BlockAssumption
<1>3. dps[d] # None /\ dps[d] \in DeviceDepths
  BY <1>2 DEF Adj, Depths
<1>4. /\ dps[d].queued = Cardinality(Queued(rq, d)) /\ dps[d].inflight >= Cardinality(Issued(rq, d))
      /\ strict => dps[d].inflight = Cardinality(Issued(rq, d))
      /\ dps[d].queued \in Nat /\ dps[d].inflight \in Nat
  BY <1>3 DEF DepthsOK, DeviceDepths
<1>5. PICK A, B, nA, nB : /\ A = Queued(rq, d) /\ B = Issued(rq, d)
                          /\ nA = Queued(nrq, d) /\ nB = Issued(nrq, d)
  OBVIOUS
<1>6. /\ nA = (IF IsQueued(x) /\ DevOf[r] = d THEN A \cup {r} ELSE A \ {r})
      /\ nB = (IF IsIssued(x) /\ DevOf[r] = d THEN B \cup {r} ELSE B \ {r})
      /\ r \in A <=> IsQueued(rq[r]) /\ DevOf[r] = d
      /\ r \in B <=> IsIssued(rq[r]) /\ DevOf[r] = d
  <2>2. /\ Queued(nrq, d) = IF IsQueued(x) /\ DevOf[r] = d THEN Queued(rq, d) \cup {r}
                            ELSE Queued(rq, d) \ {r}
        /\ Issued(nrq, d) = IF IsIssued(x) /\ DevOf[r] = d THEN Issued(rq, d) \cup {r}
                            ELSE Issued(rq, d) \ {r}
        /\ r \in Queued(rq, d) <=> IsQueued(rq[r]) /\ DevOf[r] = d
        /\ r \in Issued(rq, d) <=> IsIssued(rq[r]) /\ DevOf[r] = d
    BY SetsAfter, SMTT(60)
  <2>. QED BY <1>5, <2>2
<1>7. IsFiniteSet(A) /\ IsFiniteSet(B)
  <2>1. A \subseteq Kept(rq) /\ B \subseteq Kept(rq)
    BY <1>5 DEF Kept, Queued, Issued
  <2>. QED BY <2>1, FS_Subset
<1>8. CASE d # DevOf[r]
  <2>1. nA = A /\ nB = B
    BY <1>6, <1>8
  <2>2. ndps[d] = dps[d]
    BY <1>8 DEF Adj
  <2>. QED BY <1>4, <1>5, <2>1, <2>2
<1>9. CASE d = DevOf[r]
  <2>1. PICK isq \in BOOLEAN, isi \in BOOLEAN : (isq <=> IsQueued(x)) /\ (isi <=> IsIssued(x))
    BY DEF IsQueued, IsIssued
  <2>2. nA = (IF isq THEN A \cup {r} ELSE A \ {r}) /\ nB = (IF isi THEN B \cup {r} ELSE B \ {r})
    BY <1>6, <1>9, <2>1
  <2>3. Toggle(r \in A, isq, q) /\ (Toggle(r \in B, isi, i) \/ (~strict /\ i = 0 /\ ~isi))
    BY <1>6, <1>9, <2>1 DEF EntryMoves, Toggle, Leak
  <2>4. ndps[d].queued = Moved(dps[d].queued, q) /\ ndps[d].inflight = Moved(dps[d].inflight, i)
    BY <1>3, <1>9 DEF Adj
  <2>5. PICK k \in Nat, l \in Nat : k = dps[d].queued /\ l = dps[d].inflight
    BY <1>4
  <2>6. Moved(k, q) = Cardinality(nA)
    BY <1>4, <1>5, <1>7, <2>2, <2>3, <2>5, CountMoves
  <2>7. Moved(l, i) >= Cardinality(nB)
    BY <1>4, <1>5, <1>7, <2>2, <2>3, <2>5, CountMoves
  <2>8. strict => Moved(l, i) = Cardinality(nB)
    BY <1>4, <1>5, <1>7, <2>2, <2>3, <2>5, CountMoves
  <2>. QED BY <1>5, <2>4, <2>5, <2>6, <2>7, <2>8
<1>. QED BY <1>8, <1>9

-----------------------------------------------------------------------------
(* What a tracepoint does to the entry of its request.                      *)

SeenEntry(s, b, tracked, strict) ==
    IF b.st = "free" \/ ~tracked THEN s = None
    ELSE /\ s # None /\ s.remaining_bytes = b.len /\ s.operation = b.op
         /\ strict => (s.inserted <=> b.st = "queued") /\ (s.issued <=> b.st = "driver")

\* The request r, whose entry becomes x, is now b in the block layer; the handler
\* read the clock at t.
Event(r, x, b, q, i, t) ==
    /\ blk' = [blk EXCEPT ![r] = b] /\ b \in BlkRecords /\ (b.st # "free" => b.len > 0)
    /\ requests' = [requests EXCEPT ![r] = x] /\ x \in RequestStates \cup {None}
    /\ x # None => x.dev = DevOf[r] /\ (x.issued => x.issue_ns <= b.at)
    /\ x # None /\ requests[r] = None => Room
    /\ t \in Nat /\ now' = Larger(now, t) /\ (clock.skew = 0 => now <= t)
    /\ Adj(device_depths, device_depths', DevOf[r], q, i, t)
    /\ EntryMoves(requests[r], x, q, i, clock.strict)
    /\ unseen' \in BOOLEAN /\ (unseen => unseen')
    /\ ~unseen' /\ SeenEntry(requests[r], blk[r], Tracked(r, blk[r].op), clock.strict)
         => SeenEntry(x, b, Tracked(r, b.op), clock.strict)

HitFrame == UNCHANGED <<config, sampler>> /\ phase = "running"

\* What a timestamp a handler may read says of the clock.
LEMMA StampFacts ==
    ASSUME TypeInv, NEW r \in Requests, NEW t \in Stamp(r)
    PROVE  /\ t \in Nat /\ t >= blk[r].at /\ (clock.strict => t > blk[r].at)
           /\ (clock.skew = 0 => now <= t)
           /\ clock.skew \in Nat /\ clock.strict \in BOOLEAN
<1>1. clock.skew \in Nat /\ clock.strict \in BOOLEAN
  BY BlockAssumption DEF TypeInv
<1>2. now \in Nat /\ blk[r].at \in Nat /\ MaxTime \in Nat
  BY BlockAssumption DEF TypeInv, BlkRecords
<1>3. /\ t \in Larger(1, now - clock.skew) .. MaxTime
      /\ t > blk[r].at \/ (~clock.strict /\ t = blk[r].at)
  BY DEF Stamp
<1>4. t \in Int /\ t >= 1 /\ t >= now - clock.skew
  BY <1>1, <1>2, <1>3 DEF Larger
<1>. QED BY <1>1, <1>2, <1>3, <1>4

IsNew(s, r, op, len, t, ins) == s = NewRequest(r, op, len, t, ins)

\* The entry create_request() makes.
LEMMA NewRequestFacts ==
    ASSUME NEW r \in Requests, NEW op \in Ops, NEW len \in Nat, NEW t \in Nat, NEW ins \in BOOLEAN,
           NEW s, IsNew(s, r, op, len, t, ins)
    PROVE  /\ s \in RequestStates /\ s # None /\ s.dev = DevOf[r] /\ s.operation = op
           /\ s.remaining_bytes = len /\ s.inserted = ins /\ ~s.issued
<1>1. DevOf[r] \in Devs
  BY BlockAssumption
<1>2. s \in RequestStates
  BY <1>1 DEF IsNew, NewRequest, RequestStates
<1>3. s # None
  BY <1>2, NoneAssumption
<1>. QED BY <1>2, <1>3 DEF IsNew, NewRequest

\* What every handler starts from.
LEMMA Before ==
    ASSUME TypeInv, OwnDevice, Followed, NEW r \in Requests
    PROVE  /\ DevOf[r] \in Devs /\ requests \in Entered /\ device_depths \in Depths
           /\ blk[r] \in BlkRecords /\ now \in Nat /\ unseen \in BOOLEAN
           /\ requests[r] # None =>
                /\ requests[r] \in RequestStates /\ requests[r].dev = DevOf[r]
                /\ requests[r].issued => requests[r].issue_ns <= blk[r].at
           /\ \A e \in Devs : device_depths[e] # None => has_metric(cfg, "saturation")
           /\ requests = [requests EXCEPT ![r] = requests[r]]
           /\ requests[r] \in RequestStates \cup {None}
<1>1. requests \in [Requests -> RequestStates \cup {None}]
  BY DEF TypeInv
<1>2. requests = [requests EXCEPT ![r] = requests[r]]
  BY <1>1
<1>. QED BY <1>1, <1>2, BlockAssumption DEF TypeInv, OwnDevice, Followed, Entered, Depths

\* Nothing is done about the request.
LEMMA Untouched ==
    ASSUME TypeInv, OwnDevice, Followed, NEW r \in Requests, NEW b \in BlkRecords, NEW t \in Nat,
           blk' = [blk EXCEPT ![r] = b], b.st # "free" => b.len > 0, blk[r].at <= b.at,
           requests' = requests, device_depths' = device_depths,
           now' = Larger(now, t), clock.skew = 0 => now <= t,
           unseen' \in BOOLEAN, unseen => unseen',
           ~unseen' /\ SeenEntry(requests[r], blk[r], Tracked(r, blk[r].op), clock.strict)
             => SeenEntry(requests[r], b, Tracked(r, b.op), clock.strict)
    PROVE  Event(r, requests[r], b, 0, 0, t)
<1>1. /\ DevOf[r] \in Devs /\ device_depths \in Depths
      /\ requests[r] # None =>
                /\ requests[r] \in RequestStates /\ requests[r].dev = DevOf[r]
                /\ requests[r].issued => requests[r].issue_ns <= blk[r].at
      /\ requests = [requests EXCEPT ![r] = requests[r]]
      /\ requests[r] \in RequestStates \cup {None}
  BY Before
<1>2. Adj(device_depths, device_depths', DevOf[r], 0, 0, t)
  BY <1>1, AdjNothing
<1>3. EntryMoves(requests[r], requests[r], 0, 0, clock.strict)
  BY DEF EntryMoves, Toggle
<1>4. requests[r] # None /\ requests[r].issued => requests[r].issue_ns <= b.at
  <2> SUFFICES ASSUME requests[r] # None, requests[r].issued PROVE requests[r].issue_ns <= b.at
    OBVIOUS
  <2>1. requests[r].issue_ns \in Nat /\ blk[r].at \in Nat /\ b.at \in Nat
    BY <1>1 DEF RequestStates, TypeInv, BlkRecords
  <2>2. requests[r].issue_ns <= blk[r].at
    BY <1>1
  <2>. QED BY <2>1, <2>2
<1>. QED BY <1>1, <1>2, <1>3, <1>4 DEF Event

\* The five handlers, each as one event of its request.
\* A request is inserted: a new entry, an old one queued again, or no room.
LEMMA InsertEvent ==
    ASSUME TypeInv, OwnDevice, Followed, SeenInv, NEW r \in Requests, RqInsert(r)
    PROVE  \E x, b, q, i, t : Event(r, x, b, q, i, t)
<1>1. PICK op \in Ops, len \in Lens, t \in Stamp(r) :
          /\ blk[r].st = "requeued" => op = blk[r].op /\ len = blk[r].len
          /\ blk' = [blk EXCEPT ![r] = [st |-> "queued", op |-> op, len |-> len, at |-> t]]
          /\ Hit(t) /\ trace_block_rq_insert(r, op, len, t)
          /\ unseen' = (unseen \/ (Tracked(r, op) /\ requests'[r] = None))
  BY DEF RqInsert
<1>2. len \in Nat /\ len > 0
  BY BlockAssumption
<1>3. /\ t \in Nat /\ t >= blk[r].at /\ (clock.strict => t > blk[r].at)
      /\ (clock.skew = 0 => now <= t) /\ clock.strict \in BOOLEAN
  BY StampFacts
<1>4. now' = Larger(now, t)
  BY <1>1 DEF Hit
<1>5. PICK b : b = [st |-> "queued", op |-> op, len |-> len, at |-> t]
  OBVIOUS
<1>6. b \in BlkRecords /\ b.st = "queued" /\ b.op = op /\ b.len = len /\ b.at = t
  BY <1>2, <1>3, <1>5 DEF BlkRecords
<1>7. /\ DevOf[r] \in Devs /\ requests \in Entered /\ device_depths \in Depths
      /\ blk[r] \in BlkRecords /\ now \in Nat /\ unseen \in BOOLEAN
      /\ requests[r] # None =>
           /\ requests[r] \in RequestStates /\ requests[r].dev = DevOf[r]
           /\ requests[r].issued => requests[r].issue_ns <= blk[r].at
      /\ \A e \in Devs : device_depths[e] # None => has_metric(cfg, "saturation")
      /\ requests[r] \in RequestStates \cup {None}
  BY Before
<1>8. /\ blk' = [blk EXCEPT ![r] = b] /\ blk[r].at <= b.at
      /\ unseen' \in BOOLEAN /\ (unseen => unseen')
  BY <1>1, <1>3, <1>5, <1>6, <1>7
<1>9. blk[r].st \in {"free", "requeued"}
  BY DEF RqInsert
<1>10. CASE UNCHANGED kernel /\ ~Tracked(r, op)
  <2>1. requests' = requests /\ device_depths' = device_depths
    BY <1>10 DEF kernel
  <2>2. SeenEntry(requests[r], blk[r], Tracked(r, blk[r].op), clock.strict)
           => SeenEntry(requests[r], b, Tracked(r, b.op), clock.strict)
    BY <1>1, <1>6, <1>9, <1>10 DEF SeenEntry
  <2>3. Event(r, requests[r], b, 0, 0, t)
    BY <1>2, <1>3, <1>4, <1>6, <1>8, <2>1, <2>2, Untouched
  <2>. QED BY <2>3
<1>11. CASE Tracked(r, op) /\ requests[r] = None /\ create_inserted(r, op, len, t)
  <2>1. CASE ~Room
    <3>1. requests' = requests /\ device_depths' = device_depths
      BY <1>11, <2>1 DEF create_inserted
    <3>2. unseen'
      BY <1>1, <1>11, <3>1
    <3>3. Event(r, requests[r], b, 0, 0, t)
      BY <1>2, <1>3, <1>4, <1>6, <1>8, <3>1, <3>2, Untouched
    <3>. QED BY <3>3
  <2>2. CASE Room
    <3>0. PICK ins \in BOOLEAN : ins = TRUE
      OBVIOUS
    <3>1. PICK x : x = NewRequest(r, op, len, t, ins) /\ IsNew(x, r, op, len, t, ins)
      BY DEF IsNew
    <3>2. /\ x \in RequestStates /\ x # None /\ x.dev = DevOf[r] /\ x.operation = op
          /\ x.remaining_bytes = len /\ x.inserted = ins /\ ~x.issued
      BY <1>2, <1>3, <3>1, NewRequestFacts
    <3>9. x.inserted
      BY <3>0, <3>2
    <3>3. /\ requests' = [requests EXCEPT ![r] = x]
          /\ device_depths' = adjust_depth(device_depths, DevOf[r], 1, 0, t)
      BY <1>11, <2>2, <3>0, <3>1 DEF create_inserted
    <3>4. Adj(device_depths, device_depths', DevOf[r], 1, 0, t)
      BY <1>3, <1>7, <3>3, AdjustOnce
    <3>5. EntryMoves(requests[r], x, 1, 0, clock.strict)
      BY <1>11, <3>2, <3>9 DEF EntryMoves, Toggle, IsQueued, IsIssued
    <3>6. SeenEntry(x, b, Tracked(r, b.op), clock.strict)
      BY <1>6, <1>11, <3>2, <3>9 DEF SeenEntry
    <3>7. Event(r, x, b, 1, 0, t)
      BY <1>2, <1>3, <1>4, <1>6, <1>8, <2>2, <3>2, <3>3, <3>4, <3>5, <3>6 DEF Event
    <3>. QED BY <3>7
  <2>. QED BY <2>1, <2>2
<1>12. ASSUME Tracked(r, op), requests[r] # None,
              NEW fresh \in BOOLEAN, fresh <=> ~requests[r].inserted /\ ~requests[r].issued,
              requests' = [requests EXCEPT ![r].bytes = len,
                                           ![r].remaining_bytes = Larger(@, len),
                                           ![r].inserted = @ \/ fresh],
              device_depths' = IF fresh THEN adjust_depth(device_depths, DevOf[r], 1, 0, t)
                               ELSE device_depths
       PROVE  \E x, bb, q, i, tt : Event(r, x, bb, q, i, tt)
  <2>1. PICK s : s = requests[r]
    OBVIOUS
  <2>2. s \in RequestStates
    BY <1>7, <1>12, <2>1
  <2>3. /\ s.remaining_bytes \in Nat /\ s.inserted \in BOOLEAN /\ s.issued \in BOOLEAN
        /\ s.issue_ns \in Nat /\ s.dev = DevOf[r]
    BY <1>7, <1>12, <2>1, <2>2 DEF RequestStates
  <2>4. PICK m \in Nat, ins \in BOOLEAN : m = Larger(s.remaining_bytes, len) /\ ins = (s.inserted \/ fresh)
    BY <1>2, <2>3 DEF Larger
  <2>5. PICK x : x = [s EXCEPT !.bytes = len, !.remaining_bytes = m, !.inserted = ins]
    OBVIOUS
  <2>6. /\ x \in RequestStates /\ x.dev = DevOf[r] /\ x.operation = s.operation
        /\ x.remaining_bytes = m /\ x.inserted = ins /\ x.issued = s.issued /\ x.issue_ns = s.issue_ns
    BY <1>2, <2>2, <2>3, <2>4, <2>5 DEF RequestStates
  <2>7. x # None
    BY <2>6, NoneAssumption
  <2>8. requests' = [requests EXCEPT ![r] = x]
    BY <1>7, <1>12, <2>1, <2>2, <2>4, <2>5 DEF Entered, RequestStates
  <2>9. SeenEntry(s, blk[r], Tracked(r, blk[r].op), clock.strict)
           => SeenEntry(x, b, Tracked(r, b.op), clock.strict)
    <3> SUFFICES ASSUME SeenEntry(s, blk[r], Tracked(r, blk[r].op), clock.strict)
                 PROVE  SeenEntry(x, b, Tracked(r, b.op), clock.strict)
      OBVIOUS
    <3>1. blk[r].st = "requeued" /\ op = blk[r].op /\ len = blk[r].len
      BY <1>1, <1>9, <1>12, <2>1 DEF SeenEntry
    <3>2. /\ s.remaining_bytes = len /\ s.operation = op
          /\ clock.strict => ~s.inserted /\ ~s.issued
      BY <3>1, <1>12, <2>1 DEF SeenEntry
    <3>3. m = len
      BY <3>2, <2>4, <1>2 DEF Larger
    <3>4. clock.strict => x.inserted /\ ~x.issued
      BY <3>2, <1>12, <2>1, <2>4, <2>6
    <3>. QED BY <3>2, <3>3, <3>4, <1>6, <1>12, <2>6, <2>7 DEF SeenEntry
  <2>10. x.issued => x.issue_ns <= b.at
    <3> SUFFICES ASSUME x.issued PROVE s.issue_ns <= t
      BY <1>6, <2>6
    <3>1. s.issue_ns <= blk[r].at
      BY <1>7, <1>12, <2>1, <2>6
    <3>2. blk[r].at \in Nat
      BY <1>7 DEF BlkRecords
    <3>. QED BY <1>3, <2>3, <3>1, <3>2
  <2>11. CASE fresh
    <3>1. Adj(device_depths, device_depths', DevOf[r], 1, 0, t)
      BY <1>3, <1>7, <1>12, <2>11, AdjustOnce
    <3>2. EntryMoves(requests[r], x, 1, 0, clock.strict)
      BY <1>12, <2>1, <2>4, <2>6, <2>7, <2>11 DEF EntryMoves, Toggle, IsQueued, IsIssued
    <3>3. Event(r, x, b, 1, 0, t)
      BY <1>2, <1>3, <1>4, <1>6, <1>8, <1>12, <2>1, <2>6, <2>7, <2>8, <2>9, <2>10, <3>1, <3>2 DEF Event
    <3>. QED BY <3>3
  <2>12. CASE ~fresh
    <3>1. Adj(device_depths, device_depths', DevOf[r], 0, 0, t)
      BY <1>3, <1>7, <1>12, <2>12, AdjNothing
    <3>2. EntryMoves(requests[r], x, 0, 0, clock.strict)
      BY <1>12, <2>1, <2>4, <2>6, <2>7, <2>12 DEF EntryMoves, Toggle, IsQueued, IsIssued
    <3>3. Event(r, x, b, 0, 0, t)
      BY <1>2, <1>3, <1>4, <1>6, <1>8, <1>12, <2>1, <2>6, <2>7, <2>8, <2>9, <2>10, <3>1, <3>2 DEF Event
    <3>. QED BY <3>3
  <2>. QED BY <2>11, <2>12
<1>13. CASE /\ Tracked(r, op) /\ requests[r] # None
            /\ requests' = [requests EXCEPT ![r].bytes = len,
                                            ![r].remaining_bytes = Larger(@, len),
                                            ![r].inserted = @ \/ (~requests[r].inserted /\ ~requests[r].issued)]
            /\ device_depths' = IF ~requests[r].inserted /\ ~requests[r].issued
                                THEN adjust_depth(device_depths, DevOf[r], 1, 0, t)
                                ELSE device_depths
  <2>1. PICK fresh \in BOOLEAN : fresh = (~requests[r].inserted /\ ~requests[r].issued)
    OBVIOUS
  <2>. QED BY <1>12, <1>13, <2>1
<1>. QED BY <1>1, <1>10, <1>11, <1>13 DEF trace_block_rq_insert

\* A request goes to the driver: it leaves the queue if it was in it.
LEMMA IssueEvent ==
    ASSUME TypeInv, OwnDevice, Followed, SeenInv, NEW r \in Requests, RqIssue(r)
    PROVE  \E x, b, q, i, t : Event(r, x, b, q, i, t)
<1>1. PICK op \in Ops, len \in Lens, t \in Stamp(r) :
          /\ blk[r].st # "free" => op = blk[r].op /\ len = blk[r].len
          /\ blk' = [blk EXCEPT ![r] = [st |-> "driver", op |-> op, len |-> len, at |-> t]]
          /\ Hit(t) /\ trace_block_rq_issue(r, op, len, t)
          /\ unseen' = (unseen \/ (Tracked(r, op) /\ requests'[r] = None))
  BY DEF RqIssue
<1>2. len \in Nat /\ len > 0
  BY BlockAssumption
<1>3. /\ t \in Nat /\ t >= blk[r].at /\ (clock.strict => t > blk[r].at)
      /\ (clock.skew = 0 => now <= t) /\ clock.strict \in BOOLEAN
  BY StampFacts
<1>4. now' = Larger(now, t)
  BY <1>1 DEF Hit
<1>5. PICK b : b = [st |-> "driver", op |-> op, len |-> len, at |-> t]
  OBVIOUS
<1>6. b \in BlkRecords /\ b.st = "driver" /\ b.op = op /\ b.len = len /\ b.at = t
  BY <1>2, <1>3, <1>5 DEF BlkRecords
<1>7. /\ DevOf[r] \in Devs /\ requests \in Entered /\ device_depths \in Depths
      /\ blk[r] \in BlkRecords /\ now \in Nat /\ unseen \in BOOLEAN
      /\ requests[r] # None =>
           /\ requests[r] \in RequestStates /\ requests[r].dev = DevOf[r]
           /\ requests[r].issued => requests[r].issue_ns <= blk[r].at
      /\ \A e \in Devs : device_depths[e] # None => has_metric(cfg, "saturation")
      /\ requests[r] \in RequestStates \cup {None}
  BY Before
<1>8. /\ blk' = [blk EXCEPT ![r] = b] /\ blk[r].at <= b.at
      /\ unseen' \in BOOLEAN /\ (unseen => unseen')
  BY <1>1, <1>3, <1>5, <1>6, <1>7
<1>9. blk[r].st \in {"free", "queued", "requeued"}
  BY DEF RqIssue
<1>10. CASE ~Tracked(r, op) /\ UNCHANGED kernel
  <2>1. requests' = requests /\ device_depths' = device_depths
    BY <1>10 DEF kernel
  <2>2. SeenEntry(requests[r], blk[r], Tracked(r, blk[r].op), clock.strict)
           => SeenEntry(requests[r], b, Tracked(r, b.op), clock.strict)
    BY <1>1, <1>6, <1>9, <1>10 DEF SeenEntry
  <2>3. Event(r, requests[r], b, 0, 0, t)
    BY <1>2, <1>3, <1>4, <1>6, <1>8, <2>1, <2>2, Untouched
  <2>. QED BY <2>3
<1>11. CASE Tracked(r, op) /\ requests[r] = None /\ UNCHANGED <<requests, device_depths, ring>>
  <2>1. requests' = requests /\ device_depths' = device_depths
    BY <1>11
  <2>2. unseen'
    BY <1>1, <1>11, <2>1
  <2>3. Event(r, requests[r], b, 0, 0, t)
    BY <1>2, <1>3, <1>4, <1>6, <1>8, <2>1, <2>2, Untouched
  <2>. QED BY <2>3
<1>12. ASSUME Tracked(r, op), NEW s \in RequestStates, s.dev = DevOf[r],
              requests[r] = None => Room,
              s.inserted <=> IsQueued(requests[r]), s.issued <=> IsIssued(requests[r]),
              SeenEntry(requests[r], blk[r], Tracked(r, blk[r].op), clock.strict)
                => s.remaining_bytes = len /\ s.operation = op,
              NEW mid, mid = IF s.inserted THEN adjust_depth(device_depths, DevOf[r], -1, 0, t)
                             ELSE device_depths,
              device_depths' = IF s.issued THEN mid ELSE adjust_depth(mid, DevOf[r], 0, 1, t),
              requests' = [requests EXCEPT ![r] =
                 [s EXCEPT !.inserted = FALSE, !.issued = TRUE, !.issue_ns = t, !.bytes = len,
                           !.remaining_bytes = IF @ = 0 THEN len ELSE @]]
       PROVE  \E x, bb, q, i, tt : Event(r, x, bb, q, i, tt)
  <2>1. /\ s.remaining_bytes \in Nat /\ s.inserted \in BOOLEAN /\ s.issued \in BOOLEAN
    BY DEF RequestStates
  <2>2. PICK m \in Nat : m = IF s.remaining_bytes = 0 THEN len ELSE s.remaining_bytes
    BY <1>2, <2>1
  <2>3. PICK no \in BOOLEAN, yes \in BOOLEAN : no = FALSE /\ yes = TRUE
    OBVIOUS
  <2>4. PICK x : x = [s EXCEPT !.inserted = no, !.issued = yes, !.issue_ns = t, !.bytes = len,
                               !.remaining_bytes = m]
    OBVIOUS
  <2>5. /\ x \in RequestStates /\ x.dev = DevOf[r] /\ x.operation = s.operation
        /\ x.remaining_bytes = m /\ x.inserted = no /\ x.issued = yes /\ x.issue_ns = t
    BY <1>2, <1>3, <1>12, <2>4 DEF RequestStates
  <2>6. x # None
    BY <2>5, NoneAssumption
  <2>7. ~x.inserted /\ x.issued
    BY <2>3, <2>5
  <2>8. requests' = [requests EXCEPT ![r] = x]
    BY <1>12, <2>2, <2>3, <2>4 DEF RequestStates
  <2>9. SeenEntry(requests[r], blk[r], Tracked(r, blk[r].op), clock.strict)
           => SeenEntry(x, b, Tracked(r, b.op), clock.strict)
    <3> SUFFICES ASSUME SeenEntry(requests[r], blk[r], Tracked(r, blk[r].op), clock.strict)
                 PROVE  SeenEntry(x, b, Tracked(r, b.op), clock.strict)
      OBVIOUS
    <3>1. s.remaining_bytes = len /\ s.operation = op
      BY <1>12
    <3>2. m = len
      BY <1>2, <2>2, <3>1
    <3>. QED BY <1>6, <1>12, <2>5, <2>6, <2>7, <3>1, <3>2 DEF SeenEntry
  <2>10. PICK q \in Int, i \in Int : /\ q = (IF s.inserted THEN -1 ELSE 0)
                                     /\ i = (IF s.issued THEN 0 ELSE 1)
    OBVIOUS
  <2>11. Adj(device_depths, mid, DevOf[r], q, 0, t)
    <3>1. CASE s.inserted
      BY <1>3, <1>7, <1>12, <2>10, <3>1, AdjustOnce
    <3>2. CASE ~s.inserted
      BY <1>3, <1>7, <1>12, <2>10, <3>2, AdjNothing
    <3>. QED BY <3>1, <3>2
  <2>12. mid \in Depths /\ \A e \in Devs : mid[e] # None => has_metric(cfg, "saturation")
    BY <1>7, <2>11 DEF Adj
  <2>13. Adj(mid, device_depths', DevOf[r], 0, i, t)
    <3>1. CASE s.issued
      BY <1>3, <1>7, <1>12, <2>10, <2>12, <3>1, AdjNothing
    <3>2. CASE ~s.issued
      BY <1>3, <1>7, <1>12, <2>10, <2>12, <3>2, AdjustOnce
    <3>. QED BY <3>1, <3>2
  <2>14. Adj(device_depths, device_depths', DevOf[r], q, i, t)
    BY <1>3, <1>7, <2>11, <2>13, AdjTwice
  <2>15. EntryMoves(requests[r], x, q, i, clock.strict)
    BY <1>12, <2>6, <2>7, <2>10 DEF EntryMoves, Toggle, IsQueued, IsIssued
  <2>16. x.issued => x.issue_ns <= b.at
    BY <1>3, <1>6, <2>5
  <2>17. Event(r, x, b, q, i, t)
    BY <1>2, <1>3, <1>4, <1>6, <1>8, <1>12, <2>5, <2>6, <2>8, <2>9, <2>14, <2>15, <2>16 DEF Event
  <2>. QED BY <2>17
<1>13. ASSUME Tracked(r, op), requests[r] # None \/ Room,
              NEW state, state = IF requests[r] # None THEN requests[r] ELSE NewRequest(r, op, len, t, FALSE)
       PROVE  /\ state \in RequestStates /\ state.dev = DevOf[r] /\ (requests[r] = None => Room)
              /\ state.inserted <=> IsQueued(requests[r])
              /\ state.issued <=> IsIssued(requests[r])
              /\ SeenEntry(requests[r], blk[r], Tracked(r, blk[r].op), clock.strict)
                  => state.remaining_bytes = len /\ state.operation = op
  <2>1. CASE requests[r] # None
    <3>1. state = requests[r]
      BY <1>13, <2>1
    <3>2. SeenEntry(requests[r], blk[r], Tracked(r, blk[r].op), clock.strict)
            => state.remaining_bytes = len /\ state.operation = op
      BY <1>1, <1>9, <2>1, <3>1 DEF SeenEntry
    <3>. QED BY <1>7, <2>1, <3>1, <3>2 DEF IsQueued, IsIssued
  <2>2. CASE requests[r] = None
    <3>1. PICK no \in BOOLEAN : no = FALSE
      OBVIOUS
    <3>2. IsNew(state, r, op, len, t, no)
      BY <1>13, <2>2, <3>1 DEF IsNew
    <3>3. /\ state \in RequestStates /\ state # None /\ state.dev = DevOf[r] /\ state.operation = op
          /\ state.remaining_bytes = len /\ state.inserted = no /\ ~state.issued
      BY <1>2, <1>3, <3>2, NewRequestFacts
    <3>4. ~state.inserted
      BY <3>1, <3>3
    <3>. QED BY <1>13, <2>2, <3>3, <3>4 DEF IsQueued, IsIssued
  <2>. QED BY <2>1, <2>2
<1>14. PICK state : state = IF requests[r] # None THEN requests[r] ELSE NewRequest(r, op, len, t, FALSE)
  OBVIOUS
<1>15. PICK mid : mid = IF state.inserted THEN adjust_depth(device_depths, DevOf[r], -1, 0, t)
                        ELSE device_depths
  OBVIOUS
<1>16. CASE /\ Tracked(r, op) /\ (requests[r] # None \/ Room)
            /\ device_depths' = IF state.issued THEN mid ELSE adjust_depth(mid, DevOf[r], 0, 1, t)
            /\ requests' = [requests EXCEPT ![r] =
                 [state EXCEPT !.inserted = FALSE, !.issued = TRUE, !.issue_ns = t, !.bytes = len,
                           !.remaining_bytes = IF @ = 0 THEN len ELSE @]]
  <2>1. /\ state \in RequestStates /\ state.dev = DevOf[r] /\ (requests[r] = None => Room)
        /\ state.inserted <=> IsQueued(requests[r])
        /\ state.issued <=> IsIssued(requests[r])
        /\ SeenEntry(requests[r], blk[r], Tracked(r, blk[r].op), clock.strict)
            => state.remaining_bytes = len /\ state.operation = op
    BY <1>13, <1>14, <1>16
  <2>. QED BY <1>12, <1>15, <1>16, <2>1
<1>. QED BY <1>1, <1>10, <1>11, <1>14, <1>15, <1>16 DEF trace_block_rq_issue

\* A queued request grows or is absorbed.
LEMMA MergeEvent ==
    ASSUME TypeInv, OwnDevice, Followed, SeenInv, NEW r \in Requests, RqMerge(r)
    PROVE  \E x, b, q, i, t : Event(r, x, b, q, i, t)
<1>1. PICK len \in {blk[r].len, blk[r].len + 1}, absorbed \in BOOLEAN :
          /\ IF absorbed THEN len = blk[r].len ELSE len > blk[r].len /\ blk[r].len \in Lens
          /\ blk' = [blk EXCEPT ![r].len = IF absorbed THEN 0 ELSE len,
                                ![r].st = IF absorbed THEN "free" ELSE @]
          /\ trace_block_rq_merge(r, len)
          /\ unseen' = (unseen \/ absorbed)
  BY DEF RqMerge
<1>2. /\ DevOf[r] \in Devs /\ requests \in Entered /\ device_depths \in Depths
      /\ blk[r] \in BlkRecords /\ now \in Nat /\ unseen \in BOOLEAN
      /\ requests[r] # None =>
           /\ requests[r] \in RequestStates /\ requests[r].dev = DevOf[r]
           /\ requests[r].issued => requests[r].issue_ns <= blk[r].at
      /\ requests[r] \in RequestStates \cup {None}
  BY Before
<1>3. blk[r].len \in Nat /\ blk[r].st = "queued" /\ blk[r].at \in Nat /\ now' = Larger(now, now)
  BY <1>2 DEF BlkRecords, RqMerge, Hit
<1>4. len \in Nat /\ len >= blk[r].len
  BY <1>1, <1>3
<1>5. PICK m \in Nat, st \in {"free", "queued"} : /\ m = (IF absorbed THEN 0 ELSE len)
                                                  /\ st = (IF absorbed THEN "free" ELSE "queued")
  BY <1>4
<1>6. PICK b : b = [blk[r] EXCEPT !.len = m, !.st = st]
  OBVIOUS
<1>7. /\ b \in BlkRecords /\ b.st = st /\ b.op = blk[r].op /\ b.len = m /\ b.at = blk[r].at
  BY <1>2, <1>6 DEF BlkRecords
<1>8. blk' = [blk EXCEPT ![r] = b]
  BY <1>1, <1>2, <1>3, <1>5, <1>6 DEF TypeInv, BlkRecords
<1>9. /\ unseen' \in BOOLEAN /\ (unseen => unseen') /\ (clock.skew = 0 => now <= now)
      /\ (b.st # "free" => b.len > 0) /\ blk[r].at <= b.at
  BY <1>1, <1>2, <1>3, <1>4, <1>5, <1>7
<1>10. device_depths' = device_depths
  BY <1>1 DEF trace_block_rq_merge
<1>11. CASE ~request_tracking(cfg) \/ requests[r] = None
  <2>1. requests' = requests
    BY <1>1, <1>11 DEF trace_block_rq_merge
  <2>2. ~unseen' /\ SeenEntry(requests[r], blk[r], Tracked(r, blk[r].op), clock.strict)
           => SeenEntry(requests[r], b, Tracked(r, b.op), clock.strict)
    BY <1>3, <1>7, <1>11 DEF SeenEntry, Tracked
  <2>3. Event(r, requests[r], b, 0, 0, now)
    BY <1>2, <1>3, <1>7, <1>8, <1>9, <1>10, <2>1, <2>2, Untouched
  <2>. QED BY <2>3
<1>12. CASE request_tracking(cfg) /\ requests[r] # None
  <2>1. PICK s : s = requests[r]
    OBVIOUS
  <2>2. s \in RequestStates /\ s.dev = DevOf[r] /\ (s.issued => s.issue_ns <= blk[r].at)
    BY <1>2, <1>12, <2>1
  <2>3. PICK x : x = [s EXCEPT !.bytes = len, !.remaining_bytes = len]
    OBVIOUS
  <2>4. /\ x \in RequestStates /\ x.dev = DevOf[r] /\ x.operation = s.operation
        /\ x.remaining_bytes = len /\ x.inserted = s.inserted /\ x.issued = s.issued
        /\ x.issue_ns = s.issue_ns
    BY <1>4, <2>2, <2>3 DEF RequestStates
  <2>5. x # None
    BY <2>4, NoneAssumption
  <2>6. requests' = [requests EXCEPT ![r] = x]
    BY <1>1, <1>2, <1>12, <2>1, <2>2, <2>3 DEF trace_block_rq_merge, Entered, RequestStates
  <2>7. Adj(device_depths, device_depths', DevOf[r], 0, 0, now)
    BY <1>2, <1>10, AdjNothing
  <2>8. EntryMoves(requests[r], x, 0, 0, clock.strict)
    BY <1>12, <2>1, <2>4, <2>5 DEF EntryMoves, Toggle, IsQueued, IsIssued
  <2>9. ~unseen' /\ SeenEntry(requests[r], blk[r], Tracked(r, blk[r].op), clock.strict)
           => SeenEntry(x, b, Tracked(r, b.op), clock.strict)
    BY <1>1, <1>3, <1>5, <1>7, <1>12, <2>1, <2>4, <2>5 DEF SeenEntry
  <2>10. Event(r, x, b, 0, 0, now)
    BY <1>2, <1>3, <1>7, <1>8, <1>9, <1>12, <2>2, <2>4, <2>5, <2>6, <2>7, <2>8, <2>9 DEF Event
  <2>. QED BY <2>10
<1>. QED BY <1>11, <1>12

\* The time an attempt took; nothing when it was issued at this very instant.
LEMMA AttemptFacts ==
    ASSUME NEW s \in RequestStates, NEW t \in Nat
    PROVE  /\ Attempt(s, t) \in Nat
           /\ Attempt(s, t) > 0 <=> s.issued /\ t > s.issue_ns
BY DEF Attempt, RequestStates

\* A request comes back from the driver: its attempt ends unless it was issued at this instant.
LEMMA RequeueEvent ==
    ASSUME TypeInv, OwnDevice, Followed, SeenInv, NEW r \in Requests, RqRequeue(r)
    PROVE  \E x, b, q, i, t : Event(r, x, b, q, i, t)
<1>1. PICK t \in Stamp(r) :
          /\ blk' = [blk EXCEPT ![r].st = "requeued", ![r].at = t]
          /\ Hit(t) /\ trace_block_rq_requeue(r, blk[r].op, t)
  BY DEF RqRequeue
<1>2. /\ DevOf[r] \in Devs /\ requests \in Entered /\ device_depths \in Depths
      /\ blk[r] \in BlkRecords /\ now \in Nat /\ unseen \in BOOLEAN
      /\ requests[r] # None =>
           /\ requests[r] \in RequestStates /\ requests[r].dev = DevOf[r]
           /\ requests[r].issued => requests[r].issue_ns <= blk[r].at
      /\ \A e \in Devs : device_depths[e] # None => has_metric(cfg, "saturation")
      /\ requests[r] \in RequestStates \cup {None}
  BY Before
<1>3. /\ t \in Nat /\ t >= blk[r].at /\ (clock.strict => t > blk[r].at)
      /\ (clock.skew = 0 => now <= t) /\ clock.strict \in BOOLEAN
  BY StampFacts
<1>4. /\ now' = Larger(now, t) /\ blk[r].st = "driver" /\ blk[r].at \in Nat /\ blk[r].len \in Nat
      /\ blk[r].len > 0
  BY <1>1, <1>2 DEF Hit, RqRequeue, BlkRecords, SeenInv
<1>5. PICK b : b = [blk[r] EXCEPT !.st = "requeued", !.at = t]
  OBVIOUS
<1>6. /\ b \in BlkRecords /\ b.st = "requeued" /\ b.op = blk[r].op /\ b.len = blk[r].len /\ b.at = t
  BY <1>2, <1>3, <1>5 DEF BlkRecords
<1>7. blk' = [blk EXCEPT ![r] = b]
  BY <1>1, <1>2, <1>5 DEF TypeInv, BlkRecords
<1>8. /\ unseen' = unseen /\ unseen' \in BOOLEAN /\ (b.st # "free" => b.len > 0) /\ blk[r].at <= b.at
  BY <1>2, <1>3, <1>4, <1>6 DEF RqRequeue, history
<1>9. CASE /\ ~Tracked(r, blk[r].op) \/ requests[r] = None
           /\ requests' = requests /\ device_depths' = device_depths
  <2>1. SeenEntry(requests[r], blk[r], Tracked(r, blk[r].op), clock.strict)
           => SeenEntry(requests[r], b, Tracked(r, b.op), clock.strict)
    BY <1>4, <1>6, <1>9 DEF SeenEntry
  <2>2. Event(r, requests[r], b, 0, 0, t)
    BY <1>3, <1>4, <1>6, <1>7, <1>8, <1>9, <2>1, Untouched
  <2>. QED BY <2>2
<1>10. ASSUME Tracked(r, blk[r].op), requests[r] # None, NEW s, s = requests[r],
              NEW attempt, attempt = Attempt(s, t),
              device_depths' = IF attempt > 0 THEN adjust_depth(device_depths, s.dev, 0, -1, t)
                               ELSE device_depths,
              requests' = [requests EXCEPT ![r] =
                [[s EXCEPT !.service_ns = @ + attempt, !.issued = @ /\ attempt = 0,
                           !.requeues = @ + 1] EXCEPT !.issue_ns = 0]]
       PROVE  \E x, bb, q, i, tt : Event(r, x, bb, q, i, tt)
  <2>1. s \in RequestStates /\ s.dev = DevOf[r] /\ (s.issued => s.issue_ns <= blk[r].at)
    BY <1>2, <1>10
  <2>2. /\ attempt \in Nat /\ (attempt > 0 <=> s.issued /\ t > s.issue_ns)
    BY <1>3, <1>10, <2>1, AttemptFacts
  <2>3. /\ s.service_ns \in Nat /\ s.issued \in BOOLEAN /\ s.requeues \in Nat /\ s.issue_ns \in Nat
    BY <2>1 DEF RequestStates
  <2>4. PICK sv \in Nat, rq \in Nat : sv = s.service_ns + attempt /\ rq = s.requeues + 1
    BY <2>2, <2>3
  <2>5. PICK is \in BOOLEAN : is = (s.issued /\ attempt = 0)
    BY <2>3
  <2>6. PICK x : x = [s EXCEPT !.service_ns = sv, !.issued = is, !.requeues = rq, !.issue_ns = 0]
    OBVIOUS
  <2>7. /\ x \in RequestStates /\ x.dev = DevOf[r] /\ x.operation = s.operation
        /\ x.remaining_bytes = s.remaining_bytes /\ x.inserted = s.inserted /\ x.issued = is
        /\ x.issue_ns = 0
    BY <2>1, <2>6 DEF RequestStates
  <2>8. x # None
    BY <2>7, NoneAssumption
  <2>9. requests' = [requests EXCEPT ![r] = x]
    BY <1>10, <2>1, <2>4, <2>5, <2>6 DEF RequestStates
  <2>10. /\ x.issued => x.issue_ns <= b.at
    BY <1>3, <1>6, <2>7
  <2>14. attempt > 0 => ~x.issued
    <3>1. attempt > 0 => ~(attempt = 0)
      BY <2>2
    <3>2. ~(attempt = 0) => ~is
      BY <2>5
    <3>. QED BY <2>7, <3>1, <3>2
  <2>11. SeenEntry(requests[r], blk[r], Tracked(r, blk[r].op), clock.strict)
           => SeenEntry(x, b, Tracked(r, b.op), clock.strict)
    <3> SUFFICES ASSUME SeenEntry(s, blk[r], Tracked(r, blk[r].op), clock.strict)
                 PROVE  SeenEntry(x, b, Tracked(r, b.op), clock.strict)
      BY <1>10
    <3>1. /\ s.remaining_bytes = blk[r].len /\ s.operation = blk[r].op
          /\ clock.strict => ~s.inserted /\ s.issued
      BY <1>4, <1>10 DEF SeenEntry
    <3>2. clock.strict => attempt > 0
      BY <1>3, <1>4, <2>1, <2>2, <2>3, <3>1
    <3>3. clock.strict => ~x.issued /\ ~x.inserted
      BY <2>7, <2>14, <3>1, <3>2
    <3>. QED BY <1>6, <1>10, <2>7, <2>8, <3>1, <3>3 DEF SeenEntry
  <2>12. CASE attempt > 0
    <3>1. Adj(device_depths, device_depths', DevOf[r], 0, -1, t)
      BY <1>2, <1>3, <1>10, <2>1, <2>12, AdjustOnce
    <3>2. s.issued /\ ~x.issued
      BY <2>2, <2>12, <2>14
    <3>3. EntryMoves(requests[r], x, 0, -1, clock.strict)
      BY <1>10, <2>7, <2>8, <3>2 DEF EntryMoves, Toggle, IsQueued, IsIssued
    <3>4. Event(r, x, b, 0, -1, t)
      BY <1>2, <1>3, <1>4, <1>6, <1>7, <1>8, <1>10, <2>7, <2>8, <2>9, <2>10, <2>11, <3>1, <3>3 DEF Event
    <3>. QED BY <3>4
  <2>13. CASE ~(attempt > 0)
    <3>1. Adj(device_depths, device_depths', DevOf[r], 0, 0, t)
      BY <1>2, <1>3, <1>10, <2>13, AdjNothing
    <3>2. attempt = 0
      BY <2>2, <2>13
    <3>3. x.issued <=> s.issued
      BY <2>5, <2>7, <3>2
    <3>4. EntryMoves(requests[r], x, 0, 0, clock.strict)
      BY <1>10, <2>7, <2>8, <3>3 DEF EntryMoves, Toggle, IsQueued, IsIssued
    <3>5. Event(r, x, b, 0, 0, t)
      BY <1>2, <1>3, <1>4, <1>6, <1>7, <1>8, <1>10, <2>7, <2>8, <2>9, <2>10, <2>11, <3>1, <3>4 DEF Event
    <3>. QED BY <3>5
  <2>. QED BY <2>12, <2>13
<1>11. CASE ~should_track(DevOf[r], blk[r].op) /\ UNCHANGED kernel
  BY <1>9, <1>11 DEF kernel, Tracked
<1>12. CASE /\ ~request_tracking(cfg) \/ requests[r] = None
            /\ UNCHANGED <<requests, device_depths, ring>>
  BY <1>9, <1>12 DEF Tracked
<1>13. PICK s, attempt : s = requests[r] /\ attempt = Attempt(s, t)
  OBVIOUS
<1>14. CASE /\ Tracked(r, blk[r].op) /\ requests[r] # None
            /\ device_depths' = IF attempt > 0 THEN adjust_depth(device_depths, s.dev, 0, -1, t)
                                ELSE device_depths
            /\ requests' = [requests EXCEPT ![r] =
                [[s EXCEPT !.service_ns = @ + attempt, !.issued = @ /\ attempt = 0,
                           !.requeues = @ + 1] EXCEPT !.issue_ns = 0]]
  BY <1>10, <1>13, <1>14
<1>. QED BY <1>1, <1>11, <1>12, <1>13, <1>14 DEF trace_block_rq_requeue

\* A request completes in part or at once: the last part removes the entry.
LEMMA CompleteEvent ==
    ASSUME TypeInv, OwnDevice, Followed, SeenInv, NEW r \in Requests, RqComplete(r)
    PROVE  \E x, b, q, i, t : Event(r, x, b, q, i, t)
<1>1. PICK n \in {1, blk[r].len}, error \in BOOLEAN, t \in Stamp(r) :
          /\ error => n = blk[r].len
          /\ blk' = [blk EXCEPT ![r].len = @ - n, ![r].at = t,
                                ![r].st = IF n = blk[r].len THEN "free" ELSE @]
          /\ Hit(t) /\ trace_block_rq_complete(r, blk[r].op, error, n, t)
  BY ZenonT(60) DEF RqComplete
<1>2. /\ DevOf[r] \in Devs /\ requests \in Entered /\ device_depths \in Depths
      /\ blk[r] \in BlkRecords /\ now \in Nat /\ unseen \in BOOLEAN
      /\ requests[r] # None =>
           /\ requests[r] \in RequestStates /\ requests[r].dev = DevOf[r]
           /\ requests[r].issued => requests[r].issue_ns <= blk[r].at
      /\ \A e \in Devs : device_depths[e] # None => has_metric(cfg, "saturation")
      /\ requests[r] \in RequestStates \cup {None}
  BY Before
<1>3. /\ t \in Nat /\ t >= blk[r].at /\ (clock.strict => t > blk[r].at)
      /\ (clock.skew = 0 => now <= t) /\ clock.strict \in BOOLEAN
  BY StampFacts
<1>4. /\ now' = Larger(now, t) /\ blk[r].st = "driver" /\ blk[r].at \in Nat /\ blk[r].len \in Nat
      /\ blk[r].len > 0
  BY <1>1, <1>2 DEF Hit, RqComplete, BlkRecords, SeenInv
<1>0. n \in Nat /\ n <= blk[r].len /\ n > 0
  BY <1>1, <1>4
<1>21. blk[r].len - n \in Nat
  BY <1>0, <1>4
<1>5. PICK m \in Nat, st \in {"free", "driver"} : /\ m = blk[r].len - n
                                                  /\ st = (IF n = blk[r].len THEN "free" ELSE "driver")
  BY <1>21
<1>6. PICK b : b = [blk[r] EXCEPT !.len = m, !.at = t, !.st = st]
  OBVIOUS
<1>7. /\ b \in BlkRecords /\ b.st = st /\ b.op = blk[r].op /\ b.len = m /\ b.at = t
  BY <1>2, <1>3, <1>6 DEF BlkRecords
<1>8. blk' = [blk EXCEPT ![r] = b]
  BY <1>1, <1>2, <1>4, <1>5, <1>6 DEF TypeInv, BlkRecords
<1>9. /\ unseen' = unseen /\ unseen' \in BOOLEAN /\ blk[r].at <= b.at
  BY <1>2, <1>3, <1>7 DEF RqComplete
<1>10. b.st # "free" => b.len > 0
  BY <1>1, <1>4, <1>5, <1>7
<1>11. CASE /\ ~Tracked(r, blk[r].op) \/ requests[r] = None
            /\ requests' = requests /\ device_depths' = device_depths
  <2>1. SeenEntry(requests[r], blk[r], Tracked(r, blk[r].op), clock.strict)
           => SeenEntry(requests[r], b, Tracked(r, b.op), clock.strict)
    BY <1>4, <1>7, <1>11 DEF SeenEntry
  <2>2. Event(r, requests[r], b, 0, 0, t)
    BY <1>3, <1>4, <1>7, <1>8, <1>9, <1>10, <1>11, <2>1, Untouched
  <2>. QED BY <2>2
<1>12. ASSUME requests[r] # None, NEW s, s = requests[r]
       PROVE  /\ s \in RequestStates /\ s.dev = DevOf[r] /\ (s.issued => s.issue_ns <= blk[r].at)
              /\ s.remaining_bytes \in Nat /\ s.inserted \in BOOLEAN /\ s.issued \in BOOLEAN
              /\ s.issue_ns \in Nat
  <2>1. s \in RequestStates /\ s.dev = DevOf[r] /\ (s.issued => s.issue_ns <= blk[r].at)
    BY <1>2, <1>12
  <2>. QED BY <2>1 DEF RequestStates
<1>13. ASSUME Tracked(r, blk[r].op), requests[r] # None, NEW s, s = requests[r],
              ~(error \/ n >= s.remaining_bytes),
              requests' = [requests EXCEPT ![r].remaining_bytes = @ - n],
              device_depths' = device_depths
       PROVE  \E x, bb, q, i, tt : Event(r, x, bb, q, i, tt)
  <2>1. /\ s \in RequestStates /\ s.dev = DevOf[r] /\ (s.issued => s.issue_ns <= blk[r].at)
        /\ s.remaining_bytes \in Nat /\ s.issue_ns \in Nat
    BY <1>12, <1>13
  <2>2. PICK k \in Nat : k = s.remaining_bytes - n
    BY <1>1, <1>4, <1>13, <2>1
  <2>3. PICK x : x = [s EXCEPT !.remaining_bytes = k]
    OBVIOUS
  <2>4. /\ x \in RequestStates /\ x.dev = DevOf[r] /\ x.operation = s.operation
        /\ x.remaining_bytes = k /\ x.inserted = s.inserted /\ x.issued = s.issued
        /\ x.issue_ns = s.issue_ns
    BY <2>1, <2>3 DEF RequestStates
  <2>5. x # None
    BY <2>4, NoneAssumption
  <2>6. requests' = [requests EXCEPT ![r] = x]
    BY <1>2, <1>13, <2>1, <2>2, <2>3 DEF Entered, RequestStates
  <2>7. Adj(device_depths, device_depths', DevOf[r], 0, 0, t)
    BY <1>2, <1>3, <1>13, AdjNothing
  <2>8. EntryMoves(requests[r], x, 0, 0, clock.strict)
    BY <1>13, <2>4, <2>5 DEF EntryMoves, Toggle, IsQueued, IsIssued
  <2>9. SeenEntry(requests[r], blk[r], Tracked(r, blk[r].op), clock.strict)
           => SeenEntry(x, b, Tracked(r, b.op), clock.strict)
    <3> SUFFICES ASSUME SeenEntry(s, blk[r], Tracked(r, blk[r].op), clock.strict)
                 PROVE  SeenEntry(x, b, Tracked(r, b.op), clock.strict)
      BY <1>13
    <3>1. /\ s.remaining_bytes = blk[r].len /\ s.operation = blk[r].op
          /\ clock.strict => ~s.inserted /\ s.issued
      BY <1>4, <1>13 DEF SeenEntry
    <3>2. n # blk[r].len /\ k = m
      BY <1>1, <1>4, <1>5, <1>13, <2>2, <3>1
    <3>3. b.st = "driver"
      BY <1>5, <1>7, <3>2
    <3>. QED BY <1>7, <1>13, <2>4, <2>5, <3>1, <3>2, <3>3 DEF SeenEntry
  <2>10. x.issued => x.issue_ns <= b.at
    BY <1>3, <1>4, <1>7, <2>1, <2>4
  <2>11. Event(r, x, b, 0, 0, t)
    BY <1>2, <1>3, <1>4, <1>7, <1>8, <1>9, <1>10, <1>13, <2>4, <2>5, <2>6, <2>7, <2>8, <2>9, <2>10 DEF Event
  <2>. QED BY <2>11
<1>14. ASSUME Tracked(r, blk[r].op), requests[r] # None, NEW s, s = requests[r],
              error \/ n >= s.remaining_bytes,
              NEW attempt, attempt = Attempt(s, t),
              NEW landed, landed = IF attempt > 0 THEN adjust_depth(device_depths, s.dev, 0, -1, t)
                                   ELSE device_depths,
              device_depths' = IF s.inserted THEN adjust_depth(landed, s.dev, -1, 0, t) ELSE landed,
              requests' = [requests EXCEPT ![r] = None]
       PROVE  \E x, bb, q, i, tt : Event(r, x, bb, q, i, tt)
  <2>1. /\ s \in RequestStates /\ s.dev = DevOf[r] /\ (s.issued => s.issue_ns <= blk[r].at)
        /\ s.remaining_bytes \in Nat /\ s.inserted \in BOOLEAN /\ s.issued \in BOOLEAN
        /\ s.issue_ns \in Nat
    BY <1>12, <1>14
  <2>2. /\ attempt \in Nat /\ (attempt > 0 <=> s.issued /\ t > s.issue_ns)
    BY <1>3, <1>14, <2>1, AttemptFacts
  <2>3. PICK q \in Int, i \in Int : /\ q = (IF s.inserted THEN -1 ELSE 0)
                                    /\ i = (IF attempt > 0 THEN -1 ELSE 0)
    OBVIOUS
  <2>4. Adj(device_depths, landed, DevOf[r], 0, i, t)
    <3>1. CASE attempt > 0
      BY <1>2, <1>3, <1>14, <2>1, <2>3, <3>1, AdjustOnce
    <3>2. CASE ~(attempt > 0)
      BY <1>2, <1>3, <1>14, <2>3, <3>2, AdjNothing
    <3>. QED BY <3>1, <3>2
  <2>5. landed \in Depths /\ \A e \in Devs : landed[e] # None => has_metric(cfg, "saturation")
    BY <1>2, <2>4 DEF Adj
  <2>6. Adj(landed, device_depths', DevOf[r], q, 0, t)
    <3>1. CASE s.inserted
      BY <1>2, <1>3, <1>14, <2>1, <2>3, <2>5, <3>1, AdjustOnce
    <3>2. CASE ~s.inserted
      BY <1>2, <1>3, <1>14, <2>3, <2>5, <3>2, AdjNothing
    <3>. QED BY <3>1, <3>2
  <2>7. Adj(device_depths, device_depths', DevOf[r], q, i, t)
    BY <1>2, <1>3, <2>4, <2>6, AdjTwice
  <2>8. clock.strict /\ s.issued => attempt > 0
    BY <1>3, <1>4, <2>1, <2>2
  <2>9. attempt > 0 => s.issued
    BY <2>2
  <2>10. EntryMoves(requests[r], None, q, i, clock.strict)
    <3>1. Toggle(IsQueued(s), IsQueued(None), q)
      BY <1>14, <2>3 DEF Toggle, IsQueued
    <3>2. Toggle(IsIssued(s), IsIssued(None), i) \/ Leak(IsIssued(s), IsIssued(None), i, clock.strict)
      BY <1>3, <1>14, <2>3, <2>8, <2>9 DEF Toggle, Leak, IsIssued
    <3>. QED BY <1>14, <3>1, <3>2 DEF EntryMoves
  <2>11. SeenEntry(requests[r], blk[r], Tracked(r, blk[r].op), clock.strict)
           => SeenEntry(None, b, Tracked(r, b.op), clock.strict)
    <3> SUFFICES ASSUME SeenEntry(s, blk[r], Tracked(r, blk[r].op), clock.strict)
                 PROVE  SeenEntry(None, b, Tracked(r, b.op), clock.strict)
      BY <1>14
    <3>1. s.remaining_bytes = blk[r].len
      BY <1>4, <1>14 DEF SeenEntry
    <3>2. n = blk[r].len
      BY <1>1, <1>4, <1>14, <3>1
    <3>. QED BY <1>5, <1>7, <3>2 DEF SeenEntry
  <2>12. Event(r, None, b, q, i, t)
    BY <1>2, <1>3, <1>4, <1>7, <1>8, <1>9, <1>10, <1>14, <2>7, <2>10, <2>11 DEF Event
  <2>. QED BY <2>12
<1>15. PICK s, attempt : s = requests[r] /\ attempt = Attempt(s, t)
  OBVIOUS
<1>16. PICK landed : landed = IF attempt > 0 THEN adjust_depth(device_depths, s.dev, 0, -1, t)
                              ELSE device_depths
  OBVIOUS
<1>17. CASE ~should_track(DevOf[r], blk[r].op) /\ UNCHANGED kernel
  BY <1>11, <1>17 DEF kernel, Tracked
<1>18. CASE /\ ~request_tracking(cfg) \/ requests[r] = None
            /\ UNCHANGED <<requests, device_depths, ring>>
  BY <1>11, <1>18 DEF Tracked
<1>19. CASE /\ Tracked(r, blk[r].op) /\ s # None /\ ~(error \/ n >= s.remaining_bytes)
            /\ requests' = [requests EXCEPT ![r].remaining_bytes = @ - n]
            /\ UNCHANGED <<device_depths, ring>>
  BY <1>13, <1>15, <1>19
<1>20. CASE /\ Tracked(r, blk[r].op) /\ s # None /\ (error \/ n >= s.remaining_bytes)
            /\ device_depths' = IF s.inserted THEN adjust_depth(landed, s.dev, -1, 0, t) ELSE landed
            /\ requests' = [requests EXCEPT ![r] = None]
  BY <1>14, <1>15, <1>16, <1>20
<1>. QED BY <1>1, <1>15, <1>16, <1>17, <1>18, <1>19, <1>20 DEF trace_block_rq_complete

\* Every handler is an event of its request, and leaves the sampler alone.
LEMMA HandlerEvent ==
    ASSUME TypeInv, OwnDevice, Followed, SeenInv, NEW r \in Requests,
           RqInsert(r) \/ RqMerge(r) \/ RqIssue(r) \/ RqRequeue(r) \/ RqComplete(r)
    PROVE  /\ \E x, b, q, i, t : Event(r, x, b, q, i, t)
           /\ HitFrame
<1>1. \E x, b, q, i, t : Event(r, x, b, q, i, t)
  BY InsertEvent, MergeEvent, IssueEvent, RequeueEvent, CompleteEvent
<1>2. RqInsert(r) => HitFrame
  BY DEF RqInsert, Hit, HitFrame
<1>3. RqMerge(r) => HitFrame
  BY DEF RqMerge, Hit, HitFrame
<1>4. RqIssue(r) => HitFrame
  BY DEF RqIssue, Hit, HitFrame
<1>5. RqRequeue(r) => HitFrame
  <2>1. RqRequeue(r) => UNCHANGED <<config, sampler>> /\ \E t : Hit(t)
    BY ZenonT(60) DEF RqRequeue
  <2>. QED BY <2>1 DEF Hit, HitFrame
<1>6. RqComplete(r) => HitFrame
  BY DEF RqComplete, Hit, HitFrame
<1>. QED BY <1>1, <1>2, <1>3, <1>4, <1>5, <1>6

-----------------------------------------------------------------------------
(* What an event keeps.                                                     *)

\* The types after an event, and what it leaves of the other requests.
LEMMA EventTypes ==
    ASSUME TypeInv, HitFrame, NEW r \in Requests, NEW x, NEW b, NEW q, NEW i, NEW t,
           Event(r, x, b, q, i, t)
    PROVE  /\ blk' \in [Requests -> BlkRecords] /\ requests' \in [Requests -> RequestStates \cup {None}]
           /\ device_depths' \in [Devs -> DeviceDepths \cup {None}]
           /\ now' \in Nat /\ unseen' \in BOOLEAN
           /\ blk'[r] = b /\ requests'[r] = x
           /\ \A u \in Requests : u # r => blk'[u] = blk[u] /\ requests'[u] = requests[u]
           /\ cfg' = cfg /\ clock' = clock /\ phase' = phase /\ phase = "running"
<1>1. blk \in [Requests -> BlkRecords] /\ requests \in [Requests -> RequestStates \cup {None}] /\ now \in Nat
  BY DEF TypeInv
<1>2. /\ blk' = [blk EXCEPT ![r] = b] /\ b \in BlkRecords
      /\ requests' = [requests EXCEPT ![r] = x] /\ x \in RequestStates \cup {None}
  BY DEF Event
<1>3. now' \in Nat /\ unseen' \in BOOLEAN
  BY <1>1 DEF Event, Larger
<1>4. device_depths' \in [Devs -> DeviceDepths \cup {None}]
  BY DEF Event, Adj, Depths
<1>5. cfg' = cfg /\ clock' = clock /\ phase' = phase /\ phase = "running"
  BY DEF HitFrame, config
<1>. QED BY <1>1, <1>2, <1>3, <1>4, <1>5

\* Entries stay of their own device, and depths are kept only for followed devices.
LEMMA EventOwn ==
    ASSUME TypeInv, OwnDevice, Followed, HitFrame, NEW r \in Requests, NEW x, NEW b, NEW q, NEW i,
           NEW t, Event(r, x, b, q, i, t)
    PROVE  OwnDevice' /\ Followed'
<1>1. /\ blk'[r] = b /\ requests'[r] = x
      /\ \A u \in Requests : u # r => blk'[u] = blk[u] /\ requests'[u] = requests[u]
      /\ cfg' = cfg
  BY EventTypes
<1>2. x # None => x.dev = DevOf[r] /\ (x.issued => x.issue_ns <= b.at)
  BY DEF Event
<1>3. OwnDevice'
  BY <1>1, <1>2 DEF OwnDevice
<1>4. DevOf[r] \in Devs
  BY BlockAssumption
<1>5. \A d \in Devs : device_depths'[d] # None => device_depths[d] # None
  BY <1>4 DEF Event, Adj
<1>6. Followed'
  BY <1>1, <1>5 DEF Followed, has_metric
<1>. QED BY <1>3, <1>6

\* The maps stay within their limit and the depths exact.
LEMMA EventDepths ==
    ASSUME TypeInv, OwnDevice, HitFrame, NEW r \in Requests, NEW x, NEW b, NEW q, NEW i,
           NEW t, Event(r, x, b, q, i, t), KeptOK(requests, cfg.max_requests),
           DepthsOK(requests, device_depths, clock.strict)
    PROVE  /\ KeptOK(requests, cfg.max_requests)'
           /\ DepthsOK(requests, device_depths, clock.strict)'
<1>1. PICK rq, dps, nrq, ndps : rq = requests /\ dps = device_depths /\ nrq = requests' /\ ndps = device_depths'
  OBVIOUS
<1>2. cfg' = cfg /\ clock' = clock
  BY EventTypes
<1>3. PICK n \in Nat, strict \in BOOLEAN : n = cfg.max_requests /\ strict = clock.strict
  <2>1. cfg \in Configs /\ clock \in Clocks
    BY DEF TypeInv
  <2>. QED BY <2>1, BlockAssumption
<1>4. rq \in Entered /\ Owned(rq) /\ dps \in Depths /\ IsFiniteSet(Kept(rq)) /\ Cardinality(Kept(rq)) <= n
  BY <1>1, <1>3 DEF TypeInv, Entered, Depths, OwnDevice, Owned, KeptOK
<1>5. /\ nrq = [rq EXCEPT ![r] = x] /\ (x # None => x.dev = DevOf[r])
      /\ Adj(dps, ndps, DevOf[r], q, i, t) /\ EntryMoves(rq[r], x, q, i, strict)
      /\ x # None /\ rq[r] = None => Cardinality(Kept(rq)) < n
  BY <1>1, <1>3 DEF Event, Room, Kept
<1>6. DepthsOK(rq, dps, strict)
  BY <1>1, <1>3
<1>7. DepthsOK(nrq, ndps, strict)
  <2>1. /\ x # None => x.dev = DevOf[r]
        /\ Adj(dps, ndps, DevOf[r], q, i, t) /\ EntryMoves(rq[r], x, q, i, strict)
    BY <1>5
  <2>2. Becomes(nrq, rq, r, x)
    BY <1>5 DEF Becomes
  <2>. QED BY <1>4, <1>6, <2>1, <2>2, EntryDepths
<1>8. KeptOK(nrq, n)
  <2>1. nrq[r] = x /\ \A u \in Requests : u # r => nrq[u] = rq[u]
    BY <1>4, <1>5 DEF Entered
  <2>2. Kept(nrq) = IF x # None THEN Kept(rq) \cup {r} ELSE Kept(rq) \ {r}
    BY <2>1 DEF Kept
  <2>3. PICK S, nS : S = Kept(rq) /\ nS = Kept(nrq)
    OBVIOUS
  <2>4. r \in S <=> rq[r] # None
    BY <2>3 DEF Kept
  <2>5. IsFiniteSet(S) /\ Cardinality(S) <= n /\ nS = IF x # None THEN S \cup {r} ELSE S \ {r}
    BY <1>4, <2>2, <2>3
  <2>6. /\ Cardinality(S) \in Nat
        /\ r \notin S => IsFiniteSet(S \cup {r}) /\ Cardinality(S \cup {r}) = Cardinality(S) + 1
        /\ r \in S => /\ IsFiniteSet(S \ {r}) /\ Cardinality(S \ {r}) = Cardinality(S) - 1
                      /\ Cardinality(S) > 0
    BY <2>5, Toggled
  <2>7. CASE x # None /\ r \notin S
    <3>1. nS = S \cup {r} /\ Cardinality(S) < n
      BY <1>5, <2>3, <2>4, <2>5, <2>7
    <3>2. IsFiniteSet(nS) /\ Cardinality(nS) = Cardinality(S) + 1
      BY <2>6, <2>7, <3>1
    <3>. QED BY <2>3, <2>6, <3>1, <3>2 DEF KeptOK
  <2>8. CASE x = None /\ r \in S
    BY <2>3, <2>5, <2>6, <2>8 DEF KeptOK
  <2>9. CASE (x # None /\ r \in S) \/ (x = None /\ r \notin S)
    <3>1. nS = S
      BY <2>5, <2>9
    <3>. QED BY <2>3, <2>5, <3>1 DEF KeptOK
  <2>. QED BY <2>7, <2>8, <2>9
<1>9. KeptOK(requests, cfg.max_requests)' <=> KeptOK(nrq, n)
  BY <1>1, <1>2, <1>3 DEF KeptOK, Kept
<1>10. DepthsOK(requests, device_depths, clock.strict)' <=> DepthsOK(nrq, ndps, strict)
  BY <1>1, <1>2, <1>3 DEF DepthsOK, Queued, Issued
<1>. QED BY <1>7, <1>8, <1>9, <1>10

\* A tracker that missed nothing still agrees with the block layer.
LEMMA EventSeen ==
    ASSUME TypeInv, SeenInv, HitFrame, NEW r \in Requests, NEW x, NEW b, NEW q, NEW i,
           NEW t, Event(r, x, b, q, i, t)
    PROVE  SeenInv'
<1>1. /\ blk'[r] = b /\ requests'[r] = x
      /\ \A u \in Requests : u # r => blk'[u] = blk[u] /\ requests'[u] = requests[u]
      /\ cfg' = cfg /\ clock' = clock
  BY EventTypes
<1>2. \A u \in Requests : blk'[u].st # "free" => blk'[u].len > 0
  BY <1>1 DEF SeenInv, Event
<1>3. ASSUME ~unseen', NEW u \in Requests PROVE RequestSeen(u)'
  <2>1. RequestSeen(u)
    BY <1>3 DEF SeenInv, Event
  <2>2. CASE u # r
    BY <1>1, <2>1, <2>2 DEF RequestSeen, Tracked, request_tracking, should_track, has_metric
  <2>3. CASE u = r
    <3>1. SeenEntry(requests[r], blk[r], Tracked(r, blk[r].op), clock.strict)
      BY <2>1, <2>3 DEF RequestSeen, SeenEntry
    <3>2. SeenEntry(x, b, Tracked(r, b.op), clock.strict)
      BY <1>3, <3>1 DEF Event
    <3>3. Tracked(r, blk[r].op)' <=> Tracked(r, b.op)
      BY <1>1 DEF Tracked, request_tracking, should_track, has_metric
    <3>. QED BY <1>1, <2>3, <3>2, <3>3 DEF RequestSeen, SeenEntry
  <2>. QED BY <2>2, <2>3
<1>. QED BY <1>2, <1>3 DEF SeenInv

\* The busy times stay within the time that passed.
LEMMA EventBusy ==
    ASSUME TypeInv, BusyInv, HitFrame, NEW r \in Requests, NEW x, NEW b, NEW q, NEW i,
           NEW t, Event(r, x, b, q, i, t)
    PROVE  BusyInv'
<1>1. /\ clock' = clock /\ last_sample_ns' = last_sample_ns /\ previous_depth' = previous_depth
      /\ reported' = reported
  BY DEF HitFrame, config, sampler
<1> SUFFICES ASSUME clock.skew = 0 PROVE BusyInv'
  BY <1>1 DEF BusyInv
<1>2. t \in Nat /\ now \in Nat /\ now <= t /\ now' = t /\ last_sample_ns \in Nat
  BY DEF Event, TypeInv, Larger
<1>3. last_sample_ns' <= now'
  BY <1>1, <1>2 DEF BusyInv
<1>4. DevOf[r] \in Devs
  BY BlockAssumption
<1>5. \A d \in Devs : device_depths'[d] = None <=> device_depths[d] = None
  BY <1>4 DEF Event, Adj
<1>6. ASSUME NEW d \in Devs, device_depths'[d] # None
      PROVE  /\ BusyDepth(device_depths'[d], t, reported[d].busy)
             /\ device_depths'[d].first_seen_ns = device_depths[d].first_seen_ns
  <2>1. device_depths[d] # None /\ BusyDepth(device_depths[d], now, reported[d].busy)
    BY <1>5, <1>6 DEF BusyInv
  <2>2. reported[d].busy \in Nat /\ device_depths[d] \in DeviceDepths
    BY <2>1 DEF TypeInv, Counters
  <2>3. CASE d = DevOf[r]
    BY <1>2, <2>1, <2>2, <2>3 DEF Event, Adj
  <2>4. CASE d # DevOf[r]
    <3>1. device_depths'[d] = device_depths[d]
      BY <2>4 DEF Event, Adj
    <3>2. BusyDepth(device_depths[d], t, reported[d].busy)
      BY <1>2, <2>1, <2>2, BusyLater
    <3>. QED BY <3>1, <3>2
  <2>. QED BY <2>3, <2>4
<1>. QED BY <1>1, <1>2, <1>3, <1>5, <1>6 DEF BusyInv, BusyDepth

-----------------------------------------------------------------------------
(* The statistics of one device grow.                                       *)

StatMaps == [Devs -> DeviceStats \cup {None}]

OpsOf(s, o) == IF s = None THEN 0 ELSE s.operations[o].operations

Full(sts, max) == Cardinality(Stats(sts)) >= max

\* At most the entry of device d changes: no counter falls, the operations op rise
\* by k, an entry is created only while there is room, and an operation goes
\* uncounted only when there is none.
Grow(max, sts, nsts, d, op, k) ==
    /\ nsts \in StatMaps
    /\ \A e \in Devs : e # d => nsts[e] = sts[e]
    /\ sts[d] # None => nsts[d] # None /\ AtLeast(nsts[d], sts[d])
    /\ sts[d] = None /\ nsts[d] # None => ~Full(sts, max)
    /\ sts[d] = None /\ nsts[d] = None /\ k # 0 => Full(sts, max)
    /\ nsts[d] # None => \A o \in Ops : nsts[d].operations[o].operations
                                          = OpsOf(sts[d], o) + (IF o = op THEN k ELSE 0)

\* The fields of a device's statistics.
LEMMA StatFields ==
    ASSUME NEW s \in DeviceStats
    PROVE  /\ s # None
           /\ s.operations \in [Ops -> OperationStats] /\ s.requeues \in Nat /\ s.lost_requests \in Nat
           /\ s.timeline_drops \in Nat /\ s.first_seen_ns \in Nat
           /\ \A o \in Ops : s.operations[o] \in OperationStats
           /\ \A o \in Ops : s.operations[o].bytes \in Nat /\ s.operations[o].operations \in Nat
                             /\ s.operations[o].errors \in Nat
<1>1. s # None
  BY NoneAssumption
<1>2. /\ s.operations \in [Ops -> OperationStats] /\ s.requeues \in Nat /\ s.lost_requests \in Nat
      /\ s.timeline_drops \in Nat /\ s.first_seen_ns \in Nat
  BY DEF DeviceStats
<1>3. \A o \in Ops : s.operations[o] \in OperationStats
  BY <1>2
<1>. QED BY <1>1, <1>2, <1>3 DEF OperationStats

LEMMA AtLeastItself ==
    ASSUME NEW s \in DeviceStats
    PROVE  AtLeast(s, s)
BY StatFields DEF AtLeast

\* Growing is transitive.
LEMMA AtLeastOrder ==
    ASSUME NEW s \in DeviceStats, NEW p \in DeviceStats, NEW u \in DeviceStats,
           AtLeast(s, p), AtLeast(p, u)
    PROVE  AtLeast(s, u)
<1>1. /\ s.requeues \in Nat /\ s.lost_requests \in Nat /\ s.timeline_drops \in Nat
      /\ p.requeues \in Nat /\ p.lost_requests \in Nat /\ p.timeline_drops \in Nat
      /\ u.requeues \in Nat /\ u.lost_requests \in Nat /\ u.timeline_drops \in Nat
  BY StatFields
<1>2. \A o \in Ops : /\ s.operations[o].bytes \in Nat /\ s.operations[o].operations \in Nat
                     /\ p.operations[o].bytes \in Nat /\ p.operations[o].operations \in Nat
                     /\ u.operations[o].bytes \in Nat /\ u.operations[o].operations \in Nat
  BY StatFields
<1>. QED BY <1>1, <1>2 DEF AtLeast

\* A new entry has counted nothing.
LEMMA ZeroStatsFacts ==
    ASSUME NEW t \in Nat
    PROVE  /\ ZeroStats(t) \in DeviceStats
           /\ \A o \in Ops : ZeroStats(t).operations[o].operations = 0
<1>1. [b \in Buckets |-> 0] \in [Buckets -> Nat]
  OBVIOUS
<1>2. ZeroOp \in OperationStats /\ ZeroOp.operations = 0
  BY <1>1 DEF ZeroOp, OperationStats
<1>. QED BY <1>2 DEF ZeroStats, DeviceStats

\* Statistics that are left alone grow by nothing.
LEMMA GrowNothing ==
    ASSUME NEW sts \in StatMaps, NEW d \in Devs, NEW op, NEW max
    PROVE  Grow(max, sts, sts, d, op, 0)
<1>1. ASSUME sts[d] # None
      PROVE  AtLeast(sts[d], sts[d]) /\ \A o \in Ops : sts[d].operations[o].operations \in Nat
  <2>1. sts[d] \in DeviceStats
    BY <1>1 DEF StatMaps
  <2>. QED BY <2>1, AtLeastItself, StatFields
<1>. QED BY <1>1 DEF Grow, OpsOf

\* Two updates of one device by the same handler are one.
LEMMA GrowTwice ==
    ASSUME NEW sts \in StatMaps, NEW mid, NEW nsts, NEW d \in Devs, NEW op, NEW max,
           NEW j \in Nat, NEW k \in Nat,
           Grow(max, sts, mid, d, op, j), Grow(max, mid, nsts, d, op, k)
    PROVE  Grow(max, sts, nsts, d, op, j + k)
<1>1. mid \in StatMaps /\ nsts \in StatMaps
  BY DEF Grow
<1>2. mid[d] = None => sts[d] = None /\ mid = sts
  <2> SUFFICES ASSUME mid[d] = None PROVE sts[d] = None /\ mid = sts
    OBVIOUS
  <2>1. sts[d] = None /\ \A e \in Devs : mid[e] = sts[e]
    BY DEF Grow
  <2>. QED BY <1>1, <2>1 DEF StatMaps
<1>3. \A e \in Devs : e # d => nsts[e] = sts[e]
  BY DEF Grow
<1>4. sts[d] # None => nsts[d] # None /\ AtLeast(nsts[d], sts[d])
  <2> SUFFICES ASSUME sts[d] # None PROVE nsts[d] # None /\ AtLeast(nsts[d], sts[d])
    OBVIOUS
  <2>1. /\ mid[d] # None /\ AtLeast(mid[d], sts[d])
        /\ nsts[d] # None /\ AtLeast(nsts[d], mid[d])
    BY DEF Grow
  <2>2. sts[d] \in DeviceStats /\ mid[d] \in DeviceStats /\ nsts[d] \in DeviceStats
    BY <1>1, <2>1 DEF StatMaps
  <2>. QED BY <2>1, <2>2, AtLeastOrder
<1>5. sts[d] = None /\ nsts[d] # None => ~Full(sts, max)
  BY <1>2 DEF Grow
<1>6. sts[d] = None /\ nsts[d] = None /\ j + k # 0 => Full(sts, max)
  <2>1. nsts[d] = None => mid[d] = None
    BY DEF Grow
  <2>. QED BY <1>2, <2>1 DEF Grow
<1>7. ASSUME nsts[d] # None, NEW o \in Ops
      PROVE  nsts[d].operations[o].operations = OpsOf(sts[d], o) + (IF o = op THEN j + k ELSE 0)
  <2>1. OpsOf(sts[d], o) \in Nat
    BY StatFields DEF OpsOf, StatMaps
  <2>2. nsts[d].operations[o].operations = OpsOf(mid[d], o) + (IF o = op THEN k ELSE 0)
    BY <1>7 DEF Grow
  <2>3. CASE mid[d] # None
    <3>1. OpsOf(mid[d], o) = OpsOf(sts[d], o) + (IF o = op THEN j ELSE 0)
      BY <2>3 DEF Grow, OpsOf
    <3>. QED BY <2>1, <2>2, <3>1
  <2>4. CASE mid[d] = None /\ j = 0
    BY <1>2, <2>1, <2>2, <2>4
  <2>5. CASE mid[d] = None /\ j # 0
    BY <1>2, <1>7, <2>5 DEF Grow
  <2>. QED BY <2>3, <2>4, <2>5
<1>. QED BY <1>1, <1>3, <1>4, <1>5, <1>6, <1>7 DEF Grow

\* What Bump() is given to put in place of an entry.
Raised(s, y, op, k) ==
    /\ y \in DeviceStats /\ AtLeast(y, s)
    /\ \A o \in Ops : y.operations[o].operations = s.operations[o].operations + (IF o = op THEN k ELSE 0)

\* get_device_stats() creates an entry while there is room.
LEMMA GetStats ==
    ASSUME NEW sts \in StatMaps, NEW d \in Devs, NEW t \in Nat, NEW op
    PROVE  /\ Grow(cfg.max_devices, sts, get_device_stats(sts, d, t), d, op, 0)
           /\ get_device_stats(sts, d, t)[d] = None
                => sts[d] = None /\ Full(sts, cfg.max_devices)
<1>1. PICK got : got = get_device_stats(sts, d, t)
  OBVIOUS
<1>2. CASE sts[d] # None
  <2>1. got = sts
    BY <1>1, <1>2 DEF get_device_stats
  <2>. QED BY <1>1, <1>2, <2>1, GrowNothing
<1>3. CASE sts[d] = None /\ Full(sts, cfg.max_devices)
  <2>1. got = sts
    BY <1>1, <1>3 DEF get_device_stats, Full, Stats
  <2>. QED BY <1>1, <1>3, <2>1, GrowNothing
<1>4. CASE sts[d] = None /\ ~Full(sts, cfg.max_devices)
  <2>1. PICK z : z = ZeroStats(t)
    OBVIOUS
  <2>2. z \in DeviceStats /\ \A o \in Ops : z.operations[o].operations = 0
    BY <2>1, ZeroStatsFacts
  <2>3. got = [sts EXCEPT ![d] = z]
    BY <1>1, <1>4, <2>1 DEF get_device_stats, Full, Stats
  <2>4. got \in StatMaps /\ got[d] = z /\ \A e \in Devs : e # d => got[e] = sts[e]
    BY <2>2, <2>3 DEF StatMaps
  <2>5. z # None
    BY <2>2, StatFields
  <2>. QED BY <1>1, <1>4, <2>2, <2>4, <2>5 DEF Grow, OpsOf
<1>. QED BY <1>2, <1>3, <1>4

IsGot(got, sts, d, t) == got = get_device_stats(sts, d, t)
Puts(nsts, got, d, y) == nsts = IF got[d] = None THEN got ELSE [got EXCEPT ![d] = y]

\* Bump() raises the entry it gets, if it gets one.
LEMMA BumpFacts ==
    ASSUME NEW sts \in StatMaps, NEW d \in Devs, NEW t \in Nat, NEW op, NEW k \in Nat, NEW got, NEW nsts,
           NEW y, IsGot(got, sts, d, t), Puts(nsts, got, d, y),
           got[d] \in DeviceStats => Raised(got[d], y, op, k)
    PROVE  Grow(cfg.max_devices, sts, nsts, d, op, k)
<1>1. /\ Grow(cfg.max_devices, sts, got, d, op, 0)
      /\ got[d] = None => sts[d] = None /\ Full(sts, cfg.max_devices)
  BY GetStats DEF IsGot
<1>2. got \in StatMaps
  BY <1>1 DEF Grow
<1>3. CASE got[d] = None
  BY <1>1, <1>3 DEF Grow, Puts
<1>4. CASE got[d] # None
  <2>2. Raised(got[d], y, op, k) /\ y \in DeviceStats /\ y # None
    BY <1>2, <1>4, StatFields DEF Raised, StatMaps
  <2>3. nsts \in StatMaps /\ nsts[d] = y /\ \A e \in Devs : e # d => nsts[e] = got[e]
    BY <1>2, <1>4, <2>2 DEF StatMaps, Puts
  <2>4. Grow(cfg.max_devices, got, nsts, d, op, k)
    BY <1>4, <2>2, <2>3 DEF Grow, OpsOf, Raised
  <2>5. PICK z \in Nat : z = 0
    OBVIOUS
  <2>6. Grow(cfg.max_devices, sts, nsts, d, op, z + k)
    BY <1>1, <2>4, <2>5, GrowTwice
  <2>. QED BY <2>5, <2>6
<1>. QED BY <1>3, <1>4

\* A counter of the device itself.
LEMMA RaiseField ==
    ASSUME NEW s \in DeviceStats, NEW op
    PROVE  /\ Raised(s, [s EXCEPT !.requeues = s.requeues + 1], op, 0)
           /\ Raised(s, [s EXCEPT !.lost_requests = s.lost_requests + 1], op, 0)
           /\ Raised(s, [s EXCEPT !.timeline_drops = s.timeline_drops + 1], op, 0)
<1>1. /\ s.requeues \in Nat /\ s.lost_requests \in Nat
      /\ s.timeline_drops \in Nat /\ s.first_seen_ns \in Nat
      /\ \A o \in Ops : s.operations[o].bytes \in Nat /\ s.operations[o].operations \in Nat
  BY StatFields
<1>2. Raised(s, [s EXCEPT !.requeues = s.requeues + 1], op, 0)
  <2>1. PICK n \in Nat : n = s.requeues + 1 /\ s.requeues <= n
    BY <1>1
  <2>2. PICK y : y = [s EXCEPT !.requeues = n]
    OBVIOUS
  <2>3. /\ y \in DeviceStats /\ y.requeues = n /\ y.operations = s.operations
        /\ y.lost_requests = s.lost_requests /\ y.timeline_drops = s.timeline_drops
        /\ y.first_seen_ns = s.first_seen_ns
    BY <2>2 DEF DeviceStats
  <2>4. Raised(s, y, op, 0)
    BY <1>1, <2>1, <2>3 DEF Raised, AtLeast
  <2>. QED BY <2>1, <2>2, <2>4
<1>3. Raised(s, [s EXCEPT !.lost_requests = s.lost_requests + 1], op, 0)
  <2>1. PICK n \in Nat : n = s.lost_requests + 1 /\ s.lost_requests <= n
    BY <1>1
  <2>2. PICK y : y = [s EXCEPT !.lost_requests = n]
    OBVIOUS
  <2>3. /\ y \in DeviceStats /\ y.lost_requests = n /\ y.operations = s.operations
        /\ y.requeues = s.requeues /\ y.timeline_drops = s.timeline_drops
        /\ y.first_seen_ns = s.first_seen_ns
    BY <2>2 DEF DeviceStats
  <2>4. Raised(s, y, op, 0)
    BY <1>1, <2>1, <2>3 DEF Raised, AtLeast
  <2>. QED BY <2>1, <2>2, <2>4
<1>4. Raised(s, [s EXCEPT !.timeline_drops = s.timeline_drops + 1], op, 0)
  <2>1. PICK n \in Nat : n = s.timeline_drops + 1 /\ s.timeline_drops <= n
    BY <1>1
  <2>2. PICK y : y = [s EXCEPT !.timeline_drops = n]
    OBVIOUS
  <2>3. /\ y \in DeviceStats /\ y.timeline_drops = n /\ y.operations = s.operations
        /\ y.requeues = s.requeues /\ y.lost_requests = s.lost_requests
        /\ y.first_seen_ns = s.first_seen_ns
    BY <2>2 DEF DeviceStats
  <2>4. Raised(s, y, op, 0)
    BY <1>1, <2>1, <2>3 DEF Raised, AtLeast
  <2>. QED BY <2>1, <2>2, <2>4
<1>. QED BY <1>2, <1>3, <1>4

\* The counters of one operation are replaced.
LEMMA RaiseOperation ==
    ASSUME NEW s \in DeviceStats, NEW op \in Ops, NEW w \in OperationStats, NEW k \in Nat,
           w.bytes >= s.operations[op].bytes, w.operations = s.operations[op].operations + k
    PROVE  Raised(s, [s EXCEPT !.operations = [s.operations EXCEPT ![op] = w]], op, k)
<1>1. /\ s.operations \in [Ops -> OperationStats] /\ s.requeues \in Nat /\ s.lost_requests \in Nat
      /\ s.timeline_drops \in Nat /\ s.first_seen_ns \in Nat
      /\ \A o \in Ops : s.operations[o].bytes \in Nat /\ s.operations[o].operations \in Nat
  BY StatFields
<1>2. PICK f : f = [s.operations EXCEPT ![op] = w]
  OBVIOUS
<1>3. f \in [Ops -> OperationStats] /\ f[op] = w /\ \A o \in Ops : o # op => f[o] = s.operations[o]
  BY <1>1, <1>2
<1>4. PICK y : y = [s EXCEPT !.operations = f]
  OBVIOUS
<1>5. /\ y \in DeviceStats /\ y.operations = f /\ y.requeues = s.requeues
      /\ y.lost_requests = s.lost_requests /\ y.timeline_drops = s.timeline_drops
      /\ y.first_seen_ns = s.first_seen_ns
  BY <1>3, <1>4 DEF DeviceStats
<1>6. w.bytes \in Nat
  BY DEF OperationStats
<1>7. \A o \in Ops : f[o].bytes >= s.operations[o].bytes
  BY <1>1, <1>3, <1>6
<1>8. \A o \in Ops : f[o].operations = s.operations[o].operations + (IF o = op THEN k ELSE 0)
  BY <1>1, <1>3
<1>9. \A o \in Ops : s.operations[o].operations <= f[o].operations
  BY <1>1, <1>8
<1>10. AtLeast(y, s)
  BY <1>1, <1>3, <1>5, <1>6, <1>7, <1>9 DEF AtLeast
<1>11. Raised(s, y, op, k)
  BY <1>5, <1>8, <1>10 DEF Raised
<1>. QED BY <1>2, <1>4, <1>11

\* record_lost_request() counts no operation.
LEMMA LostRequest ==
    ASSUME NEW sts \in StatMaps, NEW d \in Devs, NEW t \in Nat, NEW op
    PROVE  Grow(cfg.max_devices, sts, record_lost_request(sts, d, t), d, op, 0)
<1>1. PICK got, nsts : got = get_device_stats(sts, d, t) /\ nsts = record_lost_request(sts, d, t)
  OBVIOUS
<1>2. CASE ~has_metric(cfg, "errors")
  <2>1. nsts = sts
    BY <1>1, <1>2 DEF record_lost_request
  <2>. QED BY <1>1, <2>1, GrowNothing
<1>3. CASE has_metric(cfg, "errors")
  <2>1. PICK y : y = [got[d] EXCEPT !.lost_requests = got[d].lost_requests + 1]
    OBVIOUS
  <2>2. nsts = IF got[d] = None THEN got ELSE [got EXCEPT ![d] = y]
    BY <1>1, <1>3, <2>1 DEF record_lost_request, Bump
  <2>3. IsGot(got, sts, d, t) /\ Puts(nsts, got, d, y)
    BY <1>1, <2>2 DEF IsGot, Puts
  <2>4. PICK z \in Nat : z = 0
    OBVIOUS
  <2>5. got[d] \in DeviceStats => Raised(got[d], y, op, z)
    BY <2>1, <2>4, RaiseField
  <2>6. Grow(cfg.max_devices, sts, nsts, d, op, z)
    BY <2>3, <2>5, BumpFacts
  <2>. QED BY <1>1, <2>4, <2>6
<1>. QED BY <1>2, <1>3

\* The counter of requeues, when errors are followed.
LEMMA RequeueCount ==
    ASSUME NEW sts \in StatMaps, NEW d \in Devs, NEW t \in Nat, NEW op, NEW nsts,
           nsts = LET Add(s) == [s EXCEPT !.requeues = @ + 1]
                  IN  IF has_metric(cfg, "errors") THEN Bump(sts, d, t, Add) ELSE sts
    PROVE  Grow(cfg.max_devices, sts, nsts, d, op, 0)
<1>1. PICK got : got = get_device_stats(sts, d, t)
  OBVIOUS
<1>2. CASE ~has_metric(cfg, "errors")
  <2>1. nsts = sts
    BY <1>2
  <2>. QED BY <2>1, GrowNothing
<1>3. CASE has_metric(cfg, "errors")
  <2>1. PICK y : y = [got[d] EXCEPT !.requeues = got[d].requeues + 1]
    OBVIOUS
  <2>2. nsts = IF got[d] = None THEN got ELSE [got EXCEPT ![d] = y]
    BY <1>1, <1>3, <2>1 DEF Bump
  <2>3. IsGot(got, sts, d, t) /\ Puts(nsts, got, d, y)
    BY <1>1, <2>2 DEF IsGot, Puts
  <2>4. PICK z \in Nat : z = 0
    OBVIOUS
  <2>5. got[d] \in DeviceStats => Raised(got[d], y, op, z)
    BY <2>1, <2>4, RaiseField
  <2>6. Grow(cfg.max_devices, sts, nsts, d, op, z)
    BY <2>3, <2>5, BumpFacts
  <2>. QED BY <2>4, <2>6
<1>. QED BY <1>2, <1>3

\* record_bytes() counts no operation.
LEMMA RecordBytes ==
    ASSUME NEW sts \in StatMaps, NEW d \in Devs, NEW op \in Ops, NEW bytes \in Nat,
           NEW error \in BOOLEAN, NEW t \in Nat
    PROVE  Grow(cfg.max_devices, sts, record_bytes(sts, d, op, bytes, error, t), d, op, 0)
<1>1. PICK got, nsts : /\ got = get_device_stats(sts, d, t)
                       /\ nsts = record_bytes(sts, d, op, bytes, error, t)
  OBVIOUS
<1>2. CASE ~(has_metric(cfg, "throughput") \/ (error /\ has_metric(cfg, "errors")))
  <2>1. nsts = sts
    BY <1>1, <1>2 DEF record_bytes
  <2>. QED BY <1>1, <2>1, GrowNothing
<1>3. CASE has_metric(cfg, "throughput") \/ (error /\ has_metric(cfg, "errors"))
  <2>1. PICK s : s = got[d]
    OBVIOUS
  <2>2. PICK v, w : /\ v = [s.operations[op] EXCEPT !.bytes =
                              IF has_metric(cfg, "throughput") THEN s.operations[op].bytes + bytes
                              ELSE s.operations[op].bytes]
                    /\ w = [v EXCEPT !.errors = IF error /\ has_metric(cfg, "errors")
                                                THEN v.errors + 1 ELSE v.errors]
    OBVIOUS
  <2>3. PICK y : y = [s EXCEPT !.operations[op].bytes =
                               IF has_metric(cfg, "throughput") THEN @ + bytes ELSE @,
                            !.operations[op].errors =
                               IF error /\ has_metric(cfg, "errors") THEN @ + 1 ELSE @]
    OBVIOUS
  <2>4. nsts = IF got[d] = None THEN got ELSE [got EXCEPT ![d] = y]
    BY <1>1, <1>3, <2>1, <2>3 DEF record_bytes, Bump
  <2>5. IsGot(got, sts, d, t) /\ Puts(nsts, got, d, y)
    BY <1>1, <2>4 DEF IsGot, Puts
  <2>6. PICK z \in Nat : z = 0
    OBVIOUS
  <2>7. ASSUME s \in DeviceStats PROVE Raised(s, y, op, z)
    <3>1. /\ s.operations \in [Ops -> OperationStats] /\ s.operations[op] \in OperationStats
      BY <2>7, StatFields
    <3>2. PICK u : u = s.operations[op]
      OBVIOUS
    <3>3. u \in OperationStats /\ u.bytes \in Nat /\ u.errors \in Nat /\ u.operations \in Nat
      BY <3>1, <3>2 DEF OperationStats
    <3>4. PICK nb \in Nat, ne \in Nat :
              /\ nb = (IF has_metric(cfg, "throughput") THEN u.bytes + bytes ELSE u.bytes)
              /\ ne = (IF error /\ has_metric(cfg, "errors") THEN u.errors + 1 ELSE u.errors)
              /\ nb >= u.bytes
      BY <3>3
    <3>5. w = [u EXCEPT !.bytes = nb, !.errors = ne]
      BY <2>2, <3>2, <3>3, <3>4 DEF OperationStats
    <3>6. w \in OperationStats /\ w.bytes = nb /\ w.operations = u.operations
      BY <3>3, <3>5 DEF OperationStats
    <3>7. Raised(s, [s EXCEPT !.operations = [s.operations EXCEPT ![op] = w]], op, z)
      BY <2>6, <2>7, <3>2, <3>3, <3>4, <3>6, RaiseOperation
    <3>8. y = [s EXCEPT !.operations = [s.operations EXCEPT ![op] = w]]
      BY <2>2, <2>3, <2>7, <3>1, ZenonT(60) DEF DeviceStats, OperationStats
    <3>. QED BY <3>7, <3>8
  <2>8. Grow(cfg.max_devices, sts, nsts, d, op, z)
    BY <2>1, <2>5, <2>7, BumpFacts
  <2>. QED BY <1>1, <2>6, <2>8
<1>. QED BY <1>2, <1>3

\* record_completion() counts one operation, when operations are followed.
LEMMA RecordCompletion ==
    ASSUME NEW sts \in StatMaps, NEW d \in Devs, NEW op \in Ops, NEW queue \in Nat, NEW service \in Nat,
           NEW total \in Nat, NEW t \in Nat, NEW k \in Nat,
           k = IF operations_enabled(cfg) THEN 1 ELSE 0
    PROVE  Grow(cfg.max_devices, sts, record_completion(sts, d, op, queue, service, total, t), d, op, k)
<1>1. PICK got, nsts : /\ got = get_device_stats(sts, d, t)
                       /\ nsts = record_completion(sts, d, op, queue, service, total, t)
  OBVIOUS
<1>2. CASE ~operations_enabled(cfg)
  <2>1. nsts = sts /\ k = 0
    BY <1>1, <1>2 DEF record_completion
  <2>. QED BY <1>1, <2>1, GrowNothing
<1>3. CASE operations_enabled(cfg)
  <2>1. PICK s : s = got[d]
    OBVIOUS
  <2>2. PICK c : c = latency_bucket(total)
    OBVIOUS
  <2>3. PICK u, v : u = s.operations[op] /\ v = [u EXCEPT !.operations = u.operations + 1]
    OBVIOUS
  <2>4. PICK w : w = IF ~has_metric(cfg, "latency") THEN v
                     ELSE [v EXCEPT !.queue = v.queue + queue, !.service = v.service + service,
                                    !.total = v.total + total,
                                    !.total_histogram = [v.total_histogram EXCEPT
                                                           ![c] = v.total_histogram[c] + 1]]
    OBVIOUS
  <2>5. PICK y : y = [s EXCEPT !.operations = [s.operations EXCEPT ![op] = w]]
    OBVIOUS
  <2>10. nsts = IF got[d] = None THEN got ELSE [got EXCEPT ![d] = y]
    BY <1>1, <1>3, <2>1, <2>2, <2>3, <2>4, <2>5 DEF record_completion, Bump
  <2>6. IsGot(got, sts, d, t) /\ Puts(nsts, got, d, y)
    BY <1>1, <2>10 DEF IsGot, Puts
  <2>7. ASSUME s \in DeviceStats PROVE Raised(s, y, op, k)
    <3>1. s.operations \in [Ops -> OperationStats]
      BY <2>7, StatFields
    <3>2. k = 1
      BY <1>3
    <3>3. /\ u \in OperationStats /\ u.bytes \in Nat /\ u.operations \in Nat /\ u.queue \in Nat
          /\ u.service \in Nat /\ u.total \in Nat /\ u.total_histogram \in [Buckets -> Nat]
      BY <2>3, <3>1 DEF OperationStats
    <3>4. /\ v \in OperationStats /\ v.bytes = u.bytes /\ v.operations = u.operations + 1
          /\ v.queue = u.queue /\ v.service = u.service /\ v.total = u.total
          /\ v.total_histogram = u.total_histogram
      BY <2>3, <3>3 DEF OperationStats
    <3>5. PICK h : h = [v.total_histogram EXCEPT ![c] = v.total_histogram[c] + 1]
      OBVIOUS
    <3>6. h \in [Buckets -> Nat]
      <4>1. CASE c \in Buckets
        BY <3>3, <3>4, <3>5, <4>1
      <4>2. CASE c \notin Buckets
        <5>1. h = v.total_histogram
          BY <3>3, <3>4, <3>5, <4>2
        <5>. QED BY <3>3, <3>4, <5>1
      <4>. QED BY <4>1, <4>2
    <3>7. PICK nq \in Nat, ns \in Nat, nt \in Nat :
              nq = v.queue + queue /\ ns = v.service + service /\ nt = v.total + total
      BY <3>3, <3>4
    <3>8. w \in OperationStats /\ w.bytes = u.bytes /\ w.operations = u.operations + 1
      <4>1. CASE ~has_metric(cfg, "latency")
        BY <2>4, <3>4, <4>1
      <4>2. CASE has_metric(cfg, "latency")
        <5>1. w = [v EXCEPT !.queue = nq, !.service = ns, !.total = nt, !.total_histogram = h]
          BY <2>4, <3>5, <3>7, <4>2
        <5>. QED BY <3>4, <3>6, <5>1 DEF OperationStats
      <4>. QED BY <4>1, <4>2
    <3>9. Raised(s, [s EXCEPT !.operations = [s.operations EXCEPT ![op] = w]], op, k)
      BY <2>3, <2>7, <3>2, <3>3, <3>8, RaiseOperation
    <3>. QED BY <2>5, <3>9
  <2>8. Grow(cfg.max_devices, sts, nsts, d, op, k)
    BY <2>1, <2>6, <2>7, BumpFacts
  <2>. QED BY <1>1, <2>8
<1>. QED BY <1>2, <1>3

\* The span of a request: dropped, or of no effect on the statistics.
LEMMA EmitStats ==
    ASSUME NEW sts \in StatMaps, NEW r, NEW s, s.dev \in Devs, NEW a, NEW t \in Nat, NEW sv, NEW tot,
           NEW done, emit_request_span(sts, r, s, a, t, sv, tot, done), NEW op
    PROVE  Grow(cfg.max_devices, sts, device_stats', s.dev, op, 0)
<1>2. CASE device_stats' = sts
  BY <1>2, GrowNothing
<1>3. PICK got, y, d : /\ d = s.dev /\ got = get_device_stats(sts, d, t)
                       /\ y = [got[d] EXCEPT !.timeline_drops = got[d].timeline_drops + 1]
  OBVIOUS
<1>4. CASE device_stats' = IF got[d] = None THEN got ELSE [got EXCEPT ![d] = y]
  <2>1. PICK nsts : nsts = device_stats'
    OBVIOUS
  <2>2. d \in Devs /\ IsGot(got, sts, d, t) /\ Puts(nsts, got, d, y)
    BY <1>3, <1>4, <2>1 DEF IsGot, Puts
  <2>3. PICK z \in Nat : z = 0
    OBVIOUS
  <2>4. got[d] \in DeviceStats => Raised(got[d], y, op, z)
    BY <1>3, <2>3, RaiseField
  <2>5. Grow(cfg.max_devices, sts, nsts, d, op, z)
    BY <2>2, <2>4, BumpFacts
  <2>. QED BY <1>3, <2>1, <2>3, <2>5
<1>. QED BY <1>2, <1>3, <1>4 DEF emit_request_span, Bump

LEMMA GrowZero ==
    ASSUME NEW max, NEW sts, NEW nsts, NEW d, NEW op, Grow(max, sts, nsts, d, op, 0), NEW o2
    PROVE  Grow(max, sts, nsts, d, o2, 0)
BY DEF Grow

\* An update that counts nothing before or after one that does.
LEMMA GrowAround ==
    ASSUME NEW sts \in StatMaps, NEW mid, NEW nsts, NEW d \in Devs, NEW op, NEW max, NEW k \in Nat,
           \/ Grow(max, sts, mid, d, op, 0) /\ Grow(max, mid, nsts, d, op, k)
           \/ Grow(max, sts, mid, d, op, k) /\ Grow(max, mid, nsts, d, op, 0)
    PROVE  Grow(max, sts, nsts, d, op, k)
<1>1. PICK z \in Nat : z = 0
  OBVIOUS
<1>2. CASE Grow(max, sts, mid, d, op, 0) /\ Grow(max, mid, nsts, d, op, k)
  <2>1. Grow(max, sts, nsts, d, op, z + k)
    BY <1>1, <1>2, GrowTwice
  <2>. QED BY <1>1, <2>1
<1>3. CASE Grow(max, sts, mid, d, op, k) /\ Grow(max, mid, nsts, d, op, 0)
  <2>1. Grow(max, sts, nsts, d, op, k + z)
    BY <1>1, <1>3, GrowTwice
  <2>. QED BY <1>1, <2>1
<1>. QED BY <1>2, <1>3

\* What a tracepoint does to the statistics and to the count of finished requests.
StatsEvent(r, op, k) ==
    /\ Grow(cfg.max_devices, device_stats, device_stats', DevOf[r], op, k)
    /\ device_stats' # device_stats => (cfg.devices # {} => DevOf[r] \in cfg.devices)
    /\ finished' \in [Devs -> [Ops -> Nat]]
    /\ \A e \in Devs, o \in Ops : e # DevOf[r] => finished'[e][o] = finished[e][o]
    /\ ~unseen' /\ Counting(cfg) => \A o \in Ops : should_track(DevOf[r], o) =>
          finished'[DevOf[r]][o] = finished[DevOf[r]][o] + (IF o = op THEN k ELSE 0)

\* A handler that finishes no request and counts no operation.
LEMMA NotFinished ==
    ASSUME TypeInv, NEW r \in Requests, NEW op, finished' = finished,
           \/ device_stats' = device_stats
           \/ /\ should_track(DevOf[r], op)
              /\ Grow(cfg.max_devices, device_stats, device_stats', DevOf[r], op, 0)
    PROVE  StatsEvent(r, op, 0)
<1>1. DevOf[r] \in Devs /\ device_stats \in StatMaps /\ finished \in [Devs -> [Ops -> Nat]]
  BY BlockAssumption DEF TypeInv, StatMaps
<1>2. Grow(cfg.max_devices, device_stats, device_stats', DevOf[r], op, 0)
  BY <1>1, GrowNothing
<1>3. device_stats' # device_stats => (cfg.devices # {} => DevOf[r] \in cfg.devices)
  BY DEF should_track
<1>4. \A o \in Ops : finished[DevOf[r]][o] \in Nat
  BY <1>1
<1>. QED BY <1>1, <1>2, <1>3, <1>4 DEF StatsEvent

\* The five handlers, each as one change of the statistics.
LEMMA InsertStats ==
    ASSUME TypeInv, NEW r \in Requests, RqInsert(r) \/ RqIssue(r)
    PROVE  \E op, k : k \in Nat /\ StatsEvent(r, op, k)
<1>1. PICK op \in Ops, len \in Lens, t \in Stamp(r) :
          trace_block_rq_insert(r, op, len, t) \/ trace_block_rq_issue(r, op, len, t)
  BY DEF RqInsert, RqIssue
<1>2. t \in Nat
  BY StampFacts
<1>3. DevOf[r] \in Devs /\ device_stats \in StatMaps /\ finished' = finished
  BY BlockAssumption DEF TypeInv, StatMaps, RqInsert, RqIssue
<1>4. \/ device_stats' = device_stats
      \/ should_track(DevOf[r], op) /\ device_stats' = record_lost_request(device_stats, DevOf[r], t)
  BY <1>1 DEF trace_block_rq_insert, trace_block_rq_issue, create_inserted, Tracked, kernel
<1>5. StatsEvent(r, op, 0)
  BY <1>2, <1>3, <1>4, LostRequest, NotFinished
<1>. QED BY <1>5

LEMMA MergeStats ==
    ASSUME TypeInv, NEW r \in Requests, RqMerge(r)
    PROVE  \E op, k : k \in Nat /\ StatsEvent(r, op, k)
<1>1. finished' = finished /\ device_stats' = device_stats
  BY DEF RqMerge, trace_block_rq_merge
<1>2. StatsEvent(r, 0, 0)
  BY <1>1, NotFinished
<1>. QED BY <1>2

LEMMA RequeueStats ==
    ASSUME TypeInv, OwnDevice, NEW r \in Requests, RqRequeue(r)
    PROVE  \E op, k : k \in Nat /\ StatsEvent(r, op, k)
<1>1. PICK t \in Stamp(r) : trace_block_rq_requeue(r, blk[r].op, t)
  BY DEF RqRequeue
<1>2. t \in Nat
  BY StampFacts
<1>3. DevOf[r] \in Devs /\ device_stats \in StatMaps /\ finished' = finished
  BY BlockAssumption DEF TypeInv, StatMaps, RqRequeue, history
<1>4. PICK op, counted : /\ op = blk[r].op
                         /\ counted = LET Add(s) == [s EXCEPT !.requeues = @ + 1]
                                      IN  IF has_metric(cfg, "errors")
                                          THEN Bump(device_stats, DevOf[r], t, Add) ELSE device_stats
  OBVIOUS
<1>5. Grow(cfg.max_devices, device_stats, counted, DevOf[r], op, 0)
  BY <1>2, <1>3, <1>4, RequeueCount
<1>6. PICK s, attempt, ended : /\ s = requests[r] /\ attempt = Attempt(s, t)
                               /\ ended = [s EXCEPT !.service_ns = @ + attempt,
                                                    !.issued = @ /\ attempt = 0,
                                                    !.requeues = @ + 1]
  OBVIOUS
<1>7. \/ ~should_track(DevOf[r], op) /\ device_stats' = device_stats
      \/ should_track(DevOf[r], op) /\ device_stats' = counted
      \/ /\ should_track(DevOf[r], op) /\ s # None
         /\ emit_request_span(counted, r, ended, s.issue_ns, t, attempt, t - s.first_seen_ns, FALSE)
  BY <1>1, <1>4, <1>6 DEF trace_block_rq_requeue, Tracked, kernel
<1>8. CASE /\ should_track(DevOf[r], op) /\ s # None
           /\ emit_request_span(counted, r, ended, s.issue_ns, t, attempt, t - s.first_seen_ns, FALSE)
  <2>1. s \in RequestStates /\ s.dev = DevOf[r]
    BY <1>6, <1>8 DEF TypeInv, OwnDevice
  <2>2. ended.dev = DevOf[r]
    BY <1>6, <2>1 DEF RequestStates
  <2>3. counted \in StatMaps
    BY <1>5 DEF Grow
  <2>4. Grow(cfg.max_devices, counted, device_stats', DevOf[r], op, 0)
    BY <1>2, <1>3, <1>8, <2>2, <2>3, EmitStats
  <2>5. PICK z \in Nat : z = 0
    OBVIOUS
  <2>6. Grow(cfg.max_devices, device_stats, device_stats', DevOf[r], op, z)
    BY <1>3, <1>5, <2>4, <2>5, GrowAround
  <2>7. StatsEvent(r, op, 0)
    BY <1>3, <1>8, <2>5, <2>6, NotFinished
  <2>. QED BY <2>7
<1>9. CASE ~should_track(DevOf[r], op) /\ device_stats' = device_stats
  <2>1. StatsEvent(r, op, 0)
    BY <1>3, <1>9, NotFinished
  <2>. QED BY <2>1
<1>10. CASE should_track(DevOf[r], op) /\ device_stats' = counted
  <2>1. StatsEvent(r, op, 0)
    BY <1>3, <1>5, <1>10, NotFinished
  <2>. QED BY <2>1
<1>. QED BY <1>7, <1>8, <1>9, <1>10

\* A completion that finishes the request, and only one, counts an operation.
LEMMA CompleteStats ==
    ASSUME TypeInv, OwnDevice, SeenInv, NEW r \in Requests, RqComplete(r)
    PROVE  \E op, k : k \in Nat /\ StatsEvent(r, op, k)
<1>1. PICK n \in {1, blk[r].len}, error \in BOOLEAN, t \in Stamp(r) :
          /\ error => n = blk[r].len
          /\ trace_block_rq_complete(r, blk[r].op, error, n, t)
          /\ finished' = IF n = blk[r].len THEN [finished EXCEPT ![DevOf[r]][blk[r].op] = @ + 1]
                         ELSE finished
  BY DEF RqComplete
<1>2. t \in Nat
  BY StampFacts
<1>3. /\ blk[r] \in BlkRecords /\ blk[r].st = "driver"
  BY SMTT(60) DEF TypeInv, RqComplete
<1>4. /\ blk[r].op \in Ops /\ blk[r].len \in Nat /\ blk[r].len > 0 /\ n \in Nat /\ n <= blk[r].len
      /\ unseen' = unseen
  BY <1>1, <1>3 DEF BlkRecords, SeenInv, RqComplete
<1>5. DevOf[r] \in Devs /\ device_stats \in StatMaps /\ finished \in [Devs -> [Ops -> Nat]]
  BY BlockAssumption DEF TypeInv, StatMaps
<1>6. PICK op, d : op = blk[r].op /\ d = DevOf[r]
  OBVIOUS
<1>7. /\ finished' \in [Devs -> [Ops -> Nat]]
      /\ \A e \in Devs, o \in Ops : e # d => finished'[e][o] = finished[e][o]
      /\ \A o \in Ops : finished'[d][o] = finished[d][o] + (IF o = op /\ n = blk[r].len THEN 1 ELSE 0)
      /\ \A o \in Ops : finished[d][o] \in Nat
  <2>1. CASE n # blk[r].len
    BY <1>1, <1>5, <1>6, <2>1
  <2>2. CASE n = blk[r].len
    <3>1. PICK f : f = [finished[d] EXCEPT ![op] = finished[d][op] + 1]
      OBVIOUS
    <3>2. /\ f \in [Ops -> Nat] /\ f[op] = finished[d][op] + 1
          /\ \A o \in Ops : o # op => f[o] = finished[d][o]
          /\ \A o \in Ops : finished[d][o] \in Nat
      BY <1>4, <1>5, <1>6, <3>1
    <3>3. finished' = [finished EXCEPT ![d] = f]
      BY <1>1, <1>6, <2>2, <3>1
    <3>. QED BY <1>4, <1>5, <1>6, <2>2, <3>2, <3>3
  <2>. QED BY <2>1, <2>2
<1>8. ~unseen' => RequestSeen(r)
  BY <1>4 DEF SeenInv
<1>9. PICK bytes : bytes = record_bytes(device_stats, d, op, n, error, t)
  OBVIOUS
<1>10. /\ \A o : Grow(cfg.max_devices, device_stats, bytes, d, o, 0)
       /\ bytes \in StatMaps
  <2>1. Grow(cfg.max_devices, device_stats, bytes, d, op, 0)
    BY <1>2, <1>4, <1>5, <1>6, <1>9, RecordBytes
  <2>. QED BY <2>1, GrowZero DEF Grow
<1>11. PICK one \in Nat : one = IF operations_enabled(cfg) THEN 1 ELSE 0
  OBVIOUS
<1>12. CASE ~should_track(d, op) /\ device_stats' = device_stats
  <2>1. Grow(cfg.max_devices, device_stats, device_stats', d, op, 0)
    BY <1>5, <1>6, <1>12, GrowNothing
  <2>2. \A o \in Ops : should_track(d, o) => finished'[d][o] = finished[d][o] + (IF o = op THEN 0 ELSE 0)
    BY <1>7, <1>12
  <2>3. StatsEvent(r, op, 0)
    BY <1>6, <1>7, <1>12, <2>1, <2>2 DEF StatsEvent
  <2>. QED BY <2>3
<1>13. CASE should_track(d, op) /\ ~request_tracking(cfg) /\ device_stats' = bytes
  <2>1. StatsEvent(r, op, 0)
    BY <1>6, <1>7, <1>10, <1>13 DEF StatsEvent, Counting, should_track
  <2>. QED BY <2>1
<1>14. CASE /\ Tracked(r, op) /\ requests[r] = None
            /\ device_stats' = record_completion(bytes, d, op, 0, 0, 0, t)
  <2>1. PICK z \in Nat : z = 0
    OBVIOUS
  <2>2. device_stats' = record_completion(bytes, d, op, z, z, z, t)
    BY <1>14, <2>1
  <2>3. Grow(cfg.max_devices, bytes, device_stats', d, op, one)
    BY <1>2, <1>4, <1>5, <1>6, <1>10, <1>11, <2>2, RecordCompletion
  <2>4. Grow(cfg.max_devices, device_stats, device_stats', d, op, one)
    BY <1>5, <1>6, <1>10, <2>3, GrowAround
  <2>5. unseen'
    BY <1>3, <1>6, <1>8, <1>14 DEF RequestSeen
  <2>6. StatsEvent(r, op, one)
    BY <1>6, <1>7, <1>14, <2>4, <2>5 DEF StatsEvent, Tracked, should_track
  <2>. QED BY <2>6
<1>15. PICK s : s = requests[r]
  OBVIOUS
<1>16. ASSUME s # None
       PROVE  /\ s \in RequestStates /\ s.dev = d /\ s.operation \in Ops /\ s.service_ns \in Nat
              /\ s.first_seen_ns \in Nat /\ s.remaining_bytes \in Nat
  <2>1. s \in RequestStates /\ s.dev = d
    BY <1>6, <1>15, <1>16 DEF TypeInv, OwnDevice
  <2>. QED BY <2>1 DEF RequestStates
<1>17. ASSUME s # None, Tracked(r, op), ~unseen'
       PROVE  s.remaining_bytes = blk[r].len /\ s.operation = op
  BY <1>3, <1>6, <1>8, <1>15, <1>17 DEF RequestSeen
<1>18. CASE /\ Tracked(r, op) /\ s # None /\ ~(error \/ n >= s.remaining_bytes)
            /\ device_stats' = bytes
  <2>1. ~unseen' => n # blk[r].len
    BY <1>4, <1>17, <1>18
  <2>2. StatsEvent(r, op, 0)
    BY <1>6, <1>7, <1>10, <1>18, <2>1 DEF StatsEvent, Tracked, should_track
  <2>. QED BY <2>2
<1>19. PICK attempt, service, total, queue, done, started :
          /\ attempt = Attempt(s, t) /\ service = s.service_ns + attempt
          /\ total = Larger(0, t - s.first_seen_ns) /\ queue = Larger(0, total - service)
          /\ done = record_completion(bytes, s.dev, s.operation, queue, service, total, t)
          /\ started = IF s.issue_ns # 0 THEN s.issue_ns ELSE s.first_seen_ns
  OBVIOUS
<1>20. CASE /\ Tracked(r, op) /\ s # None /\ (error \/ n >= s.remaining_bytes)
            /\ emit_request_span(done, r, s, started, t, service, total, TRUE)
  <2>1. /\ s \in RequestStates /\ s.dev = d /\ s.operation \in Ops /\ s.service_ns \in Nat
        /\ s.first_seen_ns \in Nat /\ s.remaining_bytes \in Nat
    BY <1>16, <1>20
  <2>2. attempt \in Nat
    BY <1>2, <1>19, <2>1, AttemptFacts
  <2>3. service \in Nat /\ total \in Nat
    <3>1. service \in Nat
      BY <1>19, <2>1, <2>2
    <3>2. total \in Nat
      BY <1>2, <1>19, <2>1 DEF Larger
    <3>. QED BY <3>1, <3>2
  <2>4. queue \in Nat
    BY <1>19, <2>3 DEF Larger
  <2>5. PICK o : o = s.operation
    OBVIOUS
  <2>6. Grow(cfg.max_devices, bytes, done, d, o, one)
    BY <1>2, <1>5, <1>6, <1>10, <1>11, <1>19, <2>1, <2>3, <2>4, <2>5, RecordCompletion
  <2>13. done \in StatMaps
    BY <2>6 DEF Grow
  <2>7. Grow(cfg.max_devices, device_stats, done, d, o, one)
    BY <1>5, <1>6, <1>10, <2>6, GrowAround
  <2>8. Grow(cfg.max_devices, done, device_stats', d, o, 0)
    BY <1>2, <1>5, <1>6, <1>20, <2>1, <2>7, <2>13, EmitStats
  <2>9. Grow(cfg.max_devices, device_stats, device_stats', d, o, one)
    BY <1>5, <1>6, <2>7, <2>8, GrowAround
  <2>10. ~unseen' => n = blk[r].len /\ o = op
    BY <1>1, <1>4, <1>17, <1>20, <2>1, <2>5
  <2>11. ~unseen' /\ Counting(cfg) => \A oo \in Ops : should_track(d, oo) =>
             finished'[d][oo] = finished[d][oo] + (IF oo = o THEN one ELSE 0)
    BY <1>7, <1>11, <2>10 DEF Counting
  <2>12. StatsEvent(r, o, one)
    BY <1>6, <1>7, <1>20, <2>9, <2>11 DEF StatsEvent, Tracked, should_track
  <2>. QED BY <2>12
<1>21. \/ ~should_track(d, op) /\ device_stats' = device_stats
       \/ should_track(d, op) /\ ~request_tracking(cfg) /\ device_stats' = bytes
       \/ /\ Tracked(r, op) /\ requests[r] = None
          /\ device_stats' = record_completion(bytes, d, op, 0, 0, 0, t)
       \/ /\ Tracked(r, op) /\ s # None /\ ~(error \/ n >= s.remaining_bytes)
          /\ device_stats' = bytes
       \/ /\ Tracked(r, op) /\ s # None /\ (error \/ n >= s.remaining_bytes)
          /\ emit_request_span(done, r, s, started, t, service, total, TRUE)
  BY <1>1, <1>6, <1>9, <1>15, <1>19 DEF trace_block_rq_complete, kernel
<1>. QED BY <1>12, <1>13, <1>14, <1>18, <1>20, <1>21

\* Every handler changes the statistics of one device, in step with the finished requests.
LEMMA HandlerStats ==
    ASSUME TypeInv, OwnDevice, SeenInv, NEW r \in Requests,
           RqInsert(r) \/ RqMerge(r) \/ RqIssue(r) \/ RqRequeue(r) \/ RqComplete(r)
    PROVE  \E op, k : k \in Nat /\ StatsEvent(r, op, k)
BY InsertStats, MergeStats, RequeueStats, CompleteStats

LEMMA StatsEventTypes ==
    ASSUME TypeInv, NEW r \in Requests, NEW op, NEW k, StatsEvent(r, op, k)
    PROVE  device_stats' \in [Devs -> DeviceStats \cup {None}] /\ finished' \in [Devs -> [Ops -> Nat]]
BY DEF StatsEvent, Grow, StatMaps

\* What was reported is still what the previous sample saw, and the counters only grew.
LEMMA StatsEventReport ==
    ASSUME TypeInv, ReportInv, HitFrame, NEW r \in Requests, NEW op, NEW k, StatsEvent(r, op, k)
    PROVE  ReportInv'
<1>1. /\ cfg' = cfg /\ previous_stats' = previous_stats /\ reported' = reported
      /\ phase' = "running"
  BY DEF HitFrame, config, sampler
<1>2. ASSUME NEW d \in Devs, previous_stats[d] # None
      PROVE  device_stats'[d] # None /\ AtLeast(device_stats'[d], previous_stats[d])
  <2>1. device_stats[d] # None /\ AtLeast(device_stats[d], previous_stats[d])
    BY <1>2 DEF ReportInv
  <2>2. CASE d # DevOf[r]
    BY <2>1, <2>2 DEF StatsEvent, Grow
  <2>3. CASE d = DevOf[r]
    <3>1. device_stats'[d] # None /\ AtLeast(device_stats'[d], device_stats[d])
      BY <2>1, <2>3 DEF StatsEvent, Grow
    <3>2. device_stats'[d] \in DeviceStats /\ device_stats[d] \in DeviceStats /\ previous_stats[d] \in DeviceStats
      BY <1>2, <2>1, <3>1 DEF TypeInv, StatsEvent, Grow, StatMaps
    <3>. QED BY <2>1, <3>1, <3>2, AtLeastOrder
  <2>. QED BY <2>2, <2>3
<1>3. \A d \in Devs : IF previous_stats[d] = None THEN Shown(cfg, reported[d], ZeroStats(0))
                      ELSE Shown(cfg, reported[d], previous_stats[d])
  BY DEF ReportInv
<1>. QED BY <1>1, <1>2, <1>3 DEF ReportInv

\* The operations counted are still the requests finished.
LEMMA StatsEventOperations ==
    ASSUME TypeInv, OperationsInv, HitFrame, NEW r \in Requests, NEW op, NEW k \in Nat,
           StatsEvent(r, op, k), unseen => unseen'
    PROVE  OperationsInv'
<1>1. cfg' = cfg /\ cfg \in Configs
  BY DEF HitFrame, config, TypeInv
<1>2. PICK d \in Devs : d = DevOf[r]
  BY BlockAssumption
<1>3. PICK sts, nsts, max : sts = device_stats /\ nsts = device_stats' /\ max = cfg.max_devices
  OBVIOUS
<1>4. Grow(max, sts, nsts, d, op, k) /\ max \in Nat /\ sts \in StatMaps /\ nsts \in StatMaps
  BY <1>1, <1>2, <1>3, BlockAssumption DEF StatsEvent, Grow, TypeInv, StatMaps
<1>5. Stats(sts) \subseteq Stats(nsts) /\ Stats(nsts) \subseteq Stats(sts) \cup {d}
  BY <1>4 DEF Grow, Stats
<1>6. IsFiniteSet(Stats(sts)) /\ IsFiniteSet(Stats(nsts))
  <2>1. IsFiniteSet(Stats(sts))
    BY <1>3 DEF OperationsInv
  <2>2. IsFiniteSet(Stats(sts) \cup {d})
    BY <2>1, FS_AddElement
  <2>. QED BY <1>5, <2>1, <2>2, FS_Subset
<1>7. /\ Cardinality(Stats(sts)) \in Nat /\ Cardinality(Stats(nsts)) \in Nat
      /\ Cardinality(Stats(sts)) <= Cardinality(Stats(nsts))
  <2>1. Cardinality(Stats(sts)) \in Nat /\ Cardinality(Stats(nsts)) \in Nat
    BY <1>6, FS_CardinalityType
  <2>2. Cardinality(Stats(sts)) <= Cardinality(Stats(nsts))
    BY <1>5, <1>6, FS_Subset
  <2>. QED BY <2>1, <2>2
<1>8. ASSUME NEW e \in Devs, nsts[e] # None PROVE cfg.devices # {} => e \in cfg.devices
  <2>1. CASE sts[e] # None
    BY <1>3, <2>1 DEF OperationsInv
  <2>2. CASE sts[e] = None
    BY <1>2, <1>3, <1>4, <1>8, <2>2 DEF StatsEvent, Grow
  <2>. QED BY <2>1, <2>2
<1>9. ASSUME ~unseen', Counting(cfg), NEW e \in Devs, NEW o \in cfg.operations
      PROVE  /\ nsts[e] # None => nsts[e].operations[o].operations = finished'[e][o]
             /\ nsts[e] = None /\ should_track(e, o) /\ Cardinality(Stats(nsts)) < max
                  => finished'[e][o] = 0
  <2>0. o \in Ops
    BY <1>1, BlockAssumption
  <2>1. /\ sts[e] # None => sts[e].operations[o].operations = finished[e][o]
        /\ sts[e] = None /\ should_track(e, o) /\ Cardinality(Stats(sts)) < max => finished[e][o] = 0
    BY <1>3, <1>9 DEF OperationsInv
  <2>2. CASE e # d
    <3>1. nsts[e] = sts[e] /\ finished'[e][o] = finished[e][o]
      BY <1>2, <1>4, <2>0, <2>2 DEF Grow, StatsEvent
    <3>. QED BY <1>4, <1>7, <2>1, <3>1
  <2>3. CASE e = d
    <3>1. should_track(d, o) => finished'[d][o] = finished[d][o] + (IF o = op THEN k ELSE 0)
      BY <1>2, <1>9, <2>0 DEF StatsEvent
    <3>2. ASSUME nsts[d] # None PROVE nsts[d].operations[o].operations = finished'[d][o]
      <4>1. should_track(d, o)
        BY <1>8, <3>2 DEF should_track
      <4>2. nsts[d].operations[o].operations = OpsOf(sts[d], o) + (IF o = op THEN k ELSE 0)
        BY <1>4, <2>0, <3>2 DEF Grow
      <4>3. OpsOf(sts[d], o) = finished[d][o]
        <5>1. CASE sts[d] # None
          BY <2>1, <2>3, <5>1 DEF OpsOf
        <5>2. CASE sts[d] = None
          <6>1. Cardinality(Stats(sts)) < max
            BY <1>4, <1>7, <3>2, <5>2 DEF Grow, Full
          <6>. QED BY <2>1, <2>3, <4>1, <5>2, <6>1 DEF OpsOf
        <5>. QED BY <5>1, <5>2
      <4>. QED BY <3>1, <4>1, <4>2, <4>3
    <3>3. ASSUME nsts[d] = None, should_track(d, o), Cardinality(Stats(nsts)) < max
          PROVE  finished'[d][o] = 0
      <4>1. sts[d] = None
        BY <1>4, <3>3 DEF Grow
      <4>2. Cardinality(Stats(sts)) < max
        BY <1>4, <1>7, <3>3
      <4>3. k = 0
        BY <1>4, <1>7, <3>3, <4>1, <4>2 DEF Grow, Full
      <4>4. finished[d][o] = 0
        BY <2>1, <2>3, <3>3, <4>1, <4>2
      <4>. QED BY <3>1, <3>3, <4>3, <4>4
    <3>. QED BY <2>3, <3>2, <3>3
  <2>. QED BY <2>2, <2>3
<1>10. \A e \in Devs, o \in cfg.operations : should_track(e, o)' <=> should_track(e, o)
  BY <1>1 DEF should_track
<1>11. Counting(cfg)' <=> Counting(cfg)
  BY <1>1 DEF Counting, request_tracking, operations_enabled, has_metric
<1>12. IsFiniteSet(Stats(device_stats)')
  BY <1>3, <1>6 DEF Stats
<1>13. Cardinality(Stats(device_stats)') = Cardinality(Stats(nsts))
  BY <1>3 DEF Stats
<1>. QED BY <1>1, <1>3, <1>8, <1>9, <1>10, <1>11, <1>12, <1>13 DEF OperationsInv

-----------------------------------------------------------------------------
(* A sample.                                                                *)

\* saturating_sub().
LEMMA LessFacts ==
    ASSUME NEW a \in Nat, NEW b \in Nat
    PROVE  Less(a, b) \in Nat /\ (b <= a => Less(a, b) = a - b)
BY DEF Less, Larger

\* A snapshot extends the busy time to the sample.
LEMMA SnapshotFacts ==
    ASSUME NEW dp \in DeviceDepths, NEW t \in Nat
    PROVE  /\ snapshot(dp, t) \in Snapshots
           /\ snapshot(dp, t).first_seen_ns = dp.first_seen_ns
           /\ dp.last_update_ns <= t =>
                snapshot(dp, t).busy_ns = dp.busy_ns + (IF dp.inflight > 0 THEN t - dp.last_update_ns ELSE 0)
<1>1. /\ dp.first_seen_ns \in Nat /\ dp.last_update_ns \in Nat /\ dp.busy_ns \in Nat
      /\ dp.inflight_ns \in Int /\ dp.inflight \in Nat
  BY DEF DeviceDepths
<1>2. PICK x \in Nat : x = Less(t, dp.last_update_ns)
  BY <1>1, LessFacts
<1>3. dp.last_update_ns <= t => x = t - dp.last_update_ns
  BY <1>1, <1>2, LessFacts
<1>4. x * dp.inflight \in Int
  BY <1>1
<1>5. PICK bs \in Nat, ins \in Int : /\ bs = dp.busy_ns + (IF dp.inflight > 0 THEN x ELSE 0)
                                     /\ ins = dp.inflight_ns + x * dp.inflight
  BY <1>1, <1>4
<1>6. snapshot(dp, t) = [first_seen_ns |-> dp.first_seen_ns, busy_ns |-> bs, inflight_ns |-> ins]
  BY <1>2, <1>5 DEF snapshot
<1>. QED BY <1>1, <1>3, <1>5, <1>6 DEF Snapshots

IsDelta(dl, s, p) == dl = stats_delta(s, p)

Counted(p) == IF p = None THEN ZeroStats(0) ELSE p

\* What the previous sample saw is no more than what is there now.
LEMMA CountedFacts ==
    ASSUME NEW s \in DeviceStats, NEW p \in DeviceStats \cup {None}, p # None => AtLeast(s, p)
    PROVE  /\ Counted(p) \in DeviceStats
           /\ Counted(p).requeues <= s.requeues /\ Counted(p).lost_requests <= s.lost_requests
           /\ Counted(p).timeline_drops <= s.timeline_drops
           /\ \A o \in Ops : /\ Counted(p).operations[o].bytes <= s.operations[o].bytes
                             /\ Counted(p).operations[o].operations <= s.operations[o].operations
<1>1. CASE p # None
  BY <1>1 DEF Counted, AtLeast
<1>2. CASE p = None
  <2>1. PICK z \in Nat : z = 0
    OBVIOUS
  <2>2. ZeroStats(z) \in DeviceStats
    BY ZeroStatsFacts
  <2>3. /\ Counted(p) = ZeroStats(z) /\ Counted(p).requeues = 0 /\ Counted(p).lost_requests = 0
        /\ Counted(p).timeline_drops = 0
        /\ \A o \in Ops : Counted(p).operations[o].bytes = 0 /\ Counted(p).operations[o].operations = 0
    BY <1>2, <2>1 DEF Counted, ZeroStats, ZeroOp
  <2>. QED BY <2>2, <2>3, StatFields
<1>. QED BY <1>1, <1>2

\* The delta is what was counted since the previous sample.
LEMMA DeltaFacts ==
    ASSUME NEW s \in DeviceStats, NEW p \in DeviceStats \cup {None}, p # None => AtLeast(s, p),
           NEW dl, IsDelta(dl, s, p), NEW c, c = Counted(p)
    PROVE  /\ dl.requeues = s.requeues - c.requeues /\ dl.lost_requests = s.lost_requests - c.lost_requests
           /\ dl.timeline_drops = s.timeline_drops - c.timeline_drops
           /\ \A o \in Ops : /\ dl.operations[o].bytes = s.operations[o].bytes - c.operations[o].bytes
                             /\ dl.operations[o].operations
                                  = s.operations[o].operations - c.operations[o].operations
                             /\ dl.operations[o].errors \in Nat
<1>1. /\ s.requeues \in Nat /\ s.lost_requests \in Nat /\ s.timeline_drops \in Nat
      /\ \A o \in Ops : s.operations[o].bytes \in Nat /\ s.operations[o].operations \in Nat
                        /\ s.operations[o].errors \in Nat
  BY StatFields
<1>2. CASE p = None
  <2>1. dl = s
    BY <1>2 DEF IsDelta, stats_delta
  <2>2. /\ c.requeues = 0 /\ c.lost_requests = 0 /\ c.timeline_drops = 0
        /\ \A o \in Ops : c.operations[o].bytes = 0 /\ c.operations[o].operations = 0
    BY <1>2 DEF Counted, ZeroStats, ZeroOp
  <2>. QED BY <1>1, <2>1, <2>2
<1>3. CASE p # None
  <2>1. /\ c = p /\ p \in DeviceStats /\ p.first_seen_ns = s.first_seen_ns /\ p.requeues <= s.requeues
        /\ p.lost_requests <= s.lost_requests /\ p.timeline_drops <= s.timeline_drops
        /\ \A o \in Ops : /\ p.operations[o].bytes <= s.operations[o].bytes
                          /\ p.operations[o].operations <= s.operations[o].operations
    BY <1>3 DEF Counted, AtLeast
  <2>2. /\ p.requeues \in Nat /\ p.lost_requests \in Nat /\ p.timeline_drops \in Nat
        /\ \A o \in Ops : p.operations[o].bytes \in Nat /\ p.operations[o].operations \in Nat
                          /\ p.operations[o].errors \in Nat
    BY <2>1, StatFields
  <2>3. dl = [operations |-> [o \in Ops |-> op_delta(s.operations[o], p.operations[o])],
              requeues |-> Less(s.requeues, p.requeues),
              lost_requests |-> Less(s.lost_requests, p.lost_requests),
              timeline_drops |-> Less(s.timeline_drops, p.timeline_drops)]
    BY <1>3, <2>1 DEF IsDelta, stats_delta
  <2>4. /\ dl.requeues = Less(s.requeues, p.requeues)
        /\ dl.lost_requests = Less(s.lost_requests, p.lost_requests)
        /\ dl.timeline_drops = Less(s.timeline_drops, p.timeline_drops)
    BY <2>3
  <2>5. /\ Less(s.requeues, p.requeues) = s.requeues - p.requeues
        /\ Less(s.lost_requests, p.lost_requests) = s.lost_requests - p.lost_requests
        /\ Less(s.timeline_drops, p.timeline_drops) = s.timeline_drops - p.timeline_drops
    BY <1>1, <2>1, <2>2, LessFacts
  <2>6. ASSUME NEW o \in Ops
        PROVE  /\ dl.operations[o].bytes = s.operations[o].bytes - p.operations[o].bytes
               /\ dl.operations[o].operations = s.operations[o].operations - p.operations[o].operations
               /\ dl.operations[o].errors \in Nat
    <3>1. dl.operations[o] = op_delta(s.operations[o], p.operations[o])
      BY <2>3
    <3>2. /\ dl.operations[o].bytes = Less(s.operations[o].bytes, p.operations[o].bytes)
          /\ dl.operations[o].operations = Less(s.operations[o].operations, p.operations[o].operations)
          /\ dl.operations[o].errors = Less(s.operations[o].errors, p.operations[o].errors)
      BY <3>1 DEF op_delta
    <3>3. PICK b1 \in Nat, b2 \in Nat, o1 \in Nat, o2 \in Nat, e1 \in Nat, e2 \in Nat :
             /\ b1 = s.operations[o].bytes /\ b2 = p.operations[o].bytes
             /\ o1 = s.operations[o].operations /\ o2 = p.operations[o].operations
             /\ e1 = s.operations[o].errors /\ e2 = p.operations[o].errors
             /\ b2 <= b1 /\ o2 <= o1
      BY <1>1, <2>1, <2>2
    <3>4. Less(b1, b2) = b1 - b2 /\ Less(o1, o2) = o1 - o2 /\ Less(e1, e2) \in Nat
      BY <3>3, LessFacts
    <3>. QED BY <3>2, <3>3, <3>4
  <2>. QED BY <2>1, <2>4, <2>5, <2>6
<1>. QED BY <1>2, <1>3

IsSampled(nrep, rep, dl) == nrep = stats_samples(rep, dl)

\* The fields of what was reported of a device.
LEMMA CounterFields ==
    ASSUME NEW rep \in Counters
    PROVE  /\ rep.operations \in [Ops -> OpCounts] /\ rep.requeues \in Nat /\ rep.lost_requests \in Nat
           /\ rep.timeline_drops \in Nat /\ rep.busy \in Nat
           /\ \A o \in Ops : /\ rep.operations[o] \in OpCounts
                             /\ rep.operations[o].bytes \in Nat /\ rep.operations[o].operations \in Nat
                             /\ rep.operations[o].errors \in Nat
BY DEF Counters, OpCounts

\* With the deltas added, what was reported is what the statistics say.
LEMMA SampledFacts ==
    ASSUME NEW rep \in Counters, NEW s \in DeviceStats, NEW p \in DeviceStats \cup {None},
           p # None => AtLeast(s, p), NEW dl, IsDelta(dl, s, p), NEW nrep, IsSampled(nrep, rep, dl),
           Shown(cfg, rep, Counted(p)), cfg \in Configs
    PROVE  nrep \in Counters /\ nrep.busy = rep.busy /\ Shown(cfg, nrep, s)
<1>1. PICK c : c = Counted(p)
  OBVIOUS
<1>2. /\ c \in DeviceStats
      /\ c.requeues <= s.requeues /\ c.lost_requests <= s.lost_requests
      /\ c.timeline_drops <= s.timeline_drops
      /\ \A o \in Ops : /\ c.operations[o].bytes <= s.operations[o].bytes
                        /\ c.operations[o].operations <= s.operations[o].operations
  BY <1>1, CountedFacts
<1>3. /\ dl.requeues = s.requeues - c.requeues /\ dl.lost_requests = s.lost_requests - c.lost_requests
      /\ dl.timeline_drops = s.timeline_drops - c.timeline_drops
      /\ \A o \in Ops : /\ dl.operations[o].bytes = s.operations[o].bytes - c.operations[o].bytes
                        /\ dl.operations[o].operations
                             = s.operations[o].operations - c.operations[o].operations
                        /\ dl.operations[o].errors \in Nat
  BY <1>1, DeltaFacts
<1>4. /\ s.requeues \in Nat /\ s.lost_requests \in Nat /\ s.timeline_drops \in Nat
      /\ \A o \in Ops : s.operations[o].bytes \in Nat /\ s.operations[o].operations \in Nat
  BY StatFields
<1>5. /\ c.requeues \in Nat /\ c.lost_requests \in Nat /\ c.timeline_drops \in Nat
      /\ \A o \in Ops : c.operations[o].bytes \in Nat /\ c.operations[o].operations \in Nat
  BY <1>2, StatFields
<1>6. /\ rep.operations \in [Ops -> OpCounts] /\ rep.requeues \in Nat /\ rep.lost_requests \in Nat
      /\ rep.timeline_drops \in Nat /\ rep.busy \in Nat
      /\ \A o \in Ops : /\ rep.operations[o] \in OpCounts
                        /\ rep.operations[o].bytes \in Nat /\ rep.operations[o].operations \in Nat
                        /\ rep.operations[o].errors \in Nat
  BY CounterFields
<1>7. Shown(cfg, rep, c)
  BY <1>1
<1>8. PICK f : f = [o \in Ops |-> IF o \in cfg.operations
                      THEN [bytes |-> rep.operations[o].bytes +
                                (IF has_metric(cfg, "throughput") THEN dl.operations[o].bytes ELSE 0),
                            operations |-> rep.operations[o].operations +
                                (IF has_metric(cfg, "iops") THEN dl.operations[o].operations ELSE 0),
                            errors |-> rep.operations[o].errors +
                                (IF has_metric(cfg, "errors") THEN dl.operations[o].errors ELSE 0)]
                      ELSE rep.operations[o]]
  OBVIOUS
<1>9. PICK rq \in Nat, lr \in Nat, td \in Nat :
         /\ rq = (IF has_metric(cfg, "errors") THEN rep.requeues + dl.requeues ELSE rep.requeues)
         /\ lr = (IF has_metric(cfg, "errors") THEN rep.lost_requests + dl.lost_requests
                  ELSE rep.lost_requests)
         /\ td = (IF cfg.timeline THEN rep.timeline_drops + dl.timeline_drops ELSE rep.timeline_drops)
  BY <1>2, <1>3, <1>4, <1>5, <1>6, SMTT(60)
<1>10. nrep = [rep EXCEPT !.operations = f, !.requeues = rq, !.lost_requests = lr, !.timeline_drops = td]
  BY <1>8, <1>9 DEF IsSampled, stats_samples
<1>11. ASSUME NEW o \in Ops
       PROVE  /\ f[o] \in OpCounts
              /\ o \in cfg.operations =>
                   /\ has_metric(cfg, "throughput") => f[o].bytes = s.operations[o].bytes
                   /\ has_metric(cfg, "iops") => f[o].operations = s.operations[o].operations
  <2>1. CASE o \notin cfg.operations
    BY <1>6, <1>8, <2>1
  <2>2. CASE o \in cfg.operations
    <3>1. PICK nb \in Nat, no \in Nat, ne \in Nat :
            /\ nb = rep.operations[o].bytes +
                      (IF has_metric(cfg, "throughput") THEN dl.operations[o].bytes ELSE 0)
            /\ no = rep.operations[o].operations +
                      (IF has_metric(cfg, "iops") THEN dl.operations[o].operations ELSE 0)
            /\ ne = rep.operations[o].errors +
                      (IF has_metric(cfg, "errors") THEN dl.operations[o].errors ELSE 0)
      <4>1. /\ rep.operations[o].bytes \in Nat /\ rep.operations[o].operations \in Nat
            /\ rep.operations[o].errors \in Nat
        BY <1>6
      <4>2. /\ dl.operations[o].bytes \in Nat /\ dl.operations[o].operations \in Nat
            /\ dl.operations[o].errors \in Nat
        <5>1. /\ c.operations[o].bytes <= s.operations[o].bytes
              /\ c.operations[o].operations <= s.operations[o].operations
              /\ dl.operations[o].bytes = s.operations[o].bytes - c.operations[o].bytes
              /\ dl.operations[o].operations = s.operations[o].operations - c.operations[o].operations
              /\ dl.operations[o].errors \in Nat
              /\ s.operations[o].bytes \in Nat /\ s.operations[o].operations \in Nat
              /\ c.operations[o].bytes \in Nat /\ c.operations[o].operations \in Nat
          BY <1>2, <1>3, <1>4, <1>5
        <5>. QED BY <5>1
      <4>. QED BY <4>1, <4>2
    <3>2. f[o] = [bytes |-> nb, operations |-> no, errors |-> ne]
      BY <1>8, <2>2, <3>1
    <3>3. f[o] \in OpCounts /\ f[o].bytes = nb /\ f[o].operations = no
      BY <3>2 DEF OpCounts
    <3>4. /\ has_metric(cfg, "throughput") => rep.operations[o].bytes = c.operations[o].bytes
          /\ has_metric(cfg, "iops") => rep.operations[o].operations = c.operations[o].operations
      BY <1>7, <2>2 DEF Shown
    <3>5. has_metric(cfg, "throughput") => nb = s.operations[o].bytes
      BY <1>3, <1>4, <1>5, <3>1, <3>4
    <3>6. has_metric(cfg, "iops") => no = s.operations[o].operations
      BY <1>3, <1>4, <1>5, <3>1, <3>4
    <3>. QED BY <3>3, <3>5, <3>6
  <2>. QED BY <2>1, <2>2
<1>12. f \in [Ops -> OpCounts]
  BY <1>8, <1>11
<1>13. /\ nrep \in Counters /\ nrep.busy = rep.busy /\ nrep.operations = f /\ nrep.requeues = rq
       /\ nrep.lost_requests = lr /\ nrep.timeline_drops = td
  BY <1>10, <1>12 DEF Counters
<1>14. has_metric(cfg, "errors") => rq = s.requeues /\ lr = s.lost_requests
  BY <1>3, <1>4, <1>5, <1>7, <1>9 DEF Shown
<1>15. cfg.timeline => td = s.timeline_drops
  BY <1>3, <1>4, <1>5, <1>7, <1>9 DEF Shown
<1>16. cfg.operations \subseteq Ops
  BY BlockAssumption
<1>. QED BY <1>11, <1>13, <1>14, <1>15, <1>16 DEF Shown

\* Device by device, what a sample leaves: the counters with the statistics added,
\* and the busy time of the devices in deep.
SampledDevice(d, deep, t) ==
    /\ IF device_stats[d] = None
       THEN /\ previous_stats'[d] = previous_stats[d]
            /\ d \notin deep => reported'[d] = reported[d]
            /\ d \in deep => reported'[d] = [reported[d] EXCEPT !.busy =
                               @ + busy_delta(snapshot(device_depths[d], t), previous_depth[d])]
       ELSE /\ previous_stats'[d] = device_stats[d]
            /\ \E dl, nrep :
                 /\ IsDelta(dl, device_stats[d], previous_stats[d])
                 /\ IsSampled(nrep, reported[d], dl)
                 /\ d \notin deep => reported'[d] = nrep
                 /\ d \in deep => reported'[d] = [nrep EXCEPT !.busy =
                               @ + busy_delta(snapshot(device_depths[d], t), previous_depth[d])]
    /\ previous_depth'[d] = IF d \in deep THEN snapshot(device_depths[d], t) ELSE previous_depth[d]

\* sample(), device by device.
LEMMA SampleDevices ==
    ASSUME NEW t \in Nat, sample(t)
    PROVE  /\ \E deep : /\ \A d \in Devs : d \in deep => device_depths[d] # None
                        /\ \A d \in Devs : SampledDevice(d, deep, t)
           /\ DOMAIN reported' = Devs /\ DOMAIN previous_stats' = Devs /\ DOMAIN previous_depth' = Devs
           /\ reported' = [d \in Devs |-> reported'[d]]
           /\ previous_stats' = [d \in Devs |-> previous_stats'[d]]
           /\ previous_depth' = [d \in Devs |-> previous_depth'[d]]
           /\ last_sample_ns' = t
<1>1. PICK seen : seen = {d \in Devs : device_stats[d] # None}
  OBVIOUS
<1>2. PICK deep : deep = {d \in seen \cup {e \in Devs : device_depths[e] # None /\
                    \/ device_depths[e].busy_ns > 0 \/ device_depths[e].saturated_ns > 0
                    \/ device_depths[e].max_inflight > 0 \/ device_depths[e].max_queued > 0} :
                       device_depths[d] # None}
  OBVIOUS
<1>3. PICK delta, snap : /\ delta = [d \in seen |-> stats_delta(device_stats[d], previous_stats[d])]
                         /\ snap = [d \in deep |-> snapshot(device_depths[d], t)]
  OBVIOUS
<1>4. PICK counted : counted = [d \in Devs |-> IF d \in seen THEN stats_samples(reported[d], delta[d])
                                               ELSE reported[d]]
  OBVIOUS
<1>5. /\ reported' = [d \in Devs |-> IF d \in deep
             THEN [counted[d] EXCEPT !.busy = @ + busy_delta(snap[d], previous_depth[d])]
             ELSE counted[d]]
      /\ previous_stats' = [d \in Devs |-> IF d \in seen THEN device_stats[d] ELSE previous_stats[d]]
      /\ previous_depth' = [d \in Devs |-> IF d \in deep THEN snap[d] ELSE previous_depth[d]]
      /\ last_sample_ns' = t
  BY <1>1, <1>2, <1>3, <1>4 DEF sample
<1>6. \A d \in Devs : d \in deep => device_depths[d] # None
  BY <1>2
<1>7. ASSUME NEW d \in Devs PROVE SampledDevice(d, deep, t)
  <2>1. d \in seen <=> device_stats[d] # None
    BY <1>1
  <2>2. d \in deep => snap[d] = snapshot(device_depths[d], t)
    BY <1>3
  <2>3. CASE device_stats[d] = None
    <3>1. counted[d] = reported[d]
      BY <1>4, <2>1, <2>3
    <3>. QED BY <1>5, <2>1, <2>2, <2>3, <3>1 DEF SampledDevice
  <2>4. CASE device_stats[d] # None
    <3>1. PICK dl, nrep : dl = delta[d] /\ nrep = counted[d]
      OBVIOUS
    <3>2. IsDelta(dl, device_stats[d], previous_stats[d]) /\ IsSampled(nrep, reported[d], dl)
      BY <1>3, <1>4, <2>1, <2>4, <3>1 DEF IsDelta, IsSampled
    <3>. QED BY <1>5, <2>1, <2>2, <2>4, <3>1, <3>2 DEF SampledDevice
  <2>. QED BY <2>3, <2>4
<1>. QED BY <1>5, <1>6, <1>7

\* The type and the statistics after a sample.
LEMMA SampleStats ==
    ASSUME TypeInv, ReportInv, NEW t \in Nat, NEW deep, NEW d \in Devs, SampledDevice(d, deep, t),
           d \in deep => device_depths[d] # None
    PROVE  /\ reported'[d] \in Counters
           /\ previous_stats'[d] = device_stats[d]
           /\ previous_depth'[d] \in Snapshots \cup {None}
           /\ Shown(cfg, reported'[d], Counted(device_stats[d]))
           /\ reported'[d].busy = reported[d].busy + (IF d \in deep
                THEN busy_delta(snapshot(device_depths[d], t), previous_depth[d]) ELSE 0)
<1>1. /\ reported[d] \in Counters /\ device_stats[d] \in DeviceStats \cup {None}
      /\ previous_stats[d] \in DeviceStats \cup {None} /\ device_depths[d] \in DeviceDepths \cup {None}
      /\ previous_depth[d] \in Snapshots \cup {None} /\ cfg \in Configs
  BY DEF TypeInv
<1>2. reported[d].busy \in Nat
  BY <1>1, CounterFields
<1>3. d \in deep => snapshot(device_depths[d], t) \in Snapshots
  BY <1>1, SnapshotFacts
<1>4. previous_depth'[d] \in Snapshots \cup {None}
  BY <1>1, <1>3 DEF SampledDevice
<1>5. PICK bd : bd = IF d \in deep THEN busy_delta(snapshot(device_depths[d], t), previous_depth[d]) ELSE 0
  OBVIOUS
<1>6. bd \in Nat
  <2>1. CASE d \in deep
    <3>1. PICK sn : sn = snapshot(device_depths[d], t)
      OBVIOUS
    <3>2. sn \in Snapshots /\ sn.busy_ns \in Nat
      BY <1>3, <2>1, <3>1 DEF Snapshots
    <3>3. previous_depth[d] # None => previous_depth[d].busy_ns \in Nat
      BY <1>1 DEF Snapshots
    <3>. QED BY <1>5, <2>1, <3>1, <3>2, <3>3, LessFacts DEF busy_delta
  <2>2. CASE d \notin deep
    BY <1>5, <2>2
  <2>. QED BY <2>1, <2>2
<1>7. ASSUME NEW m \in Counters, m.busy = reported[d].busy, Shown(cfg, m, Counted(device_stats[d])),
             \/ d \notin deep /\ reported'[d] = m
             \/ d \in deep /\ reported'[d] = [m EXCEPT !.busy = @ + bd]
      PROVE  /\ reported'[d] \in Counters /\ reported'[d].busy = reported[d].busy + bd
             /\ Shown(cfg, reported'[d], Counted(device_stats[d]))
  <2>1. CASE d \notin deep /\ reported'[d] = m
    BY <1>2, <1>5, <1>7, <2>1
  <2>2. CASE d \in deep /\ reported'[d] = [m EXCEPT !.busy = @ + bd]
    <3>1. PICK nb \in Nat : nb = m.busy + bd
      BY <1>2, <1>6, <1>7
    <3>2. reported'[d] = [m EXCEPT !.busy = nb]
      BY <2>2, <3>1
    <3>3. PICK y : y = reported'[d]
      OBVIOUS
    <3>4. /\ y \in Counters /\ y.busy = nb /\ y.operations = m.operations /\ y.requeues = m.requeues
          /\ y.lost_requests = m.lost_requests /\ y.timeline_drops = m.timeline_drops
      BY <3>2, <3>3 DEF Counters
    <3>5. Shown(cfg, y, Counted(device_stats[d]))
      BY <1>7, <3>4 DEF Shown
    <3>. QED BY <1>7, <3>1, <3>3, <3>4, <3>5
  <2>. QED BY <1>7, <2>1, <2>2
<1>8. CASE device_stats[d] = None
  <2>1. previous_stats[d] = None /\ Shown(cfg, reported[d], Counted(device_stats[d]))
    BY <1>8 DEF ReportInv, Counted
  <2>2. \/ d \notin deep /\ reported'[d] = reported[d]
        \/ d \in deep /\ reported'[d] = [reported[d] EXCEPT !.busy = @ + bd]
    BY <1>5, <1>8 DEF SampledDevice
  <2>3. previous_stats'[d] = device_stats[d]
    BY <1>8, <2>1 DEF SampledDevice
  <2>4. /\ reported'[d] \in Counters /\ reported'[d].busy = reported[d].busy + bd
        /\ Shown(cfg, reported'[d], Counted(device_stats[d]))
    BY <1>1, <1>7, <2>1, <2>2
  <2>. QED BY <1>4, <1>5, <2>3, <2>4
<1>9. CASE device_stats[d] # None
  <2>1. /\ device_stats[d] \in DeviceStats
        /\ previous_stats[d] # None => AtLeast(device_stats[d], previous_stats[d])
        /\ Shown(cfg, reported[d], Counted(previous_stats[d]))
    BY <1>1, <1>9 DEF ReportInv, Counted
  <2>2. PICK dl, nrep :
                 /\ IsDelta(dl, device_stats[d], previous_stats[d])
                 /\ IsSampled(nrep, reported[d], dl)
                 /\ d \notin deep => reported'[d] = nrep
                 /\ d \in deep => reported'[d] = [nrep EXCEPT !.busy = @ + bd]
    BY <1>5, <1>9 DEF SampledDevice
  <2>3. nrep \in Counters /\ nrep.busy = reported[d].busy /\ Shown(cfg, nrep, device_stats[d])
    BY <1>1, <2>1, <2>2, SampledFacts
  <2>4. Counted(device_stats[d]) = device_stats[d]
    BY <1>9 DEF Counted
  <2>5. \/ d \notin deep /\ reported'[d] = nrep
        \/ d \in deep /\ reported'[d] = [nrep EXCEPT !.busy = @ + bd]
    BY <2>2
  <2>6. /\ reported'[d] \in Counters /\ reported'[d].busy = reported[d].busy + bd
        /\ Shown(cfg, reported'[d], Counted(device_stats[d]))
    BY <1>7, <2>3, <2>4, <2>5
  <2>7. previous_stats'[d] = device_stats[d]
    BY <1>9 DEF SampledDevice
  <2>. QED BY <1>4, <1>5, <2>6, <2>7
<1>. QED BY <1>8, <1>9

\* A sample reports all that was counted before it.
LEMMA SampleReport ==
    ASSUME TypeInv, ReportInv, NEW t \in Nat, sample(t), cfg' = cfg, device_stats' = device_stats
    PROVE  /\ ReportInv'
           /\ reported' \in [Devs -> Counters] /\ previous_stats' \in [Devs -> DeviceStats \cup {None}]
           /\ previous_depth' \in [Devs -> Snapshots \cup {None}] /\ last_sample_ns' = t
<1>1. PICK deep : /\ \A d \in Devs : d \in deep => device_depths[d] # None
                  /\ \A d \in Devs : SampledDevice(d, deep, t)
  BY SampleDevices
<1>2. /\ reported' = [d \in Devs |-> reported'[d]]
      /\ previous_stats' = [d \in Devs |-> previous_stats'[d]]
      /\ previous_depth' = [d \in Devs |-> previous_depth'[d]]
      /\ last_sample_ns' = t
  BY SampleDevices
<1>3. ASSUME NEW d \in Devs
      PROVE  /\ reported'[d] \in Counters /\ previous_stats'[d] = device_stats[d]
             /\ previous_depth'[d] \in Snapshots \cup {None}
             /\ Shown(cfg, reported'[d], Counted(device_stats[d]))
             /\ device_stats[d] \in DeviceStats \cup {None}
    BY <1>1, SampleStats DEF TypeInv
<1>4. reported' \in [Devs -> Counters]
  BY <1>2, <1>3
<1>5. previous_stats' \in [Devs -> DeviceStats \cup {None}]
  BY <1>2, <1>3
<1>6. previous_depth' \in [Devs -> Snapshots \cup {None}]
  BY <1>2, <1>3
<1>7. \A d \in Devs : device_stats[d] # None => AtLeast(device_stats[d], device_stats[d])
  BY <1>3, AtLeastItself
<1>8. ASSUME NEW d \in Devs
      PROVE  IF previous_stats'[d] = None THEN Shown(cfg', reported'[d], ZeroStats(0))
             ELSE /\ device_stats'[d] # None /\ AtLeast(device_stats'[d], previous_stats'[d])
                  /\ Shown(cfg', reported'[d], previous_stats'[d])
  BY <1>3, <1>7 DEF Counted
<1>9. ReportInv'
  BY <1>3, <1>8 DEF ReportInv
<1>. QED BY <1>2, <1>4, <1>5, <1>6, <1>9

\* The busy time reported is that of the snapshot, so it telescopes.
LEMMA SampleBusy ==
    ASSUME TypeInv, ReportInv, BusyInv, NEW t \in SampleTimes, sample(t), now' = Larger(now, t),
           clock' = clock, device_depths' = device_depths
    PROVE  BusyInv'
<1> SUFFICES ASSUME clock.skew = 0 PROVE BusyInv'
  BY DEF BusyInv
<1>1. now \in Nat /\ last_sample_ns \in Nat /\ MaxTime \in Nat
  BY BlockAssumption DEF TypeInv
<1>2. t \in Nat /\ now <= t /\ now' = t
  BY <1>1 DEF SampleTimes, Larger
<1>3. PICK deep : /\ \A d \in Devs : d \in deep => device_depths[d] # None
                  /\ \A d \in Devs : SampledDevice(d, deep, t)
  BY <1>2, SampleDevices
<1>4. last_sample_ns' = t
  BY <1>2, SampleDevices
<1>5. ASSUME NEW d \in Devs
      PROVE  /\ reported'[d].busy = reported[d].busy + (IF d \in deep
                   THEN busy_delta(snapshot(device_depths[d], t), previous_depth[d]) ELSE 0)
             /\ previous_depth'[d] = IF d \in deep THEN snapshot(device_depths[d], t) ELSE previous_depth[d]
             /\ reported[d].busy \in Nat
  <2>1. SampledDevice(d, deep, t) /\ (d \in deep => device_depths[d] # None)
    BY <1>3
  <2>2. reported'[d].busy = reported[d].busy + (IF d \in deep
                   THEN busy_delta(snapshot(device_depths[d], t), previous_depth[d]) ELSE 0)
    <3>1. t \in Nat
      BY <1>2
    <3>. QED BY <2>1, <3>1, SampleStats
  <2>3. reported[d] \in Counters
    BY DEF TypeInv
  <2>. QED BY <2>1, <2>2, <2>3, CounterFields DEF SampledDevice
<1>6. ASSUME NEW d \in Devs, device_depths[d] = None
      PROVE  previous_depth'[d] = None /\ reported'[d].busy = 0
  BY <1>3, <1>5, <1>6 DEF BusyInv
<1>7. ASSUME NEW d \in Devs, device_depths[d] # None
      PROVE  /\ BusyDepth(device_depths[d], t, reported'[d].busy)
             /\ device_depths[d].first_seen_ns <= t
             /\ reported'[d].busy <= t - device_depths[d].first_seen_ns
             /\ IF previous_depth'[d] = None THEN reported'[d].busy = 0
                ELSE /\ previous_depth'[d].busy_ns = reported'[d].busy
                     /\ previous_depth'[d].first_seen_ns = device_depths[d].first_seen_ns
  <2>1. PICK dp, pb, pd : dp = device_depths[d] /\ pb = reported[d].busy /\ pd = previous_depth[d]
    OBVIOUS
  <2>2. /\ dp \in DeviceDepths /\ pb \in Nat
        /\ BusyDepth(dp, now, pb) /\ dp.first_seen_ns <= last_sample_ns
        /\ pb <= last_sample_ns - dp.first_seen_ns /\ last_sample_ns <= now
        /\ IF pd = None THEN pb = 0 ELSE pd.busy_ns = pb /\ pd.first_seen_ns = dp.first_seen_ns
    BY <1>5, <1>7, <2>1 DEF BusyInv, TypeInv
  <2>3. /\ dp.first_seen_ns \in Nat /\ dp.last_update_ns \in Nat /\ dp.busy_ns \in Nat /\ dp.inflight \in Nat
    BY <2>2 DEF DeviceDepths
  <2>4. CASE d \notin deep
    <3>1. reported'[d].busy = pb /\ previous_depth'[d] = pd
      BY <1>5, <2>1, <2>2, <2>4
    <3>2. BusyDepth(dp, t, pb)
      BY <1>1, <1>2, <2>2, BusyLater
    <3>3. dp.first_seen_ns <= t /\ pb <= t - dp.first_seen_ns
      BY <1>1, <1>2, <2>2, <2>3
    <3>. QED BY <2>1, <2>2, <3>1, <3>2, <3>3
  <2>5. CASE d \in deep
    <3>1. PICK sn : sn = snapshot(dp, t)
      OBVIOUS
    <3>2. dp.last_update_ns <= t
      BY <1>1, <1>2, <2>2, <2>3 DEF BusyDepth
    <3>3. /\ sn \in Snapshots /\ sn.first_seen_ns = dp.first_seen_ns
          /\ sn.busy_ns = dp.busy_ns + (IF dp.inflight > 0 THEN t - dp.last_update_ns ELSE 0)
      BY <1>2, <2>2, <3>1, <3>2, SnapshotFacts
    <3>4. PICK sb \in Nat : sb = sn.busy_ns
      BY <3>3 DEF Snapshots
    <3>5. pb <= sb
      BY <1>1, <1>2, <2>2, <2>3, <3>3, <3>4 DEF BusyDepth
    <3>6. pb + busy_delta(sn, pd) = sb
      <4>1. CASE pd = None
        BY <2>2, <3>4, <4>1 DEF busy_delta
      <4>2. CASE pd # None
        <5>1. busy_delta(sn, pd) = Less(sb, pb)
          BY <2>2, <3>3, <3>4, <4>2 DEF busy_delta
        <5>2. Less(sb, pb) = sb - pb
          BY <2>2, <3>5, LessFacts
        <5>. QED BY <2>2, <5>1, <5>2
      <4>. QED BY <4>1, <4>2
    <3>7. reported'[d].busy = sb /\ previous_depth'[d] = sn
      BY <1>5, <2>1, <2>5, <3>1, <3>6
    <3>8. sb <= t - dp.first_seen_ns /\ dp.first_seen_ns <= t
      BY <1>1, <1>2, <2>2, <2>3, <3>2, <3>3, <3>4 DEF BusyDepth
    <3>9. BusyDepth(dp, t, sb)
      BY <1>1, <1>2, <2>2, <2>3, <3>2, <3>3, <3>4 DEF BusyDepth
    <3>10. sn # None
      BY <3>3, NoneAssumption
    <3>. QED BY <1>2, <2>1, <3>10, <3>3, <3>4, <3>7, <3>8, <3>9
  <2>. QED BY <2>4, <2>5
<1>. QED BY <1>2, <1>4, <1>6, <1>7 DEF BusyInv

-----------------------------------------------------------------------------
(* The invariant, step by step.                                             *)

\* The depth build() writes for each followed device.
LEMMA NewDepthFacts ==
    ASSUME NEW t \in Nat
    PROVE  /\ NewDepth(t) \in DeviceDepths /\ NewDepth(t) # None
           /\ NewDepth(t).queued = 0 /\ NewDepth(t).inflight = 0 /\ NewDepth(t).first_seen_ns = t
           /\ NewDepth(t).last_update_ns = t /\ NewDepth(t).busy_ns = 0
<1>1. NewDepth(t) \in DeviceDepths
  BY DEF NewDepth, DeviceDepths
<1>. QED BY <1>1, NoneAssumption DEF NewDepth

\* With no entries nothing is queued or issued.
LEMMA NothingQueued ==
    ASSUME NEW rq, \A r \in Requests : rq[r] = None, NEW d
    PROVE  /\ Cardinality(Queued(rq, d)) = 0 /\ Cardinality(Issued(rq, d)) = 0
           /\ IsFiniteSet(Kept(rq)) /\ Cardinality(Kept(rq)) = 0
<1>1. Queued(rq, d) = {} /\ Issued(rq, d) = {} /\ Kept(rq) = {}
  BY DEF Queued, Issued, Kept
<1>. QED BY <1>1, FS_EmptySet

\* The invariant holds at the start,
LEMMA InitInv == Init => BlockInv
<1> SUFFICES ASSUME Init PROVE BlockInv
  OBVIOUS
<1>1. PICK busy \in SUBSET Requests, op \in Ops, len \in Lens :
          blk = [r \in Requests |-> [st |-> IF r \in busy THEN "driver" ELSE "free",
                                     op |-> op, len |-> IF r \in busy THEN len ELSE 0, at |-> 0]]
  BY DEF Init
<1>2. len \in Nat /\ len > 0
  BY BlockAssumption
<1>3. blk \in [Requests -> BlkRecords]
  BY <1>1, <1>2 DEF BlkRecords
<1>4. \A r \in Requests : blk[r].st # "free" => blk[r].len > 0
  BY <1>1, <1>2
<1>5. /\ \A r \in Requests : requests[r] = None
      /\ \A d \in Devs : /\ device_stats[d] = None /\ device_depths[d] = None
                         /\ previous_stats[d] = None /\ previous_depth[d] = None
      /\ phase = "config" /\ cfg \in Configs /\ now = 1 /\ last_sample_ns = 0
  BY DEF Init
<1>6. PICK z : z = [op2 \in Ops |-> [bytes |-> 0, operations |-> 0, errors |-> 0]]
  OBVIOUS
<1>7. z \in [Ops -> OpCounts] /\ \A o \in Ops : z[o].bytes = 0 /\ z[o].operations = 0
  BY <1>6 DEF OpCounts
<1>8. reported = [d \in Devs |-> [operations |-> z, requeues |-> 0, lost_requests |-> 0,
                                  timeline_drops |-> 0, busy |-> 0]]
  BY <1>6 DEF Init
<1>9. /\ reported \in [Devs -> Counters]
      /\ \A d \in Devs : /\ reported[d].operations = z /\ reported[d].requeues = 0
                         /\ reported[d].lost_requests = 0 /\ reported[d].timeline_drops = 0
                         /\ reported[d].busy = 0
  BY <1>7, <1>8 DEF Counters
<1>10. finished \in [Devs -> [Ops -> Nat]] /\ \A d \in Devs, o \in Ops : finished[d][o] = 0
  BY DEF Init
<1>11. unseen \in BOOLEAN
  BY DEF Init
<1>12. TypeInv
  <2>1. /\ phase \in {"config", "running", "failed", "flushed"}
        /\ cfg \in Configs /\ clock \in Clocks
        /\ now \in Nat /\ hits \in Nat /\ last_sample_ns \in Nat
        /\ requests \in [Requests -> RequestStates \cup {None}]
        /\ device_stats \in [Devs -> DeviceStats \cup {None}]
        /\ device_depths \in [Devs -> DeviceDepths \cup {None}]
        /\ previous_stats \in [Devs -> DeviceStats \cup {None}]
        /\ previous_depth \in [Devs -> Snapshots \cup {None}]
    BY DEF Init
  <2>. QED BY <1>3, <1>9, <1>10, <1>11, <2>1 DEF TypeInv
<1>13. OwnDevice /\ Followed /\ Blank
  BY <1>5, <1>9, <1>10 DEF OwnDevice, Followed, Blank
<1>14. KeptOK(requests, cfg.max_requests)
  BY <1>5, NothingQueued, BlockAssumption DEF KeptOK
<1>15. DepthsOK(requests, device_depths, clock.strict)
  BY <1>5 DEF DepthsOK
<1>16. SeenInv
  <2>1. ~unseen => \A r \in Requests : blk[r].st = "free"
    BY DEF Init
  <2>. QED BY <1>4, <1>5, <2>1 DEF SeenInv, RequestSeen
<1>17. BusyInv
  BY <1>5, <1>9 DEF BusyInv
<1>18. ReportInv
  <2>1. ASSUME NEW d \in Devs PROVE Shown(cfg, reported[d], ZeroStats(0))
    <3>1. cfg.operations \subseteq Ops
      BY <1>5, BlockAssumption
    <3>. QED BY <1>7, <1>9, <3>1 DEF Shown, ZeroStats, ZeroOp
  <2>. QED BY <1>5, <2>1 DEF ReportInv
<1>19. OperationsInv
  <2>1. Stats(device_stats) = {}
    BY <1>5 DEF Stats
  <2>2. cfg.operations \subseteq Ops
    BY <1>5, BlockAssumption
  <2>. QED BY <1>5, <1>10, <2>1, <2>2, FS_EmptySet DEF OperationsInv
<1>. QED BY <1>12, <1>13, <1>14, <1>15, <1>16, <1>17, <1>18, <1>19 DEF BlockInv

\* is kept by every tracepoint handler,
LEMMA HandlerInv ==
    ASSUME BlockInv, NEW r \in Requests,
           RqInsert(r) \/ RqMerge(r) \/ RqIssue(r) \/ RqRequeue(r) \/ RqComplete(r)
    PROVE  BlockInv'
<1>1. /\ TypeInv /\ OwnDevice /\ Followed /\ KeptOK(requests, cfg.max_requests)
      /\ DepthsOK(requests, device_depths, clock.strict)
      /\ SeenInv /\ BusyInv /\ ReportInv /\ OperationsInv
  BY DEF BlockInv
<1>2. HitFrame
  BY <1>1, HandlerEvent
<1>3. PICK x, b, q, i, t : Event(r, x, b, q, i, t)
  BY <1>1, HandlerEvent
<1>4. PICK op, k : k \in Nat /\ StatsEvent(r, op, k)
  BY <1>1, HandlerStats
<1>5. /\ blk' \in [Requests -> BlkRecords] /\ requests' \in [Requests -> RequestStates \cup {None}]
      /\ device_depths' \in [Devs -> DeviceDepths \cup {None}]
      /\ now' \in Nat /\ unseen' \in BOOLEAN
      /\ cfg' = cfg /\ clock' = clock /\ phase' = phase /\ phase = "running"
  BY <1>1, <1>2, <1>3, EventTypes
<1>6. device_stats' \in [Devs -> DeviceStats \cup {None}] /\ finished' \in [Devs -> [Ops -> Nat]]
  <2>1. device_stats' \in StatMaps /\ finished' \in [Devs -> [Ops -> Nat]]
    BY <1>4, ZenonT(60) DEF StatsEvent, Grow
  <2>. QED BY <2>1 DEF StatMaps
<1>7. hits' = hits + 1
  BY DEF RqInsert, RqMerge, RqIssue, RqRequeue, RqComplete, Hit
<1>8. TypeInv'
  <2>1. /\ last_sample_ns' = last_sample_ns /\ previous_stats' = previous_stats
        /\ previous_depth' = previous_depth /\ reported' = reported
    BY <1>2 DEF HitFrame, sampler
  <2>2. hits' \in Nat
    BY <1>1, <1>7 DEF TypeInv
  <2>. QED BY <1>1, <1>5, <1>6, <2>1, <2>2 DEF TypeInv
<1>9. OwnDevice' /\ Followed'
  BY <1>1, <1>2, <1>3, EventOwn
<1>10. /\ KeptOK(requests, cfg.max_requests)'
       /\ DepthsOK(requests, device_depths, clock.strict)'
  BY <1>1, <1>2, <1>3, EventDepths
<1>11. SeenInv'
  BY <1>1, <1>2, <1>3, EventSeen
<1>12. BusyInv'
  BY <1>1, <1>2, <1>3, EventBusy
<1>13. ReportInv'
  BY <1>1, <1>2, <1>4, StatsEventReport
<1>14. OperationsInv'
  <2>1. unseen => unseen'
    BY <1>3 DEF Event
  <2>. QED BY <1>1, <1>2, <1>4, <2>1, StatsEventOperations
<1>15. Blank'
  BY <1>5 DEF Blank
<1>. QED BY <1>8, <1>9, <1>10, <1>11, <1>12, <1>13, <1>14, <1>15 DEF BlockInv

\* What depends only on the maps, the requests and the configuration.
LEMMA SameRequests ==
    ASSUME OwnDevice, Followed, KeptOK(requests, cfg.max_requests),
           DepthsOK(requests, device_depths, clock.strict), SeenInv,
           UNCHANGED <<cfg, clock, blk, requests, device_depths, unseen>>
    PROVE  /\ OwnDevice' /\ Followed' /\ KeptOK(requests, cfg.max_requests)'
           /\ DepthsOK(requests, device_depths, clock.strict)' /\ SeenInv'
<1>1. OwnDevice' /\ Followed'
  BY DEF OwnDevice, Followed, has_metric
<1>2. KeptOK(requests, cfg.max_requests)'
  BY DEF KeptOK, Kept
<1>3. DepthsOK(requests, device_depths, clock.strict)'
  BY DEF DepthsOK, Queued, Issued
<1>4. SeenInv'
  BY DEF SeenInv, RequestSeen, Tracked, request_tracking, should_track, has_metric
<1>. QED BY <1>1, <1>2, <1>3, <1>4

\* (a step that leaves the statistics alone,)
LEMMA SameOperations ==
    ASSUME OperationsInv, UNCHANGED <<cfg, device_stats, finished, unseen>>
    PROVE  OperationsInv'
BY DEF OperationsInv, Stats, Counting, request_tracking, operations_enabled, should_track, has_metric

\* by build(),
LEMMA BuildInv ==
    ASSUME BlockInv, build
    PROVE  BlockInv'
<1>1. /\ TypeInv /\ OwnDevice /\ Followed /\ Blank /\ KeptOK(requests, cfg.max_requests)
      /\ DepthsOK(requests, device_depths, clock.strict)
      /\ SeenInv /\ BusyInv /\ ReportInv /\ OperationsInv
  BY DEF BlockInv
<1>2. /\ phase = "config" /\ phase' \in {"running", "failed"} /\ last_sample_ns' = now
      /\ cfg' = cfg /\ clock' = clock /\ now' = now /\ hits' = hits /\ blk' = blk /\ requests' = requests
      /\ device_stats' = device_stats /\ previous_stats' = previous_stats
      /\ previous_depth' = previous_depth /\ reported' = reported
      /\ finished' = finished /\ unseen' = unseen
  BY DEF build, history
<1>3. /\ \A r \in Requests : requests[r] = None
      /\ \A d \in Devs : device_depths[d] = None /\ previous_depth[d] = None /\ reported[d].busy = 0
      /\ now \in Nat
  BY <1>1, <1>2 DEF Blank, TypeInv
<1>4. ASSUME NEW d \in Devs
      PROVE  \/ device_depths'[d] = None
             \/ device_depths'[d] = NewDepth(now) /\ has_metric(cfg, "saturation")
  BY <1>3 DEF build, depth_devices
<1>5. /\ NewDepth(now) \in DeviceDepths /\ NewDepth(now) # None
      /\ NewDepth(now).queued = 0 /\ NewDepth(now).inflight = 0 /\ NewDepth(now).first_seen_ns = now
      /\ NewDepth(now).last_update_ns = now /\ NewDepth(now).busy_ns = 0
  BY <1>3, NewDepthFacts
<1>6. device_depths' \in [Devs -> DeviceDepths \cup {None}]
  BY <1>1, <1>5 DEF build, TypeInv
<1>7. TypeInv'
  BY <1>1, <1>2, <1>6 DEF TypeInv
<1>8. OwnDevice' /\ Followed' /\ Blank'
  BY <1>1, <1>2, <1>3, <1>4 DEF OwnDevice, Followed, Blank, has_metric
<1>9. KeptOK(requests, cfg.max_requests)'
  BY <1>1, <1>2 DEF KeptOK, Kept
<1>10. DepthsOK(requests, device_depths, clock.strict)'
  <2>1. ASSUME NEW d \in Devs, device_depths'[d] # None
        PROVE  /\ device_depths'[d].queued = Cardinality(Queued(requests, d))
               /\ device_depths'[d].inflight = Cardinality(Issued(requests, d))
               /\ Cardinality(Issued(requests, d)) = 0
    BY <1>3, <1>4, <1>5, <2>1, NothingQueued
  <2>2. DepthsOK(requests, device_depths', clock.strict)
    BY <2>1 DEF DepthsOK
  <2>. QED BY <1>2, <2>2 DEF DepthsOK, Queued, Issued
<1>11. SeenInv'
  BY <1>1, <1>2 DEF SeenInv, RequestSeen, Tracked, request_tracking, should_track, has_metric
<1>12. BusyInv'
  <2>1. ASSUME NEW d \in Devs, device_depths'[d] # None
        PROVE  /\ BusyDepth(device_depths'[d], now, 0) /\ device_depths'[d].first_seen_ns = now
    BY <1>3, <1>4, <1>5, <2>1 DEF BusyDepth
  <2>. QED BY <1>2, <1>3, <2>1 DEF BusyInv
<1>13. ReportInv'
  BY <1>1, <1>2 DEF ReportInv
<1>14. OperationsInv'
  BY <1>1, <1>2, SameOperations
<1>. QED BY <1>7, <1>8, <1>9, <1>10, <1>11, <1>12, <1>13, <1>14 DEF BlockInv

\* (a sample is not taken before the last one,)
LEMMA SampleTimeFacts ==
    ASSUME TypeInv, NEW t \in SampleTimes, now' = Larger(now, t)
    PROVE  t \in Nat /\ now' \in Nat /\ now <= now'
<1>1. now \in Nat /\ last_sample_ns \in Nat /\ MaxTime \in Nat /\ clock.skew \in Nat
  BY BlockAssumption DEF TypeInv
<1>. QED BY <1>1 DEF SampleTimes, Larger

\* by consume(), with or without a sample,
LEMMA ConsumeInv ==
    ASSUME BlockInv, consume
    PROVE  BlockInv'
<1>1. /\ TypeInv /\ OwnDevice /\ Followed /\ Blank /\ KeptOK(requests, cfg.max_requests)
      /\ DepthsOK(requests, device_depths, clock.strict)
      /\ SeenInv /\ BusyInv /\ ReportInv /\ OperationsInv
  BY DEF BlockInv
<1>2. PICK t \in SampleTimes : now' = Larger(now, t) /\ (sample(t) \/ UNCHANGED <<sampler, window>>)
  BY DEF consume
<1>3. /\ phase = "running" /\ phase' = phase /\ cfg' = cfg /\ clock' = clock /\ hits' = hits /\ blk' = blk
      /\ requests' = requests /\ device_stats' = device_stats /\ device_depths' = device_depths
      /\ finished' = finished /\ unseen' = unseen
  BY DEF consume, config
<1>4. t \in Nat /\ now' \in Nat /\ now <= now'
  BY <1>1, <1>2, SampleTimeFacts
<1>5. /\ OwnDevice' /\ Followed' /\ KeptOK(requests, cfg.max_requests)'
      /\ DepthsOK(requests, device_depths, clock.strict)' /\ SeenInv'
  BY <1>1, <1>3, SameRequests
<1>6. OperationsInv' /\ Blank'
  BY <1>1, <1>3, SameOperations DEF Blank
<1>7. CASE sample(t)
  <2>1. /\ ReportInv'
        /\ reported' \in [Devs -> Counters] /\ previous_stats' \in [Devs -> DeviceStats \cup {None}]
        /\ previous_depth' \in [Devs -> Snapshots \cup {None}] /\ last_sample_ns' = t
    BY <1>1, <1>3, <1>4, <1>7, SampleReport
  <2>2. BusyInv'
    BY <1>1, <1>2, <1>3, <1>7, SampleBusy
  <2>3. TypeInv'
    BY <1>1, <1>3, <1>4, <2>1 DEF TypeInv
  <2>. QED BY <1>5, <1>6, <2>1, <2>2, <2>3 DEF BlockInv
<1>8. CASE UNCHANGED <<sampler, window>>
  <2>1. /\ last_sample_ns' = last_sample_ns /\ previous_stats' = previous_stats
        /\ previous_depth' = previous_depth /\ reported' = reported
    BY <1>8 DEF sampler
  <2>2. TypeInv'
    BY <1>1, <1>3, <1>4, <2>1 DEF TypeInv
  <2>3. ReportInv'
    BY <1>1, <1>3, <2>1 DEF ReportInv
  <2>4. BusyInv'
    <3>1. ASSUME clock.skew = 0, NEW d \in Devs, device_depths[d] # None
          PROVE  BusyDepth(device_depths[d], now', reported[d].busy)
      <4>1. PICK n, m, pb, dp : n = now /\ m = now' /\ pb = reported[d].busy /\ dp = device_depths[d]
        OBVIOUS
      <4>2. dp \in DeviceDepths /\ n \in Nat /\ m \in Nat /\ pb \in Nat /\ n <= m /\ BusyDepth(dp, n, pb)
        BY <1>1, <1>4, <3>1, <4>1, CounterFields DEF TypeInv, BusyInv
      <4>3. BusyDepth(dp, m, pb)
        BY <4>2, BusyLater
      <4>. QED BY <4>1, <4>3
    <3>2. clock.skew = 0 => last_sample_ns <= now'
      BY <1>1, <1>4 DEF BusyInv, TypeInv
    <3>. QED BY <1>1, <1>3, <2>1, <3>1, <3>2 DEF BusyInv
  <2>. QED BY <1>5, <1>6, <2>2, <2>3, <2>4 DEF BlockInv
<1>. QED BY <1>2, <1>7, <1>8

\* by flush(),
LEMMA FlushInv ==
    ASSUME BlockInv, flush
    PROVE  BlockInv'
<1>1. /\ TypeInv /\ OwnDevice /\ Followed /\ Blank /\ KeptOK(requests, cfg.max_requests)
      /\ DepthsOK(requests, device_depths, clock.strict)
      /\ SeenInv /\ BusyInv /\ ReportInv /\ OperationsInv
  BY DEF BlockInv
<1>2. PICK t \in SampleTimes : now' = Larger(now, t) /\ sample(t)
  BY DEF flush
<1>3. /\ phase' = "flushed" /\ cfg' = cfg /\ clock' = clock /\ hits' = hits /\ blk' = blk
      /\ requests' = requests /\ device_stats' = device_stats /\ device_depths' = device_depths
      /\ finished' = finished /\ unseen' = unseen
  BY DEF flush
<1>4. t \in Nat /\ now' \in Nat /\ now <= now'
  BY <1>1, <1>2, SampleTimeFacts
<1>5. /\ OwnDevice' /\ Followed' /\ KeptOK(requests, cfg.max_requests)'
      /\ DepthsOK(requests, device_depths, clock.strict)' /\ SeenInv'
  BY <1>1, <1>3, SameRequests
<1>6. OperationsInv' /\ Blank'
  BY <1>1, <1>3, SameOperations DEF Blank
<1>7. /\ ReportInv'
      /\ reported' \in [Devs -> Counters] /\ previous_stats' \in [Devs -> DeviceStats \cup {None}]
      /\ previous_depth' \in [Devs -> Snapshots \cup {None}] /\ last_sample_ns' = t
  BY <1>1, <1>2, <1>3, <1>4, SampleReport
<1>8. BusyInv'
  BY <1>1, <1>2, <1>3, SampleBusy
<1>9. TypeInv'
  BY <1>1, <1>3, <1>4, <1>7 DEF TypeInv
<1>. QED BY <1>5, <1>6, <1>7, <1>8, <1>9 DEF BlockInv

\* and by a step of something else;
LEMMA StutterInv ==
    ASSUME BlockInv, UNCHANGED vars
    PROVE  BlockInv'
<1>1. /\ TypeInv /\ OwnDevice /\ Followed /\ Blank /\ KeptOK(requests, cfg.max_requests)
      /\ DepthsOK(requests, device_depths, clock.strict)
      /\ SeenInv /\ BusyInv /\ ReportInv /\ OperationsInv
  BY DEF BlockInv
<1>2. /\ phase' = phase /\ cfg' = cfg /\ clock' = clock /\ now' = now /\ hits' = hits /\ blk' = blk
      /\ requests' = requests /\ device_stats' = device_stats /\ device_depths' = device_depths
      /\ last_sample_ns' = last_sample_ns /\ previous_stats' = previous_stats
      /\ previous_depth' = previous_depth /\ reported' = reported
      /\ finished' = finished /\ unseen' = unseen
  BY DEF vars, config, kernel, sampler, history
<1>3. /\ OwnDevice' /\ Followed' /\ KeptOK(requests, cfg.max_requests)'
      /\ DepthsOK(requests, device_depths, clock.strict)' /\ SeenInv'
  BY <1>1, <1>2, SameRequests
<1>4. OperationsInv'
  BY <1>1, <1>2, SameOperations
<1>5. TypeInv' /\ Blank' /\ BusyInv' /\ ReportInv'
  BY <1>1, <1>2 DEF TypeInv, Blank, BusyInv, ReportInv
<1>. QED BY <1>3, <1>4, <1>5 DEF BlockInv

\* so it holds in every state.
LEMMA BlockInvariant == Spec => []BlockInv
<1>1. Init => BlockInv
  BY InitInv
<1>2. BlockInv /\ [Next]_vars => BlockInv'
  BY HandlerInv, BuildInv, ConsumeInv, FlushInv, StutterInv DEF Next
<1>. QED BY <1>1, <1>2, PTL DEF Spec

-----------------------------------------------------------------------------
(* The latency histogram: shifts and running sums.                          *)

\* A set of naturals has a least element,
LEMMA LeastNat ==
    ASSUME NEW T, T \subseteq Nat, T # {}
    PROVE  \E x \in T : \A y \in T : x <= y
<1>1. \A U : U \subseteq Nat /\ U # {} => \E x \in U : \A y \in U : ~ (<<y, x>> \in OpToRel(<, Nat))
  BY NatLessThanWellFounded, WFMin
<1>2. PICK x \in T : \A y \in T : ~ (<<y, x>> \in OpToRel(<, Nat))
  BY <1>1
<1>3. ASSUME NEW y \in T PROVE x <= y
  <2>1. x \in Nat /\ y \in Nat /\ ~ (<<y, x>> \in OpToRel(<, Nat))
    BY <1>2
  <2>. QED BY <2>1 DEF OpToRel
<1>. QED BY <1>3

\* so a set that is closed under successor holds them all.
LEMMA NatSetInduction ==
    ASSUME NEW P, 0 \in P, \A n \in Nat : n \in P => n + 1 \in P
    PROVE  Nat \subseteq P
<1> SUFFICES ASSUME Nat \ P # {} PROVE FALSE
  OBVIOUS
<1>1. PICK m \in Nat \ P : \A y \in Nat \ P : m <= y
  <2>1. Nat \ P \subseteq Nat
    OBVIOUS
  <2>. QED BY <2>1, LeastNat
<1>2. m \in Nat /\ m # 0
  BY <1>1
<1>3. m - 1 \in Nat /\ ~(m <= m - 1) /\ (m - 1) + 1 = m
  BY <1>2
<1>4. m - 1 \in P
  BY <1>1, <1>3
<1>. QED BY <1>1, <1>3, <1>4

\* A function on 0 .. N may be given by its value at 0 and the step to the next.
LEMMA Recursion ==
    ASSUME NEW z \in Nat, NEW F \in [Nat -> [Nat -> Nat]], NEW N \in Nat
    PROVE  \E g \in [0 .. N -> Nat] : g = [k \in 0 .. N |-> IF k = 0 THEN z ELSE F[k][g[k - 1]]]
<1> DEFINE Rec(g, n) == g[0] = z /\ \A k \in 1 .. n : g[k] = F[k][g[k - 1]]
           P == {n \in Nat : \E g \in [0 .. n -> Nat] : Rec(g, n)}
<1>1. 0 \in P
  <2>1. PICK g : g = [k \in 0 .. 0 |-> z]
    OBVIOUS
  <2>2. g \in [0 .. 0 -> Nat] /\ Rec(g, 0)
    BY <2>1
  <2>. QED BY <2>2
<1>2. ASSUME NEW n \in Nat, n \in P PROVE n + 1 \in P
  <2>1. PICK g \in [0 .. n -> Nat] : Rec(g, n)
    BY <1>2
  <2>2. PICK v \in Nat : v = F[n + 1][g[n]]
    <3>1. n + 1 \in Nat /\ g[n] \in Nat
      OBVIOUS
    <3>. QED BY <3>1
  <2>3. PICK h : h = [k \in 0 .. n + 1 |-> IF k <= n THEN g[k] ELSE v]
    OBVIOUS
  <2>5. /\ \A k \in 0 .. n : k \in 0 .. n + 1 /\ k <= n
        /\ n + 1 \in 0 .. n + 1 /\ ~(n + 1 <= n) /\ 0 \in 0 .. n
        /\ \A k \in 0 .. n + 1 : k \in 0 .. n \/ k = n + 1
    <3>1. \A k \in 0 .. n : k \in 0 .. n + 1 /\ k <= n
      OBVIOUS
    <3>2. n + 1 \in 0 .. n + 1 /\ ~(n + 1 <= n) /\ 0 \in 0 .. n
      OBVIOUS
    <3>3. ASSUME NEW k \in 0 .. n + 1 PROVE k \in 0 .. n \/ k = n + 1
      OBVIOUS
    <3>. QED BY <3>1, <3>2, <3>3
  <2>7. (\A k \in 0 .. n : h[k] = g[k]) /\ h[n + 1] = v
    BY <2>3, <2>5
  <2>4. h \in [0 .. n + 1 -> Nat] /\ h[0] = z
    <3>3. \A k \in 0 .. n : g[k] \in Nat
      OBVIOUS
    <3>1. \A k \in 0 .. n + 1 : h[k] \in Nat
      BY <2>5, <2>7, <3>3, Zenon
    <3>2. h = [k \in 0 .. n + 1 |-> h[k]]
      BY <2>3, Zenon
    <3>. QED BY <2>1, <2>5, <2>7, <3>1, <3>2
  <2>6. ASSUME NEW k \in 1 .. n + 1 PROVE h[k] = F[k][h[k - 1]]
    <3>1. CASE k = n + 1
      <4>1. k - 1 = n /\ h[n] = g[n]
        BY <2>7, <3>1
      <4>. QED BY <2>2, <2>7, <3>1, <4>1
    <3>2. CASE k # n + 1
      <4>1. k \in 1 .. n /\ k \in 0 .. n /\ k - 1 \in 0 .. n
        BY <3>2
      <4>. QED BY <2>1, <2>7, <4>1
    <3>. QED BY <3>1, <3>2
  <2>8. Rec(h, n + 1)
    BY <2>4, <2>6
  <2>. HIDE DEF Rec
  <2>9. \E f \in [0 .. n + 1 -> Nat] : Rec(f, n + 1)
    BY <2>4, <2>8, Zenon
  <2>10. n + 1 \in Nat
    OBVIOUS
  <2>. QED BY <2>9, <2>10, Zenon
<1>. HIDE DEF P
<1>3. N \in P
  BY <1>1, <1>2, NatSetInduction
<1>4. PICK g \in [0 .. N -> Nat] : Rec(g, N)
  BY <1>3 DEF P
<1>5. \A k \in 0 .. N : g[k] = IF k = 0 THEN z ELSE F[k][g[k - 1]]
  <2> SUFFICES ASSUME NEW k \in 0 .. N PROVE g[k] = IF k = 0 THEN z ELSE F[k][g[k - 1]]
    OBVIOUS
  <2>1. CASE k = 0
    BY <1>4, <2>1
  <2>2. CASE k # 0
    <3>1. k \in 1 .. N
      BY <2>2
    <3>. QED BY <1>4, <2>2, <3>1
  <2>. QED BY <2>1, <2>2
<1>6. g = [k \in 0 .. N |-> IF k = 0 THEN z ELSE F[k][g[k - 1]]]
  BY <1>5
<1>. QED BY <1>6

\* The shifts: 1 << 0 is 1 and each further one doubles.
LEMMA BitFacts ==
    /\ Bit \in [0 .. HISTOGRAM_BUCKETS -> Nat] /\ Bit[0] = 1
    /\ \A k \in 1 .. HISTOGRAM_BUCKETS : Bit[k] = 2 * Bit[k - 1]
<1>1. HISTOGRAM_BUCKETS \in Nat
  BY BlockAssumption
<1>2. PICK F : F = [k \in Nat |-> [x \in Nat |-> 2 * x]]
  OBVIOUS
<1>3. F \in [Nat -> [Nat -> Nat]] /\ \A k \in Nat, x \in Nat : F[k][x] = 2 * x
  BY <1>2
<1>4. PICK g \in [0 .. HISTOGRAM_BUCKETS -> Nat] :
          g = [k \in 0 .. HISTOGRAM_BUCKETS |-> IF k = 0 THEN 1 ELSE F[k][g[k - 1]]]
  <2>1. 1 \in Nat
    OBVIOUS
  <2>. QED BY <1>1, <1>3, <2>1, Recursion, Zenon
<1>5. ASSUME NEW k \in 0 .. HISTOGRAM_BUCKETS, k # 0 PROVE F[k][g[k - 1]] = 2 * g[k - 1]
  <2>1. k \in Nat /\ k - 1 \in 0 .. HISTOGRAM_BUCKETS
    BY <1>1, <1>5
  <2>2. g[k - 1] \in Nat
    BY <2>1
  <2>. QED BY <1>3, <2>1, <2>2
<1>6. \A k \in 0 .. HISTOGRAM_BUCKETS : g[k] = IF k = 0 THEN 1 ELSE 2 * g[k - 1]
  BY <1>4, <1>5
<1>7. g = [k \in 0 .. HISTOGRAM_BUCKETS |-> IF k = 0 THEN 1 ELSE 2 * g[k - 1]]
  BY <1>6
<1>8. Bit = [k \in 0 .. HISTOGRAM_BUCKETS |-> IF k = 0 THEN 1 ELSE 2 * Bit[k - 1]]
  BY <1>7, Zenon DEF Bit
<1>9. Bit[0] = 1 /\ \A k \in 1 .. HISTOGRAM_BUCKETS : Bit[k] = 2 * Bit[k - 1]
  BY <1>1, <1>8
<1> DEFINE P == {n \in Nat : n <= HISTOGRAM_BUCKETS => Bit[n] \in Nat}
<1>10. 0 \in P
  BY <1>9
<1>11. ASSUME NEW n \in Nat, n \in P PROVE n + 1 \in P
  <2> SUFFICES ASSUME n + 1 <= HISTOGRAM_BUCKETS PROVE Bit[n + 1] \in Nat
    OBVIOUS
  <2>1. Bit[n] \in Nat /\ n + 1 \in 1 .. HISTOGRAM_BUCKETS /\ (n + 1) - 1 = n
    BY <1>1, <1>11
  <2>. QED BY <1>9, <2>1
<1>. HIDE DEF P
<1>12. Nat \subseteq P
  BY <1>10, <1>11, NatSetInduction
<1>13. \A k \in 0 .. HISTOGRAM_BUCKETS : Bit[k] \in Nat
  BY <1>1, <1>12 DEF P
<1>. QED BY <1>8, <1>9, <1>13

\* A larger shift gives a larger number.
LEMMA BitOrder ==
    ASSUME NEW i \in 0 .. HISTOGRAM_BUCKETS, NEW j \in 0 .. HISTOGRAM_BUCKETS, i <= j
    PROVE  Bit[i] <= Bit[j] /\ Bit[i] >= 1 /\ Bit[i] \in Nat /\ Bit[j] \in Nat
<1>1. HISTOGRAM_BUCKETS \in Nat /\ i \in Nat /\ j \in Nat
  BY BlockAssumption
<1>2. \A k \in 0 .. HISTOGRAM_BUCKETS : Bit[k] \in Nat
  BY BitFacts
<1> DEFINE P == {n \in Nat : n <= HISTOGRAM_BUCKETS =>
                               Bit[n] >= 1 /\ \A m \in 0 .. n : Bit[m] <= Bit[n]}
<1>3. 0 \in P
  BY BitFacts
<1>4. ASSUME NEW n \in Nat, n \in P PROVE n + 1 \in P
  <2> SUFFICES ASSUME n + 1 <= HISTOGRAM_BUCKETS
               PROVE  Bit[n + 1] >= 1 /\ \A m \in 0 .. n + 1 : Bit[m] <= Bit[n + 1]
    OBVIOUS
  <2>1. n + 1 \in 1 .. HISTOGRAM_BUCKETS /\ (n + 1) - 1 = n /\ n \in 0 .. HISTOGRAM_BUCKETS
    BY <1>1
  <2>2. Bit[n] \in Nat /\ Bit[n] >= 1 /\ Bit[n + 1] = 2 * Bit[n]
    BY <1>1, <1>2, <1>4, <2>1, BitFacts
  <2>3. ASSUME NEW m \in 0 .. n + 1 PROVE Bit[m] <= Bit[n + 1]
    <3>1. m \in 0 .. HISTOGRAM_BUCKETS /\ (m = n + 1 \/ m \in 0 .. n)
      BY <1>1
    <3>2. Bit[m] \in Nat /\ (m = n + 1 \/ Bit[m] <= Bit[n])
      BY <1>1, <1>2, <1>4, <3>1
    <3>. QED BY <2>2, <3>2
  <2>. QED BY <2>2, <2>3
<1>. HIDE DEF P
<1>5. i \in P /\ j \in P
  BY <1>1, <1>3, <1>4, NatSetInduction
<1>. QED BY <1>1, <1>2, <1>5 DEF P

\* The running sums of the loop in histogram_percentile().
LEMMA CumulativeFacts ==
    ASSUME NEW h \in [Buckets -> Nat], NEW u, u = cumulative(h)
    PROVE  /\ \A b \in Buckets : u[b] \in Nat
           /\ u[0] = h[0]
           /\ \A b \in Buckets : b # 0 => b - 1 \in Buckets /\ u[b] = h[b] + u[b - 1]
<1>1. HISTOGRAM_BUCKETS - 1 \in Nat /\ 0 \in Buckets /\ Buckets = 0 .. (HISTOGRAM_BUCKETS - 1)
  BY BlockAssumption DEF Buckets
<1>2. \A b \in Buckets : b \in Nat /\ (b # 0 => b - 1 \in Buckets)
  BY <1>1
<1>3. PICK N \in Nat : N = HISTOGRAM_BUCKETS - 1
  BY <1>1
<1>4. PICK F : F = [k \in Nat |-> [x \in Nat |-> (IF k \in Buckets THEN h[k] ELSE 0) + x]]
  OBVIOUS
<1>5. F \in [Nat -> [Nat -> Nat]] /\ \A k \in Buckets, x \in Nat : F[k][x] = h[k] + x
  BY <1>2, <1>4
<1>6. h[0] \in Nat
  BY <1>1
<1>7. PICK g \in [0 .. N -> Nat] : g = [k \in 0 .. N |-> IF k = 0 THEN h[0] ELSE F[k][g[k - 1]]]
  BY <1>5, <1>6, Recursion, ZenonT(60)
<1>8. g \in [Buckets -> Nat] /\ g = [k \in Buckets |-> IF k = 0 THEN h[0] ELSE F[k][g[k - 1]]]
  BY <1>1, <1>3, <1>7, Zenon
<1>9. ASSUME NEW b \in Buckets PROVE g[b] = h[b] + (IF b = 0 THEN 0 ELSE g[b - 1])
  <2>1. CASE b = 0
    BY <1>6, <1>8, <2>1
  <2>2. CASE b # 0
    <3>1. g[b] = F[b][g[b - 1]] /\ g[b - 1] \in Nat
      BY <1>2, <1>8, <2>2
    <3>. QED BY <1>5, <2>2, <3>1
  <2>. QED BY <2>1, <2>2
<1>10. g = [b \in Buckets |-> h[b] + (IF b = 0 THEN 0 ELSE g[b - 1])]
  BY <1>8, <1>9
<1>11. u = [b \in Buckets |-> h[b] + (IF b = 0 THEN 0 ELSE u[b - 1])]
  BY <1>10, Zenon DEF cumulative
<1>12. \A b \in Buckets : b # 0 => b - 1 \in Buckets /\ u[b] = h[b] + u[b - 1]
  BY <1>2, <1>11
<1>13. u[0] = h[0]
  BY <1>1, <1>6, <1>11
<1> DEFINE P == {n \in Nat : n \in Buckets => u[n] \in Nat}
<1>14. 0 \in P
  BY <1>6, <1>13
<1>15. ASSUME NEW n \in Nat, n \in P PROVE n + 1 \in P
  <2> SUFFICES ASSUME n + 1 \in Buckets PROVE u[n + 1] \in Nat
    OBVIOUS
  <2>1. n + 1 # 0 /\ (n + 1) - 1 = n
    OBVIOUS
  <2>2. n \in Buckets /\ u[n + 1] = h[n + 1] + u[n]
    BY <1>12, <2>1
  <2>3. u[n] \in Nat /\ h[n + 1] \in Nat
    BY <1>15, <2>2
  <2>. QED BY <2>2, <2>3
<1>. HIDE DEF P
<1>16. Nat \subseteq P
  BY <1>14, <1>15, NatSetInduction
<1>17. \A b \in Buckets : u[b] \in Nat
  BY <1>2, <1>16 DEF P
<1>. QED BY <1>12, <1>13, <1>17

\* latency_bucket() of a latency in microseconds.
MicroBucket(m) ==
    IF m <= 1 THEN 0
    ELSE IF m >= Bit[HISTOGRAM_BUCKETS - 1] THEN HISTOGRAM_BUCKETS - 1
    ELSE CHOOSE b \in Buckets : Bit[b] <= m /\ m < Bit[b + 1]

\* Bucket b holds the latencies from 1 << b up to 1 << (b + 1), except that the
\* first also has 0 and the last has no end.
LEMMA BucketFacts ==
    ASSUME NEW m \in Nat, NEW c, c = MicroBucket(m)
    PROVE  /\ c \in Buckets /\ c \in Nat /\ (c = 0 <=> m <= 1)
           /\ c # 0 => Bit[c] <= m
           /\ c # HISTOGRAM_BUCKETS - 1 => m < Bit[c + 1]
<1>1. /\ HISTOGRAM_BUCKETS \in Nat /\ HISTOGRAM_BUCKETS >= 2 /\ Buckets = 0 .. HISTOGRAM_BUCKETS - 1
      /\ 0 \in Buckets /\ HISTOGRAM_BUCKETS - 1 \in Buckets /\ HISTOGRAM_BUCKETS - 1 # 0
  BY BlockAssumption DEF Buckets
<1>2. \A b \in Buckets : /\ b \in Nat /\ b \in 0 .. HISTOGRAM_BUCKETS /\ b + 1 \in 1 .. HISTOGRAM_BUCKETS
                         /\ b + 1 \in 0 .. HISTOGRAM_BUCKETS /\ (b + 1) - 1 = b
  BY <1>1
<1>3. /\ \A b \in Buckets : Bit[b] \in Nat /\ Bit[b + 1] \in Nat /\ Bit[b + 1] = 2 * Bit[b]
      /\ Bit[0] = 1
  BY <1>2, BitFacts
<1>4. Bit[1] = 2
  BY <1>1, <1>3
<1>5. CASE m <= 1
  <2>1. c = 0
    BY <1>5 DEF MicroBucket
  <2>. QED BY <1>1, <1>4, <1>5, <2>1
<1>6. CASE m > 1 /\ m >= Bit[HISTOGRAM_BUCKETS - 1]
  <2>1. c = HISTOGRAM_BUCKETS - 1
    BY <1>6 DEF MicroBucket
  <2>. QED BY <1>1, <1>2, <1>6, <2>1
<1>7. CASE m > 1 /\ ~(m >= Bit[HISTOGRAM_BUCKETS - 1])
  <2>1. c = CHOOSE b \in Buckets : Bit[b] <= m /\ m < Bit[b + 1]
    BY <1>7 DEF MicroBucket
  <2>2. PICK T : T = {b \in Buckets : m < Bit[b]}
    OBVIOUS
  <2>3. T \subseteq Nat /\ HISTOGRAM_BUCKETS - 1 \in T
    BY <1>1, <1>2, <1>3, <1>7, <2>2
  <2>4. PICK x \in T : \A y \in T : x <= y
    BY <2>3, LeastNat
  <2>5. x \in Buckets /\ x \in Nat /\ m < Bit[x] /\ x # 0
    <3>1. x \in Buckets /\ m < Bit[x]
      BY <2>2, <2>4
    <3>2. x \in Nat
      BY <1>2, <3>1
    <3>3. x = 0 => m < 1
      BY <1>3, <3>1
    <3>. QED BY <1>7, <3>1, <3>2, <3>3
  <2>6. x - 1 \in Buckets /\ ~(x <= x - 1) /\ (x - 1) + 1 = x
    BY <1>1, <2>5
  <2>7. ~(m < Bit[x - 1]) /\ Bit[x - 1] \in Nat
    BY <1>3, <2>2, <2>4, <2>6
  <2>8. Bit[x - 1] <= m /\ m < Bit[(x - 1) + 1]
    BY <2>5, <2>6, <2>7
  <2>9. c \in Buckets /\ Bit[c] <= m /\ m < Bit[c + 1]
    BY <2>1, <2>6, <2>8, Zenon
  <2>10. c # 0
    BY <1>4, <1>7, <2>9
  <2>. QED BY <1>2, <1>7, <2>9, <2>10
<1>. QED BY <1>3, <1>5, <1>6, <1>7

\* A longer latency is in no lower bucket.
LEMMA BucketOrder ==
    ASSUME NEW m \in Nat, NEW n \in Nat, m <= n, NEW b, NEW c, b = MicroBucket(m), c = MicroBucket(n)
    PROVE  b <= c
<1>1. HISTOGRAM_BUCKETS \in Nat /\ Buckets = 0 .. HISTOGRAM_BUCKETS - 1
  BY BlockAssumption DEF Buckets
<1>2. /\ b \in Buckets /\ b \in Nat /\ (b # 0 => Bit[b] <= m)
      /\ c \in Buckets /\ c \in Nat /\ (c # HISTOGRAM_BUCKETS - 1 => n < Bit[c + 1])
  BY BucketFacts
<1> SUFFICES ASSUME ~(b <= c) PROVE FALSE
  OBVIOUS
<1>3. /\ b # 0 /\ c # HISTOGRAM_BUCKETS - 1 /\ c + 1 <= b
      /\ c + 1 \in 0 .. HISTOGRAM_BUCKETS /\ b \in 0 .. HISTOGRAM_BUCKETS
  BY <1>1, <1>2
<1>4. Bit[c + 1] <= Bit[b] /\ Bit[c + 1] \in Nat /\ Bit[b] \in Nat
  BY <1>3, BitOrder
<1>. QED BY <1>2, <1>3, <1>4

-----------------------------------------------------------------------------
(* What a percentile of the histogram says about the latencies in it.       *)

InBucket(w, b) == {k \in 1 .. Len(w) : MicroBucket(w[k]) = b}
UpToBucket(w, b) == {k \in 1 .. Len(w) : MicroBucket(w[k]) <= b}
AtMost(w, v) == {k \in DOMAIN w : w[k] <= v}

\* The histogram h holds the latencies in w.
Holds(h, w) == h \in [Buckets -> Nat] /\ \A b \in Buckets : h[b] = Cardinality(InBucket(w, b))

\* The indices of a sequence of latencies.
LEMMA WindowFacts ==
    ASSUME NEW w \in Seq(Nat)
    PROVE  /\ Len(w) \in Nat /\ DOMAIN w = 1 .. Len(w) /\ \A k \in 1 .. Len(w) : w[k] \in Nat
           /\ IsFiniteSet(1 .. Len(w)) /\ Cardinality(1 .. Len(w)) = Len(w)
           /\ \A S : S \subseteq 1 .. Len(w) => IsFiniteSet(S) /\ Cardinality(S) \in Nat
           /\ \A S, T : T \subseteq 1 .. Len(w) /\ S \subseteq T => Cardinality(S) <= Cardinality(T)
<1>1. Len(w) \in Nat /\ DOMAIN w = 1 .. Len(w) /\ \A k \in 1 .. Len(w) : w[k] \in Nat
  OBVIOUS
<1>2. PICK n \in Nat : n = Len(w)
  BY <1>1
<1>3. PICK one \in Int, m \in Int : one = 1 /\ m = n
  OBVIOUS
<1>4. IsFiniteSet(one .. m) /\ Cardinality(one .. m) = IF one > m THEN 0 ELSE m - one + 1
  BY FS_Interval
<1>5. IsFiniteSet(1 .. n) /\ Cardinality(1 .. n) = n
  BY <1>3, <1>4
<1>6. \A S : S \subseteq 1 .. n => IsFiniteSet(S) /\ Cardinality(S) \in Nat
  BY <1>5, FS_Subset, FS_CardinalityType
<1>7. \A S, T : T \subseteq 1 .. n /\ S \subseteq T => Cardinality(S) <= Cardinality(T)
  BY <1>6, FS_Subset
<1>. QED BY <1>1, <1>2, <1>5, <1>6, <1>7

\* The running sum over the histogram counts the latencies up to a bucket.
LEMMA CumulativeCounts ==
    ASSUME NEW w \in Seq(Nat), NEW h, Holds(h, w), NEW u, u = cumulative(h)
    PROVE  \A b \in Buckets : u[b] = Cardinality(UpToBucket(w, b))
<1>0. h \in [Buckets -> Nat] /\ \A b \in Buckets : h[b] = Cardinality(InBucket(w, b))
  BY DEF Holds
<1>1. /\ \A b \in Buckets : u[b] \in Nat
      /\ u[0] = h[0]
      /\ \A b \in Buckets : b # 0 => b - 1 \in Buckets /\ u[b] = h[b] + u[b - 1]
  BY <1>0, CumulativeFacts
<1>2. 0 \in Buckets /\ \A b \in Buckets : b \in Nat
  BY BlockAssumption DEF Buckets
<1>3. \A k \in 1 .. Len(w) : MicroBucket(w[k]) \in Nat
  BY WindowFacts, BucketFacts
<1> DEFINE P == {n \in Nat : n \in Buckets => u[n] = Cardinality(UpToBucket(w, n))}
<1>4. 0 \in P
  <2>1. UpToBucket(w, 0) = InBucket(w, 0)
    BY <1>3 DEF UpToBucket, InBucket
  <2>. QED BY <1>0, <1>1, <1>2, <2>1
<1>5. ASSUME NEW n \in Nat, n \in P PROVE n + 1 \in P
  <2> SUFFICES ASSUME n + 1 \in Buckets PROVE u[n + 1] = Cardinality(UpToBucket(w, n + 1))
    OBVIOUS
  <2>1. n + 1 # 0 /\ (n + 1) - 1 = n
    OBVIOUS
  <2>2. n \in Buckets /\ u[n + 1] = h[n + 1] + u[n]
    BY <1>1, <2>1
  <2>3. PICK A, B, C : A = InBucket(w, n + 1) /\ B = UpToBucket(w, n) /\ C = UpToBucket(w, n + 1)
    OBVIOUS
  <2>4. C = A \cup B /\ A \cap B = {}
    BY <1>3, <2>3 DEF UpToBucket, InBucket
  <2>5. A \subseteq 1 .. Len(w) /\ B \subseteq 1 .. Len(w)
    BY <2>3 DEF UpToBucket, InBucket
  <2>6. IsFiniteSet(A) /\ IsFiniteSet(B) /\ Cardinality(A) \in Nat /\ Cardinality(B) \in Nat
    BY <2>5, WindowFacts
  <2>7. Cardinality(C) = Cardinality(A) + Cardinality(B)
    <3>1. Cardinality(A \cup B) = Cardinality(A) + Cardinality(B) - Cardinality(A \cap B)
      BY <2>6, FS_Union
    <3>2. Cardinality(A \cap B) = 0
      BY <2>4, FS_EmptySet
    <3>. QED BY <2>4, <2>6, <3>1, <3>2
  <2>8. h[n + 1] = Cardinality(A) /\ u[n] = Cardinality(B)
    BY <1>0, <1>5, <2>2, <2>3
  <2>. QED BY <2>2, <2>3, <2>7, <2>8
<1>. HIDE DEF P
<1>6. Nat \subseteq P
  BY <1>4, <1>5, NatSetInduction
<1>. QED BY <1>2, <1>6 DEF P

\* Among some latencies there is a longest.
LEMMA Longest ==
    ASSUME NEW w \in Seq(Nat), NEW S, S \subseteq 1 .. Len(w), S # {}
    PROVE  \E i \in S : \A j \in S : w[j] <= w[i]
<1>1. Len(w) \in Nat /\ \A k \in 1 .. Len(w) : w[k] \in Nat
  BY WindowFacts
<1> DEFINE Max(A) == \E i \in A : \A j \in A : w[j] <= w[i]
           P == {n \in Nat : \A A : A \subseteq 1 .. n /\ A \subseteq S /\ A # {} => Max(A)}
<1>2. 0 \in P
  <2>1. \A A : A \subseteq 1 .. 0 => A = {}
    OBVIOUS
  <2>. QED BY <2>1
<1>3. ASSUME NEW n \in Nat, n \in P PROVE n + 1 \in P
  <2> SUFFICES ASSUME NEW A, A \subseteq 1 .. n + 1, A \subseteq S, A # {} PROVE Max(A)
    <3>1. n + 1 \in Nat
      OBVIOUS
    <3>. HIDE DEF Max
    <3>. QED BY <3>1, Zenon
  <2>1. PICK B : B = A \ {n + 1}
    OBVIOUS
  <2>2. B \subseteq 1 .. n /\ B \subseteq S
    BY <2>1
  <2>3. CASE B = {}
    <3>1. A = {n + 1} /\ n + 1 \in 1 .. Len(w)
      BY <2>1, <2>3
    <3>2. w[n + 1] \in Nat
      BY <1>1, <3>1
    <3>. QED BY <3>1, <3>2
  <2>4. CASE B # {}
    <3>1. PICK i \in B : \A j \in B : w[j] <= w[i]
      BY <1>3, <2>2, <2>4
    <3>2. \A j \in A : w[j] \in Nat /\ (j \in B \/ j = n + 1)
      BY <1>1, <2>1
    <3>3. i \in A /\ w[i] \in Nat
      BY <1>1, <2>1, <3>1
    <3>4. CASE n + 1 \in A /\ ~(w[n + 1] <= w[i])
      <4>1. \A j \in A : w[j] <= w[n + 1]
        BY <3>1, <3>2, <3>3, <3>4
      <4>. QED BY <3>4, <4>1
    <3>5. CASE ~(n + 1 \in A /\ ~(w[n + 1] <= w[i]))
      <4>1. \A j \in A : w[j] <= w[i]
        BY <3>1, <3>2, <3>5
      <4>. QED BY <3>3, <4>1
    <3>. QED BY <3>4, <3>5
  <2>. QED BY <2>3, <2>4
<1>. HIDE DEF P
<1>4. Len(w) \in P
  BY <1>1, <1>2, <1>3, NatSetInduction
<1>. QED BY <1>4 DEF P

\* The rank of a percentile is that of one of the latencies.
LEMMA Rank ==
    ASSUME NEW n \in Nat, n > 0, NEW q \in {50, 95, 99}
    PROVE  (n * q + 99) \div 100 \in 1 .. n
<1>1. CASE q = 50
  BY <1>1
<1>2. CASE q = 95
  BY <1>2
<1>3. CASE q = 99
  BY <1>3
<1>. QED BY <1>1, <1>2, <1>3

\* The loop of histogram_percentile() stops at the first bucket that reaches its target.
LEMMA FirstBucketFacts ==
    ASSUME NEW u, NEW target \in Nat, \A b \in Buckets : u[b] \in Nat, NEW c \in Buckets, u[c] >= target,
           NEW f, f = FirstBucket(u, target)
    PROVE  f \in Buckets /\ u[f] >= target /\ \A b \in Buckets : b < f => u[b] < target
<1>1. \A b \in Buckets : b \in Nat
  BY BlockAssumption DEF Buckets
<1>2. PICK T : T = {b \in Buckets : u[b] >= target}
  OBVIOUS
<1>3. PICK x \in T : \A y \in T : x <= y
  BY <1>1, <1>2, LeastNat
<1>4. x \in Buckets /\ u[x] >= target
  BY <1>2, <1>3
<1>5. ASSUME NEW b \in Buckets, b < x PROVE u[b] < target
  <2>1. b \notin T
    BY <1>1, <1>3, <1>4, <1>5
  <2>. QED BY <1>2, <2>1
<1>6. \E b \in Buckets : u[b] >= target /\ \A d \in Buckets : d < b => u[d] < target
  BY <1>4, <1>5, Zenon
<1>. QED BY <1>6, Zenon DEF FirstBucket

\* The true percentile is the least latency with enough of them at or below it.
LEMMA TrueFacts ==
    ASSUME NEW w \in Seq(Nat), w # <<>>, NEW q, NEW target, target = (Len(w) * q + 99) \div 100,
           target \in 1 .. Len(w), NEW v, v = TruePercentile(w, q)
    PROVE  /\ v \in Nat /\ Cardinality(AtMost(w, v)) >= target
           /\ \A i \in DOMAIN w : w[i] < v => Cardinality(AtMost(w, w[i])) < target
<1>1. /\ Len(w) \in Nat /\ DOMAIN w = 1 .. Len(w) /\ \A k \in 1 .. Len(w) : w[k] \in Nat
      /\ Cardinality(1 .. Len(w)) = Len(w)
  BY WindowFacts
<1>2. \A x : AtMost(w, x) \subseteq 1 .. Len(w) /\ Cardinality(AtMost(w, x)) \in Nat
  <2>1. \A x : AtMost(w, x) \subseteq 1 .. Len(w)
    BY <1>1 DEF AtMost
  <2>. QED BY <2>1, WindowFacts
<1>3. PICK T : T = {x \in {w[i] : i \in DOMAIN w} : Cardinality(AtMost(w, x)) >= target}
  OBVIOUS
<1>4. T \subseteq Nat
  BY <1>1, <1>3
<1>5. T # {}
  <2>1. PICK i \in 1 .. Len(w) : \A j \in 1 .. Len(w) : w[j] <= w[i]
    <3>1. 1 \in 1 .. Len(w)
      BY <1>1
    <3>. QED BY <3>1, Longest
  <2>2. AtMost(w, w[i]) = 1 .. Len(w)
    BY <1>1, <2>1 DEF AtMost
  <2>3. Cardinality(AtMost(w, w[i])) >= target
    BY <1>1, <2>2
  <2>. QED BY <1>1, <1>3, <2>3
<1>6. PICK x \in T : \A y \in T : x <= y
  BY <1>4, <1>5, LeastNat
<1>7. x \in {w[i] : i \in DOMAIN w} /\ Cardinality(AtMost(w, x)) >= target /\ x \in Nat
  BY <1>3, <1>4, <1>6
<1>8. ASSUME NEW i \in DOMAIN w, w[i] < x PROVE Cardinality(AtMost(w, w[i])) < target
  <2>1. w[i] \in Nat /\ ~(x <= w[i])
    BY <1>1, <1>7, <1>8
  <2>2. w[i] \notin T
    BY <1>6, <2>1
  <2>3. ~(Cardinality(AtMost(w, w[i])) >= target)
    BY <1>3, <2>2
  <2>. QED BY <1>1, <1>2, <2>3
<1> DEFINE Good(y) == /\ Cardinality(AtMost(w, y)) >= target
                      /\ \A i \in DOMAIN w : w[i] < y => Cardinality(AtMost(w, w[i])) < target
<1>9. Good(x)
  BY <1>7, <1>8
<1>10. v = CHOOSE y \in {w[i] : i \in DOMAIN w} : Good(y)
  BY ZenonT(60) DEF TruePercentile, AtMost
<1>. HIDE DEF Good
<1>11. v \in {w[i] : i \in DOMAIN w} /\ Good(v)
  BY <1>7, <1>9, <1>10, Zenon
<1>. QED BY <1>1, <1>11 DEF Good

\* What PercentileBound says of one percentile.
Bounds(shown, exact) ==
    /\ \/ exact <= shown
       \/ exact >= Bit[HISTOGRAM_BUCKETS] /\ shown = Bit[HISTOGRAM_BUCKETS]
    /\ exact > 1 => shown <= 2 * exact
    /\ exact <= 1 => shown <= 1

\* The bucket the loop stops at is that of the true percentile.
LEMMA PercentileBucket ==
    ASSUME NEW w \in Seq(Nat), w # <<>>, NEW h, Holds(h, w), NEW q,
           NEW target, target = (Len(w) * q + 99) \div 100, target \in 1 .. Len(w),
           NEW u, u = cumulative(h), NEW f, f = FirstBucket(u, target), NEW v, v = TruePercentile(w, q)
    PROVE  f = MicroBucket(v)
<1>1. \A b \in Buckets : u[b] = Cardinality(UpToBucket(w, b))
  BY CumulativeCounts
<1>2. /\ Len(w) \in Nat /\ DOMAIN w = 1 .. Len(w) /\ \A k \in 1 .. Len(w) : w[k] \in Nat
      /\ \A S : S \subseteq 1 .. Len(w) => IsFiniteSet(S) /\ Cardinality(S) \in Nat
      /\ \A S, T : T \subseteq 1 .. Len(w) /\ S \subseteq T => Cardinality(S) <= Cardinality(T)
  BY WindowFacts
<1>3. /\ v \in Nat /\ Cardinality(AtMost(w, v)) >= target
      /\ \A i \in DOMAIN w : w[i] < v => Cardinality(AtMost(w, w[i])) < target
  BY TrueFacts
<1>4. PICK c : c = MicroBucket(v)
  OBVIOUS
<1>5. c \in Buckets /\ c \in Nat /\ \A b \in Buckets : b \in Nat
  BY <1>3, <1>4, BucketFacts, BlockAssumption DEF Buckets
<1>6. \A x : /\ AtMost(w, x) \subseteq 1 .. Len(w) /\ UpToBucket(w, x) \subseteq 1 .. Len(w)
  BY <1>2 DEF AtMost, UpToBucket
<1>7. AtMost(w, v) \subseteq UpToBucket(w, c)
  BY <1>2, <1>3, <1>4, BucketOrder DEF AtMost, UpToBucket
<1>8. u[c] >= target
  <2>1. /\ Cardinality(AtMost(w, v)) \in Nat /\ Cardinality(UpToBucket(w, c)) \in Nat
        /\ Cardinality(AtMost(w, v)) <= Cardinality(UpToBucket(w, c))
    BY <1>2, <1>6, <1>7
  <2>. QED BY <1>1, <1>2, <1>3, <1>5, <2>1
<1>9. target \in Nat /\ \A b \in Buckets : u[b] \in Nat
  BY <1>1, <1>2, <1>6
<1>10. f \in Buckets /\ u[f] >= target /\ \A b \in Buckets : b < f => u[b] < target
  BY <1>5, <1>8, <1>9, FirstBucketFacts
<1>11. f \in Nat /\ f <= c
  BY <1>5, <1>8, <1>9, <1>10, SMTT(60)
<1>12. ASSUME f < c PROVE FALSE
  <2>1. PICK S : S = UpToBucket(w, f)
    OBVIOUS
  <2>2. S \subseteq 1 .. Len(w) /\ Cardinality(S) >= target
    BY <1>1, <1>6, <1>10, <2>1
  <2>3. S # {}
    BY <1>2, <2>2, FS_EmptySet
  <2>4. PICK i \in S : \A j \in S : w[j] <= w[i]
    BY <2>2, <2>3, Longest
  <2>5. i \in 1 .. Len(w) /\ w[i] \in Nat /\ MicroBucket(w[i]) <= f
    BY <1>2, <2>1, <2>2, <2>4 DEF UpToBucket
  <2>6. S \subseteq AtMost(w, w[i])
    BY <1>2, <2>2, <2>4 DEF AtMost
  <2>7. /\ Cardinality(S) \in Nat /\ Cardinality(AtMost(w, w[i])) \in Nat
        /\ Cardinality(S) <= Cardinality(AtMost(w, w[i]))
    BY <1>2, <1>6, <2>2, <2>6
  <2>8. ~(w[i] < v)
    <3>1. Cardinality(AtMost(w, w[i])) >= target
      BY <1>9, <2>2, <2>7
    <3>2. ~(Cardinality(AtMost(w, w[i])) < target)
      BY <1>9, <2>7, <3>1
    <3>. QED BY <1>2, <1>3, <2>5, <3>2, Zenon
  <2>9. v <= w[i]
    BY <1>3, <2>5, <2>8
  <2>10. PICK e : e = MicroBucket(w[i])
    OBVIOUS
  <2>11. c <= e /\ e \in Nat
    BY <1>3, <1>4, <2>5, <2>9, <2>10, BucketOrder, BucketFacts
  <2>. QED BY <1>5, <1>11, <1>12, <2>5, <2>10, <2>11
<1>. QED BY <1>4, <1>5, <1>11, <1>12

\* What histogram_percentile() shows bounds the true percentile.
LEMMA PercentileBounds ==
    ASSUME NEW w \in Seq(Nat), NEW h, Holds(h, w), NEW q \in {50, 95, 99}
    PROVE  Bounds(histogram_percentile(h, q), TruePercentile(w, q))
<1>1. PICK u : u = cumulative(h)
  OBVIOUS
<1>2. /\ Len(w) \in Nat /\ DOMAIN w = 1 .. Len(w) /\ \A k \in 1 .. Len(w) : w[k] \in Nat
      /\ Cardinality(1 .. Len(w)) = Len(w)
  BY WindowFacts
<1>3. PICK last : last = HISTOGRAM_BUCKETS - 1
  OBVIOUS
<1>4. /\ last \in Buckets /\ last \in Nat /\ last + 1 = HISTOGRAM_BUCKETS /\ HISTOGRAM_BUCKETS \in Nat
      /\ \A b \in Buckets : b \in Nat /\ b <= last
  BY <1>3, BlockAssumption DEF Buckets
<1>5. u[last] = Len(w)
  <2>1. \A k \in 1 .. Len(w) : MicroBucket(w[k]) <= last
    BY <1>2, <1>4, BucketFacts
  <2>2. UpToBucket(w, last) = 1 .. Len(w)
    BY <2>1 DEF UpToBucket
  <2>3. u[last] = Cardinality(UpToBucket(w, last))
    BY <1>1, <1>4, CumulativeCounts
  <2>. QED BY <1>2, <2>2, <2>3
<1>6. PICK shown, exact : shown = histogram_percentile(h, q) /\ exact = TruePercentile(w, q)
  OBVIOUS
<1>7. CASE w = <<>>
  <2>1. u[last] = 0
    BY <1>5, <1>7
  <2>2. shown = 0
    BY <1>1, <1>3, <1>6, <2>1 DEF histogram_percentile
  <2>3. exact = 0
    BY <1>6, <1>7 DEF TruePercentile
  <2>4. Bounds(shown, exact)
    BY <2>2, <2>3 DEF Bounds
  <2>. QED BY <1>6, <2>4
<1>8. CASE w # <<>>
  <2>1. Len(w) > 0
    BY <1>2, <1>8
  <2>2. PICK target : target = (Len(w) * q + 99) \div 100
    OBVIOUS
  <2>3. target \in 1 .. Len(w)
    BY <1>2, <2>1, <2>2, Rank
  <2>4. PICK f : f = FirstBucket(u, target)
    OBVIOUS
  <2>5. shown = IF f = 0 THEN 1 ELSE Bit[f + 1]
    <3>1. u[HISTOGRAM_BUCKETS - 1] = Len(w) /\ Len(w) # 0
      BY <1>2, <1>3, <1>5, <2>1
    <3>. QED BY <1>1, <1>6, <2>2, <2>4, <3>1 DEF histogram_percentile
  <2>6. f = MicroBucket(exact)
    BY <1>1, <1>6, <1>8, <2>2, <2>3, <2>4, PercentileBucket, SMTT(60)
  <2>7. exact \in Nat
    BY <1>6, <1>8, <2>2, <2>3, TrueFacts
  <2>8. /\ f \in Buckets /\ f \in Nat /\ (f = 0 <=> exact <= 1)
        /\ f # 0 => Bit[f] <= exact
        /\ f # last => exact < Bit[f + 1]
    BY <1>3, <2>6, <2>7, BucketFacts
  <2>9. CASE f = 0
    <3>1. shown = 1 /\ exact <= 1
      BY <2>5, <2>8, <2>9
    <3>2. Bounds(shown, exact)
      BY <2>7, <3>1 DEF Bounds
    <3>. QED BY <1>6, <3>2
  <2>10. CASE f # 0
    <3>1. shown = Bit[f + 1] /\ ~(exact <= 1) /\ Bit[f] <= exact
      BY <2>5, <2>8, <2>10
    <3>2. f + 1 \in 1 .. HISTOGRAM_BUCKETS /\ (f + 1) - 1 = f /\ f \in 0 .. HISTOGRAM_BUCKETS
      BY <1>4, <2>8
    <3>3. Bit[f] \in Nat /\ Bit[f + 1] = 2 * Bit[f]
      BY <3>2, BitFacts
    <3>4. shown \in Nat /\ shown <= 2 * exact
      BY <2>7, <3>1, <3>3
    <3>5. exact <= shown \/ (exact >= Bit[HISTOGRAM_BUCKETS] /\ shown = Bit[HISTOGRAM_BUCKETS])
      <4>1. CASE f = last
        <5>1. shown = Bit[HISTOGRAM_BUCKETS]
          BY <1>4, <3>1, <4>1
        <5>. QED BY <2>7, <3>4, <5>1
      <4>2. CASE f # last
        BY <2>7, <2>8, <3>1, <3>4, <4>2
      <4>. QED BY <4>1, <4>2
    <3>6. Bounds(shown, exact)
      BY <3>1, <3>4, <3>5 DEF Bounds
    <3>. QED BY <1>6, <3>6
  <2>. QED BY <2>9, <2>10
<1>. QED BY <1>7, <1>8

-----------------------------------------------------------------------------
(* The histograms of one device grow.                                       *)

HistOf(s, o, b) == IF s = None THEN 0 ELSE s.operations[o].total_histogram[b]

\* Bucket c of operation op rises by k, unless the map had no room for the device.
Fills(sts, nsts, d, op, c, k) ==
    nsts[d] # None => \A o \in Ops, b \in Buckets :
        HistOf(nsts[d], o, b) = HistOf(sts[d], o, b) + (IF o = op /\ b = c THEN k ELSE 0)

Filled(s, y, op, c, k) ==
    \A o \in Ops, b \in Buckets : y.operations[o].total_histogram[b]
        = s.operations[o].total_histogram[b] + (IF o = op /\ b = c THEN k ELSE 0)

LEMMA HistTypes ==
    ASSUME NEW s \in DeviceStats
    PROVE  \A o \in Ops : /\ s.operations[o].total_histogram \in [Buckets -> Nat]
                          /\ \A b \in Buckets : s.operations[o].total_histogram[b] \in Nat
<1>1. \A o \in Ops : s.operations[o] \in OperationStats
  BY StatFields
<1>2. \A o \in Ops : s.operations[o].total_histogram \in [Buckets -> Nat]
  BY <1>1 DEF OperationStats
<1>. QED BY <1>2

LEMMA HistOfType ==
    ASSUME NEW s \in DeviceStats \cup {None}, NEW o \in Ops, NEW b \in Buckets
    PROVE  HistOf(s, o, b) \in Nat
BY HistTypes DEF HistOf

LEMMA FillsNothing ==
    ASSUME NEW sts \in StatMaps, NEW d \in Devs, NEW op, NEW c
    PROVE  Fills(sts, sts, d, op, c, 0)
<1>1. sts[d] \in DeviceStats \cup {None}
  BY DEF StatMaps
<1>2. \A o \in Ops, b \in Buckets : HistOf(sts[d], o, b) \in Nat
  BY <1>1, HistOfType
<1>. QED BY <1>2 DEF Fills

\* Two updates of one device by the same handler, of which at most one adds a latency.
LEMMA FillsAround ==
    ASSUME NEW sts \in StatMaps, NEW mid, NEW nsts, NEW d \in Devs, NEW op, NEW c, NEW k \in Nat,
           NEW max, NEW p, NEW i, NEW q, NEW j,
           Grow(max, sts, mid, d, p, i), Grow(max, mid, nsts, d, q, j),
           \/ Fills(sts, mid, d, op, c, 0) /\ Fills(mid, nsts, d, op, c, k)
           \/ Fills(sts, mid, d, op, c, k) /\ Fills(mid, nsts, d, op, c, 0) /\ i # 0
    PROVE  Fills(sts, nsts, d, op, c, k)
<1> SUFFICES ASSUME nsts[d] # None, NEW o \in Ops, NEW b \in Buckets
             PROVE  HistOf(nsts[d], o, b) = HistOf(sts[d], o, b) + (IF o = op /\ b = c THEN k ELSE 0)
  BY DEF Fills
<1>1. mid \in StatMaps /\ (\A e \in Devs : e # d => mid[e] = sts[e]) /\ (mid[d] = None => sts[d] = None)
  BY DEF Grow
<1>2. sts[d] \in DeviceStats \cup {None} /\ mid[d] \in DeviceStats \cup {None}
  BY <1>1 DEF StatMaps
<1>3. HistOf(sts[d], o, b) \in Nat /\ HistOf(mid[d], o, b) \in Nat
  BY <1>2, HistOfType
<1>4. CASE mid[d] # None
  <2>1. \/ /\ HistOf(mid[d], o, b) = HistOf(sts[d], o, b) + 0
           /\ HistOf(nsts[d], o, b) = HistOf(mid[d], o, b) + (IF o = op /\ b = c THEN k ELSE 0)
        \/ /\ HistOf(mid[d], o, b) = HistOf(sts[d], o, b) + (IF o = op /\ b = c THEN k ELSE 0)
           /\ HistOf(nsts[d], o, b) = HistOf(mid[d], o, b) + 0
    BY <1>4 DEF Fills
  <2>. QED BY <1>3, <2>1
<1>5. CASE mid[d] = None
  <2>1. mid = sts
    BY <1>1, <1>5 DEF StatMaps
  <2>2. ~(i # 0)
    BY <1>1, <1>5, <2>1 DEF Grow
  <2>3. HistOf(nsts[d], o, b) = HistOf(mid[d], o, b) + (IF o = op /\ b = c THEN k ELSE 0)
    BY <2>2 DEF Fills
  <2>. QED BY <2>1, <2>3
<1>. QED BY <1>4, <1>5

\* An entry that get_device_stats() creates has an empty histogram.
LEMMA GotHist ==
    ASSUME NEW sts \in StatMaps, NEW d \in Devs, NEW t \in Nat, NEW got, IsGot(got, sts, d, t)
    PROVE  \A o \in Ops, b \in Buckets : HistOf(got[d], o, b) = HistOf(sts[d], o, b)
<1>1. \/ got = sts
      \/ sts[d] = None /\ got = [sts EXCEPT ![d] = ZeroStats(t)]
  BY DEF IsGot, get_device_stats
<1>2. CASE sts[d] = None /\ got = [sts EXCEPT ![d] = ZeroStats(t)]
  <2>1. got[d] = ZeroStats(t)
    BY <1>2 DEF StatMaps
  <2>2. \A o \in Ops, b \in Buckets : ZeroStats(t).operations[o].total_histogram[b] = 0
    BY DEF ZeroStats, ZeroOp
  <2>. QED BY <1>2, <2>1, <2>2 DEF HistOf
<1>. QED BY <1>1, <1>2

LEMMA BumpFills ==
    ASSUME NEW sts \in StatMaps, NEW d \in Devs, NEW t \in Nat, NEW op, NEW c, NEW k \in Nat, NEW got,
           NEW nsts, NEW y, IsGot(got, sts, d, t), Puts(nsts, got, d, y),
           got[d] \in DeviceStats => y \in DeviceStats /\ Filled(got[d], y, op, c, k)
    PROVE  Fills(sts, nsts, d, op, c, k)
<1>1. got \in StatMaps
  BY GetStats DEF IsGot, Grow
<1>2. CASE got[d] = None
  BY <1>2 DEF Fills, Puts
<1>3. CASE got[d] # None
  <2>1. got[d] \in DeviceStats
    BY <1>1, <1>3 DEF StatMaps
  <2>2. y \in DeviceStats /\ Filled(got[d], y, op, c, k) /\ y # None
    BY <2>1, StatFields
  <2>3. nsts[d] = y
    BY <1>1, <1>3 DEF Puts, StatMaps
  <2>4. \A o \in Ops, b \in Buckets :
            HistOf(nsts[d], o, b) = HistOf(got[d], o, b) + (IF o = op /\ b = c THEN k ELSE 0)
    BY <1>3, <2>2, <2>3 DEF Filled, HistOf
  <2>. QED BY <2>4, GotHist DEF Fills
<1>. QED BY <1>2, <1>3

\* The counters of the device itself leave the histograms alone,
LEMMA SameHist ==
    ASSUME NEW s \in DeviceStats, NEW op, NEW c, NEW n \in Nat, NEW y,
           \/ y = [s EXCEPT !.requeues = n]
           \/ y = [s EXCEPT !.lost_requests = n]
           \/ y = [s EXCEPT !.timeline_drops = n]
    PROVE  y \in DeviceStats /\ Filled(s, y, op, c, 0)
<1>1. y \in DeviceStats /\ y.operations = s.operations
  BY DEF DeviceStats
<1>. QED BY <1>1, HistTypes DEF Filled

\* and those of one operation add at most one latency.
LEMMA OperationHist ==
    ASSUME NEW s \in DeviceStats, NEW op \in Ops, NEW w \in OperationStats, NEW c, NEW k \in Nat, NEW y,
           \A b \in Buckets : w.total_histogram[b]
               = s.operations[op].total_histogram[b] + (IF b = c THEN k ELSE 0),
           y = [s EXCEPT !.operations = [s.operations EXCEPT ![op] = w]]
    PROVE  y \in DeviceStats /\ Filled(s, y, op, c, k)
<1>1. s.operations \in [Ops -> OperationStats]
  BY StatFields
<1>2. PICK f : f = [s.operations EXCEPT ![op] = w]
  OBVIOUS
<1>3. f \in [Ops -> OperationStats] /\ f[op] = w /\ \A o \in Ops : o # op => f[o] = s.operations[o]
  BY <1>1, <1>2
<1>4. y \in DeviceStats /\ y.operations = f
  BY <1>2, <1>3 DEF DeviceStats
<1>5. \A o \in Ops, b \in Buckets : s.operations[o].total_histogram[b] \in Nat
  BY HistTypes
<1>6. ASSUME NEW o \in Ops, NEW b \in Buckets
      PROVE  f[o].total_histogram[b]
               = s.operations[o].total_histogram[b] + (IF o = op /\ b = c THEN k ELSE 0)
  <2>1. CASE o = op
    BY <1>3, <2>1
  <2>2. CASE o # op
    BY <1>3, <1>5, <2>2
  <2>. QED BY <2>1, <2>2
<1>. QED BY <1>4, <1>6 DEF Filled

LEMMA LostFills ==
    ASSUME NEW sts \in StatMaps, NEW d \in Devs, NEW t \in Nat, NEW op, NEW c, NEW nsts,
           nsts = record_lost_request(sts, d, t)
    PROVE  Fills(sts, nsts, d, op, c, 0)
<1>1. PICK got : got = get_device_stats(sts, d, t)
  OBVIOUS
<1>2. CASE ~has_metric(cfg, "errors")
  <2>1. nsts = sts
    BY <1>2 DEF record_lost_request
  <2>. QED BY <2>1, FillsNothing
<1>3. CASE has_metric(cfg, "errors")
  <2>1. PICK y : y = [got[d] EXCEPT !.lost_requests = got[d].lost_requests + 1]
    OBVIOUS
  <2>2. nsts = IF got[d] = None THEN got ELSE [got EXCEPT ![d] = y]
    BY <1>1, <1>3, <2>1 DEF record_lost_request, Bump
  <2>3. IsGot(got, sts, d, t) /\ Puts(nsts, got, d, y)
    BY <1>1, <2>2 DEF IsGot, Puts
  <2>4. ASSUME got[d] \in DeviceStats PROVE y \in DeviceStats /\ Filled(got[d], y, op, c, 0)
    <3>1. PICK n \in Nat : n = got[d].lost_requests + 1
      BY <2>4, StatFields
    <3>. QED BY <2>1, <2>4, <3>1, SameHist
  <2>5. PICK z \in Nat : z = 0
    OBVIOUS
  <2>6. Fills(sts, nsts, d, op, c, z)
    BY <2>3, <2>4, <2>5, BumpFills
  <2>. QED BY <2>5, <2>6
<1>. QED BY <1>2, <1>3

LEMMA RequeueFills ==
    ASSUME NEW sts \in StatMaps, NEW d \in Devs, NEW t \in Nat, NEW op, NEW c, NEW nsts,
           nsts = LET Add(s) == [s EXCEPT !.requeues = @ + 1]
                  IN  IF has_metric(cfg, "errors") THEN Bump(sts, d, t, Add) ELSE sts
    PROVE  Fills(sts, nsts, d, op, c, 0)
<1>1. PICK got : got = get_device_stats(sts, d, t)
  OBVIOUS
<1>2. CASE ~has_metric(cfg, "errors")
  <2>1. nsts = sts
    BY <1>2
  <2>. QED BY <2>1, FillsNothing
<1>3. CASE has_metric(cfg, "errors")
  <2>1. PICK y : y = [got[d] EXCEPT !.requeues = got[d].requeues + 1]
    OBVIOUS
  <2>2. nsts = IF got[d] = None THEN got ELSE [got EXCEPT ![d] = y]
    BY <1>1, <1>3, <2>1 DEF Bump
  <2>3. IsGot(got, sts, d, t) /\ Puts(nsts, got, d, y)
    BY <1>1, <2>2 DEF IsGot, Puts
  <2>4. ASSUME got[d] \in DeviceStats PROVE y \in DeviceStats /\ Filled(got[d], y, op, c, 0)
    <3>1. PICK n \in Nat : n = got[d].requeues + 1
      BY <2>4, StatFields
    <3>. QED BY <2>1, <2>4, <3>1, SameHist
  <2>5. PICK z \in Nat : z = 0
    OBVIOUS
  <2>6. Fills(sts, nsts, d, op, c, z)
    BY <2>3, <2>4, <2>5, BumpFills
  <2>. QED BY <2>5, <2>6
<1>. QED BY <1>2, <1>3

LEMMA BytesFills ==
    ASSUME NEW sts \in StatMaps, NEW d \in Devs, NEW op \in Ops, NEW bytes \in Nat,
           NEW error \in BOOLEAN, NEW t \in Nat, NEW nsts, nsts = record_bytes(sts, d, op, bytes, error, t),
           NEW oo, NEW c
    PROVE  Fills(sts, nsts, d, oo, c, 0)
<1>1. PICK got : got = get_device_stats(sts, d, t)
  OBVIOUS
<1>2. CASE ~(has_metric(cfg, "throughput") \/ (error /\ has_metric(cfg, "errors")))
  <2>1. nsts = sts
    BY <1>2 DEF record_bytes
  <2>. QED BY <2>1, FillsNothing
<1>3. CASE has_metric(cfg, "throughput") \/ (error /\ has_metric(cfg, "errors"))
  <2>1. PICK s : s = got[d]
    OBVIOUS
  <2>2. PICK v, w : /\ v = [s.operations[op] EXCEPT !.bytes =
                              IF has_metric(cfg, "throughput") THEN s.operations[op].bytes + bytes
                              ELSE s.operations[op].bytes]
                    /\ w = [v EXCEPT !.errors = IF error /\ has_metric(cfg, "errors")
                                                THEN v.errors + 1 ELSE v.errors]
    OBVIOUS
  <2>3. PICK y : y = [s EXCEPT !.operations[op].bytes =
                               IF has_metric(cfg, "throughput") THEN @ + bytes ELSE @,
                            !.operations[op].errors =
                               IF error /\ has_metric(cfg, "errors") THEN @ + 1 ELSE @]
    OBVIOUS
  <2>4. nsts = IF got[d] = None THEN got ELSE [got EXCEPT ![d] = y]
    BY <1>1, <1>3, <2>1, <2>3 DEF record_bytes, Bump
  <2>5. IsGot(got, sts, d, t) /\ Puts(nsts, got, d, y)
    BY <1>1, <2>4 DEF IsGot, Puts
  <2>6. PICK z \in Nat : z = 0
    OBVIOUS
  <2>7. ASSUME s \in DeviceStats PROVE y \in DeviceStats /\ Filled(s, y, oo, c, z)
    <3>1. s.operations \in [Ops -> OperationStats] /\ s.operations[op] \in OperationStats
      BY <2>7, StatFields
    <3>2. PICK u : u = s.operations[op]
      OBVIOUS
    <3>3. u \in OperationStats /\ u.bytes \in Nat /\ u.errors \in Nat
      BY <3>1, <3>2 DEF OperationStats
    <3>4. PICK nb \in Nat, ne \in Nat :
              /\ nb = (IF has_metric(cfg, "throughput") THEN u.bytes + bytes ELSE u.bytes)
              /\ ne = (IF error /\ has_metric(cfg, "errors") THEN u.errors + 1 ELSE u.errors)
      BY <3>3
    <3>5. w = [u EXCEPT !.bytes = nb, !.errors = ne]
      BY <2>2, <3>2, <3>3, <3>4 DEF OperationStats
    <3>6. w \in OperationStats /\ w.total_histogram = u.total_histogram
      BY <3>3, <3>5 DEF OperationStats
    <3>7. y = [s EXCEPT !.operations = [s.operations EXCEPT ![op] = w]]
      BY <2>2, <2>3, <2>7, <3>1, ZenonT(60) DEF DeviceStats, OperationStats
    <3>8. \A b \in Buckets : w.total_histogram[b]
              = s.operations[op].total_histogram[b] + (IF b = c THEN z ELSE 0)
      BY <2>6, <2>7, <3>2, <3>6, HistTypes
    <3>9. y \in DeviceStats /\ Filled(s, y, op, c, z)
      BY <2>6, <2>7, <3>6, <3>7, <3>8, OperationHist
    <3>. QED BY <2>6, <3>9 DEF Filled
  <2>8. Fills(sts, nsts, d, oo, c, z)
    BY <2>1, <2>5, <2>6, <2>7, BumpFills
  <2>. QED BY <2>6, <2>8
<1>. QED BY <1>2, <1>3

\* record_completion() adds one latency to the bucket latency_bucket() names.
LEMMA CompletionFills ==
    ASSUME NEW sts \in StatMaps, NEW d \in Devs, NEW op \in Ops, NEW queue \in Nat, NEW service \in Nat,
           NEW total \in Nat, NEW t \in Nat, NEW k \in Nat, NEW c, NEW nsts,
           nsts = record_completion(sts, d, op, queue, service, total, t),
           k = IF has_metric(cfg, "latency") THEN 1 ELSE 0, c = latency_bucket(total), c \in Buckets
    PROVE  Fills(sts, nsts, d, op, c, k)
<1>1. PICK got : got = get_device_stats(sts, d, t)
  OBVIOUS
<1>2. CASE ~operations_enabled(cfg)
  <2>1. nsts = sts /\ k = 0
    BY <1>2 DEF record_completion, operations_enabled
  <2>. QED BY <2>1, FillsNothing
<1>3. CASE operations_enabled(cfg)
  <2>1. PICK s : s = got[d]
    OBVIOUS
  <2>3. PICK u, v : u = s.operations[op] /\ v = [u EXCEPT !.operations = u.operations + 1]
    OBVIOUS
  <2>4. PICK w : w = IF ~has_metric(cfg, "latency") THEN v
                     ELSE [v EXCEPT !.queue = v.queue + queue, !.service = v.service + service,
                                    !.total = v.total + total,
                                    !.total_histogram = [v.total_histogram EXCEPT
                                                           ![c] = v.total_histogram[c] + 1]]
    OBVIOUS
  <2>5. PICK y : y = [s EXCEPT !.operations = [s.operations EXCEPT ![op] = w]]
    OBVIOUS
  <2>10. nsts = IF got[d] = None THEN got ELSE [got EXCEPT ![d] = y]
    BY <1>1, <1>3, <2>1, <2>3, <2>4, <2>5 DEF record_completion, Bump
  <2>6. IsGot(got, sts, d, t) /\ Puts(nsts, got, d, y)
    BY <1>1, <2>10 DEF IsGot, Puts
  <2>7. ASSUME s \in DeviceStats PROVE y \in DeviceStats /\ Filled(s, y, op, c, k)
    <3>1. s.operations \in [Ops -> OperationStats]
      BY <2>7, StatFields
    <3>3. /\ u \in OperationStats /\ u.bytes \in Nat /\ u.operations \in Nat /\ u.queue \in Nat
          /\ u.service \in Nat /\ u.total \in Nat /\ u.total_histogram \in [Buckets -> Nat]
      BY <2>3, <3>1 DEF OperationStats
    <3>4. /\ v \in OperationStats /\ v.queue = u.queue /\ v.service = u.service /\ v.total = u.total
          /\ v.total_histogram = u.total_histogram
      BY <2>3, <3>3 DEF OperationStats
    <3>5. PICK h : h = [u.total_histogram EXCEPT ![c] = u.total_histogram[c] + 1]
      OBVIOUS
    <3>6. /\ h \in [Buckets -> Nat]
          /\ \A b \in Buckets : h[b] = u.total_histogram[b] + (IF b = c THEN 1 ELSE 0)
      BY <3>3, <3>5
    <3>7. PICK nq \in Nat, ns \in Nat, nt \in Nat :
              nq = v.queue + queue /\ ns = v.service + service /\ nt = v.total + total
      BY <3>3, <3>4
    <3>8. w \in OperationStats /\ \A b \in Buckets : w.total_histogram[b]
              = s.operations[op].total_histogram[b] + (IF b = c THEN k ELSE 0)
      <4>1. CASE ~has_metric(cfg, "latency")
        <5>1. k = 0 /\ w = v /\ \A b \in Buckets : u.total_histogram[b] \in Nat
          BY <2>4, <3>3, <4>1
        <5>. QED BY <2>3, <3>4, <5>1
      <4>2. CASE has_metric(cfg, "latency")
        <5>1. w = [v EXCEPT !.queue = nq, !.service = ns, !.total = nt, !.total_histogram = h]
          BY <2>4, <3>4, <3>5, <3>7, <4>2
        <5>2. w \in OperationStats /\ w.total_histogram = h
          BY <3>4, <3>6, <5>1 DEF OperationStats
        <5>. QED BY <2>3, <3>6, <4>2, <5>2
      <4>. QED BY <4>1, <4>2
    <3>. QED BY <2>5, <2>7, <3>8, OperationHist
  <2>8. Fills(sts, nsts, d, op, c, k)
    BY <2>1, <2>6, <2>7, BumpFills
  <2>. QED BY <2>8
<1>. QED BY <1>2, <1>3

LEMMA EmitFills ==
    ASSUME NEW sts \in StatMaps, NEW r, NEW s, s.dev \in Devs, NEW a, NEW t \in Nat, NEW sv, NEW tot,
           NEW done, emit_request_span(sts, r, s, a, t, sv, tot, done), NEW op, NEW c
    PROVE  Fills(sts, device_stats', s.dev, op, c, 0)
<1>2. CASE device_stats' = sts
  BY <1>2, FillsNothing
<1>3. PICK got, y, d : /\ d = s.dev /\ got = get_device_stats(sts, d, t)
                       /\ y = [got[d] EXCEPT !.timeline_drops = got[d].timeline_drops + 1]
  OBVIOUS
<1>4. CASE device_stats' = IF got[d] = None THEN got ELSE [got EXCEPT ![d] = y]
  <2>1. PICK nsts : nsts = device_stats'
    OBVIOUS
  <2>2. d \in Devs /\ IsGot(got, sts, d, t) /\ Puts(nsts, got, d, y)
    BY <1>3, <1>4, <2>1 DEF IsGot, Puts
  <2>3. PICK z \in Nat : z = 0
    OBVIOUS
  <2>4. ASSUME got[d] \in DeviceStats PROVE y \in DeviceStats /\ Filled(got[d], y, op, c, z)
    <3>1. PICK n \in Nat : n = got[d].timeline_drops + 1
      BY <2>4, StatFields
    <3>. QED BY <1>3, <2>3, <2>4, <3>1, SameHist
  <2>5. Fills(sts, nsts, d, op, c, z)
    BY <2>2, <2>4, BumpFills
  <2>. QED BY <1>3, <2>1, <2>3, <2>5
<1>. QED BY <1>2, <1>3, <1>4 DEF emit_request_span, Bump

-----------------------------------------------------------------------------
(* The window holds the latencies the histograms gained since the sample.   *)

WindowInv ==
    /\ window \in [Devs -> [Ops -> Seq(Nat)]]
    /\ \A d \in Devs, op \in Ops, b \in Buckets :
          HistOf(device_stats[d], op, b)
            = HistOf(previous_stats[d], op, b) + Cardinality(InBucket(window[d][op], b))

\* A handler adds one latency m to a bucket and to the window (k = 1), or none.
LatencyEvent(r, op, m, k) ==
    /\ k \in {0, 1} /\ Fills(device_stats, device_stats', DevOf[r], op, MicroBucket(m), k)
    /\ k = 0 => window' = window
    /\ k = 1 => /\ op \in Ops /\ m \in Nat /\ device_stats'[DevOf[r]] # None
                /\ window' = [window EXCEPT ![DevOf[r]][op] = Append(@, m)]

\* A latency in whole microseconds, and its bucket.
LEMMA Micros ==
    ASSUME NEW ns \in Nat, NEW m, m = ns \div NsPerMicro
    PROVE  m \in Nat /\ latency_bucket(ns) = MicroBucket(m) /\ MicroBucket(m) \in Buckets
<1>1. m \in Nat
  BY BlockAssumption
<1>2. latency_bucket(ns) = MicroBucket(m)
  BY DEF latency_bucket, MicroBucket
<1>. QED BY <1>1, <1>2, BucketFacts

\* The handlers that record no latency.
LEMMA NoLatency ==
    ASSUME TypeInv, NEW r \in Requests, window' = window,
           \/ device_stats' = device_stats
           \/ \A op, c : Fills(device_stats, device_stats', DevOf[r], op, c, 0)
    PROVE  \E op, m, k : LatencyEvent(r, op, m, k)
<1>1. DevOf[r] \in Devs /\ device_stats \in StatMaps
  BY BlockAssumption DEF TypeInv, StatMaps
<1>2. Fills(device_stats, device_stats', DevOf[r], 0, MicroBucket(0), 0)
  BY <1>1, FillsNothing
<1>3. LatencyEvent(r, 0, 0, 0)
  BY <1>2 DEF LatencyEvent
<1>. QED BY <1>3

LEMMA InsertLatency ==
    ASSUME TypeInv, NEW r \in Requests, RqInsert(r) \/ RqIssue(r)
    PROVE  \E op, m, k : LatencyEvent(r, op, m, k)
<1>1. PICK op \in Ops, len \in Lens, t \in Stamp(r) :
          trace_block_rq_insert(r, op, len, t) \/ trace_block_rq_issue(r, op, len, t)
  BY DEF RqInsert, RqIssue
<1>2. t \in Nat
  BY StampFacts
<1>3. DevOf[r] \in Devs /\ device_stats \in StatMaps /\ window' = window
  BY BlockAssumption DEF TypeInv, StatMaps, RqInsert, RqIssue
<1>4. \/ device_stats' = device_stats
      \/ device_stats' = record_lost_request(device_stats, DevOf[r], t)
  BY <1>1 DEF trace_block_rq_insert, trace_block_rq_issue, create_inserted, Tracked, kernel
<1>5. \/ device_stats' = device_stats
      \/ \A oo, c : Fills(device_stats, device_stats', DevOf[r], oo, c, 0)
  BY <1>2, <1>3, <1>4, LostFills
<1>. QED BY <1>3, <1>5, NoLatency

LEMMA MergeLatency ==
    ASSUME TypeInv, NEW r \in Requests, RqMerge(r)
    PROVE  \E op, m, k : LatencyEvent(r, op, m, k)
<1>1. window' = window /\ device_stats' = device_stats
  BY DEF RqMerge, trace_block_rq_merge
<1>. QED BY <1>1, NoLatency

LEMMA RequeueLatency ==
    ASSUME TypeInv, OwnDevice, NEW r \in Requests, RqRequeue(r)
    PROVE  \E op, m, k : LatencyEvent(r, op, m, k)
<1>1. PICK t \in Stamp(r) : trace_block_rq_requeue(r, blk[r].op, t)
  BY DEF RqRequeue
<1>2. t \in Nat
  BY StampFacts
<1>3. DevOf[r] \in Devs /\ device_stats \in StatMaps /\ window' = window
  BY BlockAssumption DEF TypeInv, StatMaps, RqRequeue, history
<1>4. PICK op, counted : /\ op = blk[r].op
                         /\ counted = LET Add(s) == [s EXCEPT !.requeues = @ + 1]
                                      IN  IF has_metric(cfg, "errors")
                                          THEN Bump(device_stats, DevOf[r], t, Add) ELSE device_stats
  OBVIOUS
<1>5. /\ Grow(cfg.max_devices, device_stats, counted, DevOf[r], op, 0)
      /\ \A oo, c : Fills(device_stats, counted, DevOf[r], oo, c, 0)
  BY <1>2, <1>3, <1>4, RequeueCount, RequeueFills
<1>6. PICK s, attempt, ended : /\ s = requests[r] /\ attempt = Attempt(s, t)
                               /\ ended = [s EXCEPT !.service_ns = @ + attempt,
                                                    !.issued = @ /\ attempt = 0,
                                                    !.requeues = @ + 1]
  OBVIOUS
<1>7. \/ device_stats' = device_stats
      \/ device_stats' = counted
      \/ /\ s # None
         /\ emit_request_span(counted, r, ended, s.issue_ns, t, attempt, t - s.first_seen_ns, FALSE)
  BY <1>1, <1>4, <1>6 DEF trace_block_rq_requeue, Tracked, kernel
<1>8. CASE /\ s # None
           /\ emit_request_span(counted, r, ended, s.issue_ns, t, attempt, t - s.first_seen_ns, FALSE)
  <2>1. s \in RequestStates /\ s.dev = DevOf[r]
    BY <1>6, <1>8 DEF TypeInv, OwnDevice
  <2>2. ended.dev = DevOf[r]
    BY <1>6, <2>1 DEF RequestStates
  <2>3. counted \in StatMaps
    BY <1>5 DEF Grow
  <2>4. Grow(cfg.max_devices, counted, device_stats', DevOf[r], op, 0)
    BY <1>2, <1>3, <1>8, <2>2, <2>3, EmitStats
  <2>5. \A oo, c : Fills(counted, device_stats', DevOf[r], oo, c, 0)
    BY <1>2, <1>3, <1>8, <2>2, <2>3, EmitFills
  <2>6. PICK z \in Nat : z = 0
    OBVIOUS
  <2>7. ASSUME NEW oo, NEW c PROVE Fills(device_stats, device_stats', DevOf[r], oo, c, z)
    BY <1>3, <1>5, <2>4, <2>5, <2>6, FillsAround
  <2>. QED BY <1>3, <2>6, <2>7, NoLatency
<1>. QED BY <1>3, <1>5, <1>7, <1>8, NoLatency

\* A completion adds to the window what it adds to the histogram.
LEMMA CompleteLatency ==
    ASSUME TypeInv, OwnDevice, NEW r \in Requests, RqComplete(r)
    PROVE  \E op, m, k : LatencyEvent(r, op, m, k)
<1>1. PICK n \in {1, blk[r].len}, error \in BOOLEAN, t \in Stamp(r) :
          /\ trace_block_rq_complete(r, blk[r].op, error, n, t)
          /\ window' = LET ns == Recorded(r, blk[r].op, error, n, t)
                           o  == IF requests[r] = None THEN blk[r].op ELSE requests[r].operation
                       IN  IF ns = None THEN window
                           ELSE [window EXCEPT ![DevOf[r]][o] = Append(@, ns \div NsPerMicro)]
  <2> DEFINE Window(n, error, t) ==
               window' = LET ns == Recorded(r, blk[r].op, error, n, t)
                             o  == IF requests[r] = None THEN blk[r].op ELSE requests[r].operation
                         IN  IF ns = None THEN window
                             ELSE [window EXCEPT ![DevOf[r]][o] = Append(@, ns \div NsPerMicro)]
             Done(n, error, t) ==
               /\ error => n = blk[r].len
               /\ blk' = [blk EXCEPT ![r].len = @ - n, ![r].at = t,
                                     ![r].st = IF n = blk[r].len THEN "free" ELSE @]
               /\ Hit(t) /\ trace_block_rq_complete(r, blk[r].op, error, n, t)
               /\ finished' = IF n = blk[r].len THEN [finished EXCEPT ![DevOf[r]][blk[r].op] = @ + 1]
                              ELSE finished
               /\ Window(n, error, t)
  <2>1. \E n \in {1, blk[r].len}, error \in BOOLEAN, t \in Stamp(r) : Done(n, error, t)
    BY ZenonT(60) DEF RqComplete
  <2>. HIDE DEF Window
  <2>2. \A n, error, t : Done(n, error, t) =>
          trace_block_rq_complete(r, blk[r].op, error, n, t) /\ Window(n, error, t)
    BY ZenonT(60)
  <2>. HIDE DEF Done
  <2>3. PICK bytes \in {1, blk[r].len}, failed \in BOOLEAN, at \in Stamp(r) : Done(bytes, failed, at)
    BY <2>1
  <2>4. \E n \in {1, blk[r].len}, error \in BOOLEAN, t \in Stamp(r) :
          trace_block_rq_complete(r, blk[r].op, error, n, t) /\ Window(n, error, t)
    <3>1. trace_block_rq_complete(r, blk[r].op, failed, bytes, at) /\ Window(bytes, failed, at)
      BY <2>2, <2>3
    <3>. QED BY <3>1
  <2>. QED BY <2>4, ZenonT(60) DEF Window
<1>2. t \in Nat
  BY StampFacts
<1>3. blk[r] \in BlkRecords
  BY DEF TypeInv
<1>4. blk[r].op \in Ops /\ n \in Nat
  BY <1>1, <1>3 DEF BlkRecords
<1>5. DevOf[r] \in Devs /\ device_stats \in StatMaps
  BY BlockAssumption DEF TypeInv, StatMaps
<1>6. PICK op, d : op = blk[r].op /\ d = DevOf[r]
  OBVIOUS
<1>7. PICK ns : ns = Recorded(r, op, error, n, t)
  OBVIOUS
<1>8. PICK bytes : bytes = record_bytes(device_stats, d, op, n, error, t)
  OBVIOUS
<1>9. /\ \A o : Grow(cfg.max_devices, device_stats, bytes, d, o, 0)
      /\ \A o, c : Fills(device_stats, bytes, d, o, c, 0)
      /\ bytes \in StatMaps
  <2>1. Grow(cfg.max_devices, device_stats, bytes, d, op, 0)
    BY <1>2, <1>4, <1>5, <1>6, <1>8, RecordBytes
  <2>2. \A o, c : Fills(device_stats, bytes, d, o, c, 0)
    BY <1>2, <1>4, <1>5, <1>6, <1>8, BytesFills
  <2>. QED BY <2>1, <2>2, GrowZero DEF Grow
<1>10. PICK s : s = requests[r]
  OBVIOUS
<1>11. ns = None => window' = window
  BY <1>1, <1>6, <1>7
<1>12. PICK one \in Nat, k \in Nat : /\ one = IF operations_enabled(cfg) THEN 1 ELSE 0
                                     /\ k = IF has_metric(cfg, "latency") THEN 1 ELSE 0
  OBVIOUS
<1>13. k # 0 => one # 0
  BY <1>12 DEF operations_enabled
<1>14. CASE ~Tracked(r, op) /\ (device_stats' = device_stats \/ device_stats' = bytes)
  <2>1. ns = None
    BY <1>7, <1>14 DEF Recorded
  <2>. QED BY <1>6, <1>9, <1>11, <1>14, <2>1, NoLatency
<1>15. CASE /\ Tracked(r, op) /\ s # None /\ ~(error \/ n >= s.remaining_bytes)
            /\ device_stats' = bytes
  <2>1. ns = None
    BY <1>7, <1>10, <1>15 DEF Recorded
  <2>. QED BY <1>6, <1>9, <1>11, <1>15, <2>1, NoLatency
<1>16. ASSUME NEW o \in Ops, NEW total \in Nat, Tracked(r, op),
              o = (IF requests[r] = None THEN op ELSE requests[r].operation),
              has_metric(cfg, "latency") /\ device_stats'[d] # None => ns = total,
              Fills(device_stats, device_stats', d, o, latency_bucket(total), k)
       PROVE  \E oo, m, kk : LatencyEvent(r, oo, m, kk)
  <2>1. PICK m : m = total \div NsPerMicro
    OBVIOUS
  <2>2. m \in Nat /\ latency_bucket(total) = MicroBucket(m)
    BY <1>16, <2>1, Micros
  <2>3. CASE ~(has_metric(cfg, "latency") /\ device_stats'[d] # None)
    <3>1. ns = None
      BY <1>6, <1>7, <2>3 DEF Recorded
    <3>2. \A oo, c : Fills(device_stats, device_stats', d, oo, c, 0)
      <4>1. CASE device_stats'[d] = None
        BY <4>1 DEF Fills
      <4>2. CASE device_stats'[d] # None
        <5>1. k = 0
          BY <1>12, <2>3, <4>2
        <5>. QED BY <1>16, <5>1 DEF Fills
      <4>. QED BY <4>1, <4>2
    <3>. QED BY <1>6, <1>11, <3>1, <3>2, NoLatency
  <2>4. CASE has_metric(cfg, "latency") /\ device_stats'[d] # None
    <3>1. ns = total /\ ns # None /\ k = 1
      BY <1>12, <1>16, <2>4, NoneAssumption
    <3>2. window' = [window EXCEPT ![DevOf[r]][o] = Append(@, m)]
      BY <1>1, <1>6, <1>7, <1>16, <2>1, <3>1
    <3>3. LatencyEvent(r, o, m, 1)
      BY <1>6, <1>16, <2>2, <2>4, <3>1, <3>2 DEF LatencyEvent
    <3>. QED BY <3>3
  <2>. QED BY <2>3, <2>4
<1>17. CASE /\ Tracked(r, op) /\ s = None
            /\ device_stats' = record_completion(bytes, d, op, 0, 0, 0, t)
  <2>0. PICK z \in Nat : z = 0
    OBVIOUS
  <2>1. PICK c, nsts : z = 0 /\ c = latency_bucket(z) /\ nsts = device_stats'
    BY <2>0
  <2>2. c \in Buckets
    BY <2>1, Micros
  <2>3. nsts = record_completion(bytes, d, op, z, z, z, t) /\ d \in Devs /\ op \in Ops
    BY <1>4, <1>5, <1>6, <1>17, <2>1
  <2>4. Grow(cfg.max_devices, bytes, nsts, d, op, one) /\ Fills(bytes, nsts, d, op, c, k)
    BY <1>2, <1>9, <1>12, <2>1, <2>2, <2>3, RecordCompletion, CompletionFills
  <2>5. Fills(device_stats, nsts, d, op, c, k)
    BY <1>5, <1>9, <2>3, <2>4, FillsAround
  <2>6. has_metric(cfg, "latency") /\ device_stats'[d] # None => ns = z
    BY <1>6, <1>7, <1>10, <1>17, <2>1 DEF Recorded
  <2>. QED BY <1>10, <1>16, <1>17, <2>1, <2>3, <2>5, <2>6
<1>18. PICK attempt, service, total, queue, done, started :
          /\ attempt = Attempt(s, t) /\ service = s.service_ns + attempt
          /\ total = Larger(0, t - s.first_seen_ns) /\ queue = Larger(0, total - service)
          /\ done = record_completion(bytes, s.dev, s.operation, queue, service, total, t)
          /\ started = IF s.issue_ns # 0 THEN s.issue_ns ELSE s.first_seen_ns
  OBVIOUS
<1>19. CASE /\ Tracked(r, op) /\ s # None /\ (error \/ n >= s.remaining_bytes)
            /\ emit_request_span(done, r, s, started, t, service, total, TRUE)
  <2>1. s \in RequestStates /\ s.dev = d
    BY <1>6, <1>10, <1>19 DEF TypeInv, OwnDevice
  <2>2. s.operation \in Ops /\ s.service_ns \in Nat /\ s.first_seen_ns \in Nat
    BY <2>1 DEF RequestStates
  <2>3. attempt \in Nat
    BY <1>2, <1>18, <2>1, AttemptFacts
  <2>4. service \in Nat /\ total \in Nat
    <3>1. service \in Nat
      BY <1>18, <2>2, <2>3
    <3>2. total \in Nat
      BY <1>2, <1>18, <2>2 DEF Larger
    <3>. QED BY <3>1, <3>2
  <2>5. queue \in Nat
    BY <1>18, <2>4 DEF Larger
  <2>6. PICK o, c, nsts : o = s.operation /\ c = latency_bucket(total) /\ nsts = device_stats'
    OBVIOUS
  <2>7. c \in Buckets /\ o \in Ops /\ d \in Devs
    BY <1>5, <1>6, <2>2, <2>4, <2>6, Micros
  <2>8. Grow(cfg.max_devices, bytes, done, d, o, one) /\ Fills(bytes, done, d, o, c, k)
    BY <1>2, <1>9, <1>12, <1>18, <2>1, <2>4, <2>5, <2>6, <2>7, RecordCompletion, CompletionFills
  <2>9. done \in StatMaps
    BY <2>8 DEF Grow
  <2>10. Grow(cfg.max_devices, done, nsts, d, o, 0) /\ Fills(done, nsts, d, o, c, 0)
    BY <1>2, <1>19, <2>1, <2>6, <2>7, <2>9, EmitStats, EmitFills
  <2>11. Fills(bytes, nsts, d, o, c, k)
    <3>1. CASE k # 0
      BY <1>9, <1>13, <2>7, <2>8, <2>10, <3>1, FillsAround
    <3>2. CASE k = 0
      BY <1>9, <2>7, <2>8, <2>10, <3>2, FillsAround
    <3>. QED BY <3>1, <3>2
  <2>12. Grow(cfg.max_devices, bytes, nsts, d, o, one)
    BY <1>9, <2>7, <2>8, <2>10, GrowAround
  <2>13. Fills(device_stats, nsts, d, o, c, k)
    BY <1>5, <1>9, <2>7, <2>11, <2>12, FillsAround, SMTT(60)
  <2>14. has_metric(cfg, "latency") /\ device_stats'[d] # None => ns = total
    BY <1>6, <1>7, <1>10, <1>18, <1>19 DEF Recorded
  <2>. QED BY <1>10, <1>16, <1>19, <2>4, <2>6, <2>7, <2>13, <2>14
<1>20. \/ ~should_track(d, op) /\ device_stats' = device_stats
       \/ should_track(d, op) /\ ~request_tracking(cfg) /\ device_stats' = bytes
       \/ /\ Tracked(r, op) /\ s = None
          /\ device_stats' = record_completion(bytes, d, op, 0, 0, 0, t)
       \/ /\ Tracked(r, op) /\ s # None /\ ~(error \/ n >= s.remaining_bytes)
          /\ device_stats' = bytes
       \/ /\ Tracked(r, op) /\ s # None /\ (error \/ n >= s.remaining_bytes)
          /\ emit_request_span(done, r, s, started, t, service, total, TRUE)
  BY <1>1, <1>6, <1>8, <1>10, <1>18 DEF trace_block_rq_complete, kernel
<1>21. ~should_track(d, op) \/ ~request_tracking(cfg) => ~Tracked(r, op)
  BY <1>6 DEF Tracked
<1>. QED BY <1>14, <1>15, <1>17, <1>19, <1>20, <1>21

\* Each handler adds the same latency, if any, to both.
LEMMA HandlerLatency ==
    ASSUME TypeInv, OwnDevice, NEW r \in Requests,
           RqInsert(r) \/ RqMerge(r) \/ RqIssue(r) \/ RqRequeue(r) \/ RqComplete(r)
    PROVE  \E op, m, k : LatencyEvent(r, op, m, k)
BY InsertLatency, MergeLatency, RequeueLatency, CompleteLatency

\* The window gains a latency as the histogram does.
LEMMA AppendCount ==
    ASSUME NEW w \in Seq(Nat), NEW m \in Nat, NEW v, v = Append(w, m), NEW b \in Buckets
    PROVE  /\ v \in Seq(Nat)
           /\ Cardinality(InBucket(v, b)) = Cardinality(InBucket(w, b)) + (IF b = MicroBucket(m) THEN 1 ELSE 0)
<1>1. /\ v \in Seq(Nat) /\ Len(w) \in Nat /\ Len(v) = Len(w) + 1
      /\ \A k \in 1 .. Len(w) : v[k] = w[k]
      /\ v[Len(w) + 1] = m
  OBVIOUS
<1>2. PICK n \in Nat : n = Len(w)
  BY <1>1
<1>3. InBucket(w, b) \subseteq 1 .. n
  BY <1>2 DEF InBucket
<1>4. IsFiniteSet(InBucket(w, b)) /\ Cardinality(InBucket(w, b)) \in Nat
  BY <1>2, <1>3, WindowFacts
<1>5. \A k \in 1 .. n + 1 : (k \in 1 .. n /\ v[k] = w[k]) \/ (k = n + 1 /\ v[k] = m)
  BY <1>1, <1>2
<1>6. CASE b = MicroBucket(m)
  <2>1. InBucket(v, b) = InBucket(w, b) \cup {n + 1}
    BY <1>1, <1>2, <1>5, <1>6 DEF InBucket
  <2>2. n + 1 \notin InBucket(w, b)
    BY <1>3
  <2>3. PICK A, x : A = InBucket(w, b) /\ x = n + 1
    OBVIOUS
  <2>4. Cardinality(A \cup {x}) = Cardinality(A) + 1
    BY <1>4, <2>2, <2>3, FS_AddElement
  <2>. QED BY <1>1, <1>6, <2>1, <2>3, <2>4
<1>7. CASE b # MicroBucket(m)
  <2>1. InBucket(v, b) = InBucket(w, b)
    BY <1>1, <1>2, <1>5, <1>7 DEF InBucket
  <2>. QED BY <1>1, <1>4, <1>7, <2>1
<1>. QED BY <1>6, <1>7

\* An empty window has nothing in any bucket.
LEMMA EmptyCount ==
    ASSUME NEW b
    PROVE  << >> \in Seq(Nat) /\ Cardinality(InBucket(<< >>, b)) = 0
<1>1. InBucket(<< >>, b) = {}
  BY DEF InBucket
<1>. QED BY <1>1, FS_EmptySet

\* So every handler keeps the window and the histograms together.
LEMMA HandlerWindow ==
    ASSUME TypeInv, WindowInv, HitFrame, NEW r \in Requests, NEW op, NEW m, NEW k, LatencyEvent(r, op, m, k),
           NEW o, NEW j, StatsEvent(r, o, j)
    PROVE  WindowInv'
<1>1. PICK d \in Devs : d = DevOf[r]
  BY BlockAssumption
<1>2. PICK sts, nsts, pst, win, nwin :
          /\ sts = device_stats /\ nsts = device_stats' /\ pst = previous_stats
          /\ win = window /\ nwin = window'
  OBVIOUS
<1>3. previous_stats' = pst
  BY <1>2 DEF HitFrame, sampler
<1>4. /\ win \in [Devs -> [Ops -> Seq(Nat)]]
      /\ \A e \in Devs, oo \in Ops, b \in Buckets :
            HistOf(sts[e], oo, b) = HistOf(pst[e], oo, b) + Cardinality(InBucket(win[e][oo], b))
  BY <1>2 DEF WindowInv
<1>5. /\ \A e \in Devs : e # d => nsts[e] = sts[e]
      /\ nsts[d] = None => sts[d] = None
  BY <1>1, <1>2 DEF StatsEvent, Grow
<1>6. /\ sts \in StatMaps /\ nsts \in StatMaps
      /\ \A e \in Devs : pst[e] \in DeviceStats \cup {None}
  BY <1>2 DEF StatsEvent, Grow, TypeInv, StatMaps
<1>7. /\ k \in {0, 1} /\ Fills(sts, nsts, d, op, MicroBucket(m), k)
      /\ k = 0 => nwin = win
      /\ k = 1 => /\ op \in Ops /\ m \in Nat /\ nsts[d] # None
                  /\ nwin = [win EXCEPT ![d][op] = Append(@, m)]
  BY <1>1, <1>2 DEF LatencyEvent
<1>8. \A e \in Devs, oo \in Ops, b \in Buckets :
          /\ HistOf(sts[e], oo, b) \in Nat /\ HistOf(pst[e], oo, b) \in Nat
          /\ Cardinality(InBucket(win[e][oo], b)) \in Nat
  <2>1. ASSUME NEW e \in Devs, NEW oo \in Ops, NEW b \in Buckets
        PROVE  Cardinality(InBucket(win[e][oo], b)) \in Nat
    <3>1. win[e][oo] \in Seq(Nat) /\ InBucket(win[e][oo], b) \subseteq 1 .. Len(win[e][oo])
      BY <1>4 DEF InBucket
    <3>. QED BY <3>1, WindowFacts
  <2>. QED BY <1>6, <2>1, HistOfType DEF StatMaps
<1>9. CASE k = 0
  <2>1. ASSUME NEW e \in Devs, NEW oo \in Ops, NEW b \in Buckets
        PROVE  HistOf(nsts[e], oo, b) = HistOf(sts[e], oo, b)
    <3>1. CASE e # d \/ nsts[d] = None
      BY <1>5, <3>1
    <3>2. CASE e = d /\ nsts[d] # None
      BY <1>7, <1>8, <1>9, <3>2 DEF Fills
    <3>. QED BY <3>1, <3>2
  <2>2. \A e \in Devs, oo \in Ops, b \in Buckets :
            HistOf(nsts[e], oo, b) = HistOf(pst[e], oo, b) + Cardinality(InBucket(nwin[e][oo], b))
    BY <1>4, <1>7, <1>9, <2>1
  <2>. QED BY <1>2, <1>3, <1>4, <1>7, <1>9, <2>2 DEF WindowInv
<1>10. CASE k = 1
  <2>1. PICK w : w = Append(win[d][op], m)
    OBVIOUS
  <2>2. op \in Ops /\ m \in Nat /\ win[d][op] \in Seq(Nat) /\ nsts[d] # None
    BY <1>4, <1>7, <1>10
  <2>3. w \in Seq(Nat)
    BY <2>1, <2>2
  <2>4. /\ nwin \in [Devs -> [Ops -> Seq(Nat)]] /\ nwin[d][op] = w
        /\ \A e \in Devs, oo \in Ops : ~(e = d /\ oo = op) => nwin[e][oo] = win[e][oo]
    <3>1. PICK f : f = [win[d] EXCEPT ![op] = w]
      OBVIOUS
    <3>2. nwin = [win EXCEPT ![d] = f]
      BY <1>4, <1>7, <1>10, <2>1, <3>1
    <3>3. f \in [Ops -> Seq(Nat)] /\ f[op] = w /\ \A oo \in Ops : oo # op => f[oo] = win[d][oo]
      BY <1>4, <2>2, <2>3, <3>1
    <3>. QED BY <1>4, <3>2, <3>3
  <2>5. ASSUME NEW e \in Devs, NEW oo \in Ops, NEW b \in Buckets
        PROVE  HistOf(nsts[e], oo, b) = HistOf(pst[e], oo, b) + Cardinality(InBucket(nwin[e][oo], b))
    <3>1. CASE e # d
      BY <1>4, <1>5, <2>4, <3>1
    <3>2. CASE e = d
      <4>1. HistOf(nsts[d], oo, b) = HistOf(sts[d], oo, b) + (IF oo = op /\ b = MicroBucket(m) THEN 1 ELSE 0)
        BY <1>7, <1>10, <2>2 DEF Fills
      <4>2. HistOf(sts[d], oo, b) = HistOf(pst[d], oo, b) + Cardinality(InBucket(win[d][oo], b))
        BY <1>4
      <4>3. CASE oo = op
        <5>1. Cardinality(InBucket(w, b)) = Cardinality(InBucket(win[d][op], b))
                                              + (IF b = MicroBucket(m) THEN 1 ELSE 0)
          BY <2>1, <2>2, AppendCount, ZenonT(60)
        <5>2. PICK x \in Nat, y \in Nat, z \in Nat :
                  x = HistOf(sts[d], oo, b) /\ y = HistOf(pst[d], oo, b) /\ z = Cardinality(InBucket(win[d][op], b))
          BY <1>8, <4>3
        <5>. QED BY <2>4, <3>2, <4>1, <4>2, <4>3, <5>1, <5>2
      <4>4. CASE oo # op
        <5>1. nwin[e][oo] = win[d][oo]
          BY <2>4, <3>2, <4>4
        <5>2. HistOf(nsts[d], oo, b) = HistOf(sts[d], oo, b)
          BY <1>8, <4>1, <4>4
        <5>. QED BY <3>2, <4>2, <5>1, <5>2
      <4>. QED BY <4>3, <4>4
    <3>. QED BY <3>1, <3>2
  <2>. QED BY <1>2, <1>3, <2>4, <2>5 DEF WindowInv
<1>. QED BY <1>7, <1>9, <1>10

-----------------------------------------------------------------------------
(* A sample empties the window and shows its percentiles.                   *)

\* From statistics p to s the histogram of operation o gained the latencies in w.
Gained(s, p, o, w) ==
    \A b \in Buckets : HistOf(s, o, b) = HistOf(p, o, b) + Cardinality(InBucket(w, b))

\* Then the delta of the two holds just those.
LEMMA DeltaHolds ==
    ASSUME NEW s \in DeviceStats, NEW p \in DeviceStats \cup {None}, p # None => AtLeast(s, p),
           NEW dl, IsDelta(dl, s, p), NEW o \in Ops, NEW w \in Seq(Nat), Gained(s, p, o, w)
    PROVE  Holds(dl.operations[o].total_histogram, w)
<1>1. \A b \in Buckets : Cardinality(InBucket(w, b)) \in Nat
  <2>1. \A b \in Buckets : InBucket(w, b) \subseteq 1 .. Len(w)
    BY DEF InBucket
  <2>. QED BY <2>1, WindowFacts
<1>2. PICK h : h = s.operations[o].total_histogram
  OBVIOUS
<1>3. h \in [Buckets -> Nat] /\ \A b \in Buckets : HistOf(s, o, b) = h[b] /\ h[b] \in Nat
  BY <1>2, HistTypes, StatFields DEF HistOf
<1>4. CASE p = None
  <2>1. dl = s
    BY <1>4 DEF IsDelta, stats_delta
  <2>2. \A b \in Buckets : HistOf(p, o, b) = 0
    BY <1>4 DEF HistOf
  <2>3. \A b \in Buckets : h[b] = Cardinality(InBucket(w, b))
    BY <1>1, <1>3, <2>2 DEF Gained
  <2>. QED BY <1>2, <1>3, <2>1, <2>3 DEF Holds
<1>5. CASE p # None
  <2>1. PICK g : g = p.operations[o].total_histogram
    OBVIOUS
  <2>2. p \in DeviceStats /\ p.first_seen_ns = s.first_seen_ns
    BY <1>5 DEF AtLeast
  <2>3. \A b \in Buckets : HistOf(p, o, b) = g[b] /\ g[b] \in Nat
    BY <1>5, <2>1, <2>2, HistTypes DEF HistOf
  <2>4. dl.operations = [oo \in Ops |-> op_delta(s.operations[oo], p.operations[oo])]
    BY <1>5, <2>2 DEF IsDelta, stats_delta
  <2>5. dl.operations[o] = op_delta(s.operations[o], p.operations[o])
    BY <2>4
  <2>6. dl.operations[o].total_histogram = [b \in Buckets |-> Less(h[b], g[b])]
    BY <1>2, <2>1, <2>5 DEF op_delta
  <2>7. ASSUME NEW b \in Buckets
        PROVE  Less(h[b], g[b]) \in Nat /\ Less(h[b], g[b]) = Cardinality(InBucket(w, b))
    <3>1. PICK x \in Nat, y \in Nat, z \in Nat : x = h[b] /\ y = g[b] /\ z = Cardinality(InBucket(w, b))
      BY <1>1, <1>3, <2>3
    <3>2. x = y + z
      BY <1>3, <2>3, <3>1 DEF Gained
    <3>3. Less(x, y) \in Nat /\ Less(x, y) = z
      BY <3>2 DEF Less, Larger
    <3>. QED BY <3>1, <3>3
  <2>. QED BY <2>6, <2>7 DEF Holds
<1>. QED BY <1>4, <1>5

LEMMA SampleWindow ==
    ASSUME TypeInv, ReportInv, WindowInv, NEW t \in Nat, sample(t), cfg' = cfg, device_stats' = device_stats
    PROVE  WindowInv' /\ PercentileBound'
<1>1. \A d \in Devs : /\ device_stats[d] \in DeviceStats \cup {None}
                      /\ previous_stats[d] \in DeviceStats \cup {None}
                      /\ previous_stats[d] # None => /\ device_stats[d] # None
                                                     /\ AtLeast(device_stats[d], previous_stats[d])
  BY DEF TypeInv, ReportInv
<1>2. /\ window \in [Devs -> [Ops -> Seq(Nat)]]
      /\ \A d \in Devs, op \in Ops, b \in Buckets :
            HistOf(device_stats[d], op, b)
              = HistOf(previous_stats[d], op, b) + Cardinality(InBucket(window[d][op], b))
  BY DEF WindowInv
<1>3. PICK seen : seen = {d \in Devs : device_stats[d] # None}
  OBVIOUS
<1>4. /\ window' = [d \in Devs |-> [op \in Ops |-> IF d \in seen THEN <<>> ELSE window[d][op]]]
      /\ previous_stats' = [d \in Devs |-> IF d \in seen THEN device_stats[d] ELSE previous_stats[d]]
  BY <1>3 DEF sample
<1>5. WindowInv'
  <2>1. window' \in [Devs -> [Ops -> Seq(Nat)]]
    BY <1>2, <1>4, EmptyCount
  <2>2. ASSUME NEW d \in Devs, NEW op \in Ops, NEW b \in Buckets
        PROVE  HistOf(device_stats[d], op, b)
                 = HistOf(previous_stats'[d], op, b) + Cardinality(InBucket(window'[d][op], b))
    <3>1. CASE d \in seen
      <4>1. previous_stats'[d] = device_stats[d] /\ window'[d][op] = <<>>
        BY <1>4, <3>1
      <4>2. HistOf(device_stats[d], op, b) \in Nat
        BY <1>1, HistOfType
      <4>3. Cardinality(InBucket(<< >>, b)) = 0
        BY EmptyCount
      <4>. QED BY <4>1, <4>2, <4>3
    <3>2. CASE d \notin seen
      BY <1>2, <1>4, <3>2
    <3>. QED BY <3>1, <3>2
  <2>3. \A d \in Devs, op \in Ops, b \in Buckets :
            HistOf(device_stats'[d], op, b)
              = HistOf(previous_stats'[d], op, b) + Cardinality(InBucket(window'[d][op], b))
    BY <2>2
  <2>. QED BY <2>1, <2>3 DEF WindowInv
<1>6. ASSUME NEW p \in percentiles' PROVE Bounds(p.shown, p.true)
  <2>1. PICK delta : delta = [d \in seen |-> stats_delta(device_stats[d], previous_stats[d])]
    OBVIOUS
  <2> DEFINE Percentile(d, op, q) ==
               [shown |-> histogram_percentile(delta[d].operations[op].total_histogram, q),
                true |-> TruePercentile(window[d][op], q)]
  <2>12. \/ percentiles' = {}
         \/ percentiles' = {Percentile(d, op, q) : d \in seen, op \in cfg.operations, q \in {50, 95, 99}}
    BY <1>3, <2>1, SMTT(60) DEF sample
  <2>. HIDE DEF Percentile
  <2>13. PICK d \in seen, op \in cfg.operations, q \in {50, 95, 99} : p = Percentile(d, op, q)
    BY <1>6, <2>12
  <2>2. p = [shown |-> histogram_percentile(delta[d].operations[op].total_histogram, q),
             true |-> TruePercentile(window[d][op], q)]
    BY <2>13 DEF Percentile
  <2>3. d \in Devs /\ op \in Ops /\ device_stats[d] \in DeviceStats
    BY <1>1, <1>3, BlockAssumption DEF TypeInv
  <2>4. PICK dl : dl = delta[d]
    OBVIOUS
  <2>5. IsDelta(dl, device_stats[d], previous_stats[d])
    BY <2>1, <2>2, <2>4 DEF IsDelta
  <2>6. PICK w \in Seq(Nat) : w = window[d][op]
    BY <1>2, <2>3
  <2>7. Gained(device_stats[d], previous_stats[d], op, w)
    BY <1>2, <2>3, <2>6 DEF Gained
  <2>8. PICK h : h = dl.operations[op].total_histogram
    OBVIOUS
  <2>9. Holds(h, w)
    <3>1. PICK s, pr : s = device_stats[d] /\ pr = previous_stats[d]
      OBVIOUS
    <3>2. s \in DeviceStats /\ pr \in DeviceStats \cup {None} /\ (pr # None => AtLeast(s, pr))
      BY <1>1, <2>3, <3>1
    <3>3. IsDelta(dl, s, pr) /\ Gained(s, pr, op, w)
      BY <2>5, <2>7, <3>1
    <3>4. Holds(dl.operations[op].total_histogram, w)
      BY <2>3, <3>2, <3>3, DeltaHolds
    <3>. QED BY <2>8, <3>4
  <2>10. Bounds(histogram_percentile(h, q), TruePercentile(w, q))
    BY <2>9, PercentileBounds
  <2>11. p.shown = histogram_percentile(h, q) /\ p.true = TruePercentile(w, q)
    BY <2>2, <2>4, <2>6, <2>8
  <2>. QED BY <2>10, <2>11
<1>7. PercentileBound'
  BY <1>6 DEF PercentileBound, Bounds
<1>. QED BY <1>5, <1>7

\* Steps that leave the statistics and the window alone.
LEMMA SameWindow ==
    ASSUME WindowInv, PercentileBound, UNCHANGED <<device_stats, previous_stats, window, percentiles>>
    PROVE  WindowInv' /\ PercentileBound'
BY DEF WindowInv, PercentileBound

LEMMA InitWindow == Init => WindowInv /\ PercentileBound
<1> SUFFICES ASSUME Init PROVE WindowInv /\ PercentileBound
  OBVIOUS
<1>1. /\ window = [d \in Devs |-> [op \in Ops |-> <<>>]]
      /\ percentiles = {}
      /\ \A d \in Devs : device_stats[d] = None /\ previous_stats[d] = None
  BY DEF Init
<1>2. window \in [Devs -> [Ops -> Seq(Nat)]] /\ \A d \in Devs, op \in Ops : window[d][op] = <<>>
  BY <1>1, EmptyCount
<1>3. \A b : Cardinality(InBucket(<< >>, b)) = 0
  BY EmptyCount
<1>4. \A d \in Devs, op \in Ops, b \in Buckets :
          HistOf(device_stats[d], op, b)
            = HistOf(previous_stats[d], op, b) + Cardinality(InBucket(window[d][op], b))
  BY <1>1, <1>2, <1>3 DEF HistOf
<1>. QED BY <1>1, <1>2, <1>4 DEF WindowInv, PercentileBound

LEMMA NextWindow ==
    ASSUME BlockInv, WindowInv, PercentileBound, [Next]_vars
    PROVE  WindowInv' /\ PercentileBound'
<1>1. TypeInv /\ OwnDevice /\ Followed /\ SeenInv /\ ReportInv
  BY DEF BlockInv
<1>2. ASSUME NEW r \in Requests, RqInsert(r) \/ RqMerge(r) \/ RqIssue(r) \/ RqRequeue(r) \/ RqComplete(r)
      PROVE  WindowInv' /\ PercentileBound'
  <2>1. HitFrame
    BY <1>1, <1>2, HandlerEvent
  <2>2. PICK o, j : j \in Nat /\ StatsEvent(r, o, j)
    BY <1>1, <1>2, HandlerStats
  <2>3. PICK op, m, k : LatencyEvent(r, op, m, k)
    BY <1>1, <1>2, HandlerLatency
  <2>4. WindowInv'
    BY <1>1, <2>1, <2>2, <2>3, HandlerWindow
  <2>5. percentiles' = percentiles
    BY <2>1 DEF HitFrame, sampler
  <2>. QED BY <2>4, <2>5 DEF PercentileBound
<1>3. CASE build
  <2>1. UNCHANGED <<device_stats, previous_stats, window, percentiles>>
    BY <1>3 DEF build, history
  <2>. QED BY <2>1, SameWindow
<1>4. CASE consume \/ flush
  <2>1. cfg' = cfg /\ device_stats' = device_stats
    BY <1>4 DEF consume, flush, config
  <2>2. PICK t \in SampleTimes : now' = Larger(now, t) /\ (sample(t) \/ UNCHANGED <<sampler, window>>)
    BY <1>4 DEF consume, flush
  <2>3. CASE sample(t)
    <3>1. t \in Nat
      BY <1>1, <2>2, SampleTimeFacts
    <3>. QED BY <1>1, <2>1, <2>3, <3>1, SampleWindow
  <2>4. CASE UNCHANGED <<sampler, window>>
    <3>1. UNCHANGED <<device_stats, previous_stats, window, percentiles>>
      BY <2>1, <2>4 DEF sampler
    <3>. QED BY <3>1, SameWindow
  <2>. QED BY <2>2, <2>3, <2>4
<1>5. CASE UNCHANGED vars
  <2>1. UNCHANGED <<device_stats, previous_stats, window, percentiles>>
    BY <1>5 DEF vars, kernel, sampler, history
  <2>. QED BY <2>1, SameWindow
<1>. QED BY <1>2, <1>3, <1>4, <1>5 DEF Next

LEMMA WindowInvariant == Spec => [](WindowInv /\ PercentileBound)
<1>1. Init => WindowInv /\ PercentileBound
  BY InitWindow
<1>2. BlockInv /\ (WindowInv /\ PercentileBound) /\ [Next]_vars => (WindowInv /\ PercentileBound)'
  BY NextWindow
<1>. QED BY <1>1, <1>2, BlockInvariant, PTL DEF Spec

-----------------------------------------------------------------------------
(* The theorems.                                                            *)

\* The request map stays within max_requests, and adjust_depth() keeps every device's
\* queue depth equal to the entries that say they are queued, and its in-flight depth
\* equal to the issued ones (a lower bound when two events may share a timestamp),
\* through every handler of blocktrack.bpf.c.
THEOREM DepthCounts == Spec => []DepthExact
<1>1. BlockInv => DepthExact
  <2> SUFFICES ASSUME BlockInv PROVE DepthExact
    OBVIOUS
  <2>1. Cardinality({r \in Requests : requests[r] # None}) <= cfg.max_requests
    BY DEF BlockInv, KeptOK, Kept
  <2>2. ASSUME NEW d \in Devs, device_depths[d] # None
        PROVE  /\ device_depths[d].queued = Entries(d, LAMBDA s : s.inserted)
               /\ device_depths[d].inflight >= Entries(d, LAMBDA s : s.issued)
               /\ clock.strict => device_depths[d].inflight = Entries(d, LAMBDA s : s.issued)
    <3>1. /\ device_depths[d].queued = Cardinality(Queued(requests, d))
          /\ device_depths[d].inflight >= Cardinality(Issued(requests, d))
          /\ clock.strict => device_depths[d].inflight = Cardinality(Issued(requests, d))
      BY <2>2 DEF BlockInv, DepthsOK
    <3>2. /\ Entries(d, LAMBDA s : s.inserted) = Cardinality(Queued(requests, d))
          /\ Entries(d, LAMBDA s : s.issued) = Cardinality(Issued(requests, d))
      BY DEF Entries, Queued, Issued
    <3>. QED BY <3>1, <3>2
  <2>. QED BY <2>1, <2>2 DEF DepthExact
<1>. QED BY <1>1, BlockInvariant, PTL

\* When every request was seen from its start and no two events of one request share a
\* timestamp, the depths the sampler reads are those of the block layer itself.
THEOREM DepthOfBlockLayer == Spec => []DepthTrue
<1>1. BlockInv => DepthTrue
  <2> SUFFICES ASSUME BlockInv, clock.strict, ~unseen, NEW d \in Devs, device_depths[d] # None
               PROVE  /\ device_depths[d].queued
                           = Cardinality({r \in Requests : DevOf[r] = d /\ blk[r].st = "queued"
                                                           /\ Tracked(r, blk[r].op)})
                      /\ device_depths[d].inflight
                           = Cardinality({r \in Requests : DevOf[r] = d /\ blk[r].st = "driver"
                                                           /\ Tracked(r, blk[r].op)})
    BY DEF DepthTrue
  <2>1. /\ device_depths[d].queued = Cardinality(Queued(requests, d))
        /\ device_depths[d].inflight = Cardinality(Issued(requests, d))
    BY DEF BlockInv, DepthsOK
  <2>2. \A r \in Requests : RequestSeen(r) /\ (requests[r] # None => requests[r].dev = DevOf[r])
    BY DEF BlockInv, SeenInv, OwnDevice
  <2>3. Queued(requests, d) = {r \in Requests : DevOf[r] = d /\ blk[r].st = "queued"
                                                /\ Tracked(r, blk[r].op)}
    BY <2>2 DEF Queued, RequestSeen
  <2>4. Issued(requests, d) = {r \in Requests : DevOf[r] = d /\ blk[r].st = "driver"
                                                /\ Tracked(r, blk[r].op)}
    BY <2>2 DEF Issued, RequestSeen
  <2>. QED BY <2>1, <2>3, <2>4
<1>. QED BY <1>1, BlockInvariant, PTL

\* With timestamps in the order of the updates, the busy time adjust_depth() and
\* DeviceDepth::snapshot add up never exceeds the time that passed, in the map and
\* in the sum of the deltas sample() emitted.
THEOREM BusyTimes == Spec => []BusyBounded
<1>1. BlockInv => BusyBounded
  BY DEF BlockInv, BusyInv, BusyDepth, BusyBounded
<1>. QED BY <1>1, BlockInvariant, PTL

\* record_completion() counts each finished request exactly once, whatever its partial
\* completions, errors and requeues, on every device the map had room for.
THEOREM OperationCounts == Spec => []OperationsExact
<1>1. BlockInv => OperationsExact
  <2> SUFFICES ASSUME OperationsInv PROVE OperationsExact
    BY DEF BlockInv
  <2>. QED BY DEF OperationsInv, OperationsExact, Counting, Stats
<1>. QED BY <1>1, BlockInvariant, PTL

\* After flush() the deltas emitted by sample() add up to the kernel's counters: nothing
\* is lost or counted twice between two samples.
THEOREM FlushComplete == Spec => []FlushReportsAll
<1>1. BlockInv => FlushReportsAll
  <2> SUFFICES ASSUME ReportInv, phase = "flushed", NEW d \in Devs, device_stats[d] # None
               PROVE  Shown(cfg, reported[d], device_stats[d])
    BY DEF BlockInv, FlushReportsAll, Shown
  <2>. QED BY DEF ReportInv
<1>. QED BY <1>1, BlockInvariant, PTL

\* What histogram_percentile() reads off the power-of-two buckets of
\* latency_bucket() is an upper bound of the nearest-rank percentile of the
\* latencies completed since the previous sample, and at most twice it; past the
\* last bucket it is the end of the range.
THEOREM PercentilesAreBounds == Spec => []PercentileBound
BY WindowInvariant, PTL

=============================================================================

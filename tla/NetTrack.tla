------------------------------ MODULE NetTrack ------------------------------
(***************************************************************************)
(* The network tracker: the fexit programs that account every socket call  *)
(* to the host, to its process and to its peer (nettrack.bpf.c), and the   *)
(* sampler that turns the differences into counters (nettrack.rs).         *)
(*                                                                         *)
(* The host's map has one element per CPU and protocol; the maps of        *)
(* processes and peers are LRU maps that evict an entry when they are      *)
(* full.  The callback given by the kinetrace command always returns 0.    *)
(***************************************************************************)
EXTENDS Integers, FiniteSets, Sequences, FiniteSetsExt

CONSTANTS
    Cpus, Procs, Remotes,   \* processors, process ids, remote addresses
    None,
    CallKinds,              \* [proto, dir, ret, trunc]: the calls processes make
    Configs,                \* the [bpf.nettrack] sections a user may write
    Interval, PeerInterval, \* ns between two samples
    MaxTime, MaxCalls       \* bounds: instants, socket calls

ASSUME NetAssumption ==
    /\ Interval \in Nat \ {0} /\ PeerInterval \in Nat \ {0}
    /\ MaxTime \in Nat /\ MaxCalls \in Nat
    /\ None \notin Remotes
    /\ IsFiniteSet(Cpus)
    /\ \A k \in CallKinds : k.proto \in {"tcp", "udp"} /\ k.dir \in {"send", "receive"}

Protocols == {"tcp", "udp"}
Directions == {"send", "receive"}

\* The fields of struct net_stats.
Fields == (Directions \X {"bytes", "operations", "errors", "would_block"})
            \cup {<<"receive", "tcp_eof">>, <<"receive", "udp_truncated">>}

ProcessKeys == {<<p, proto>> : p \in Procs, proto \in Protocols}
PeerKeys    == {<<p, proto, a>> : p \in Procs, proto \in Protocols, a \in Remotes}

VARIABLES
    phase, cfg, now, calls,
    tracked_tgids,
    global_stats,           \* [Cpus -> [Protocols -> counts]]
    process_stats,          \* LRU map: ProcessKeys -> [n, first_seen_ns] or None
    peer_stats,             \* LRU map: PeerKeys -> [n, first_seen_ns] or None
    last_sample_ns, last_peer_sample_ns,
    global_previous, process_previous, peer_previous,
    peer_track_ids,         \* peers that have a track
    reported,               \* [host, process, peer]: sums of the counters emitted
    totals,                 \* sums of the total_send and total_recv counters
    truth,                  \* history: what each map's keys were really charged
    since,                  \* history: when host and process deltas were last taken
    spans                   \* history: <<elapsed used, time really covered>>

config  == <<phase, cfg>>
kernel  == <<global_stats, process_stats, peer_stats>>
sampler == <<last_sample_ns, last_peer_sample_ns, global_previous, process_previous,
             peer_previous, peer_track_ids, reported, totals, since, spans>>
vars    == <<config, now, calls, tracked_tgids, kernel, sampler, truth>>

(***************************************************************************)
(* Configuration.                                                          *)
(***************************************************************************)
validate(c) ==
    /\ c.frequency # 0
    /\ "peer" \in c.scopes => c.peer_frequency # 0
    /\ c.protocols # {} /\ c.directions # {} /\ c.scopes # {} /\ c.metrics # {}
    /\ "process" \in c.scopes => c.max_process_entries # 0
    /\ "peer" \in c.scopes => c.max_peer_entries # 0 /\ c.max_peer_tracks # 0

filter_enabled(c) == c.pid_filters # {} \/ c.filter_process

(***************************************************************************)
(* The BPF programs.                                                       *)
(***************************************************************************)
NoCounts == [f \in Fields |-> 0]

\* The fields update_stats() adds one to (a call that moves bytes moves one).
Charged(proto, dir, ret, trunc) ==
    LET kinds == IF ret \in {"EAGAIN", "error"}
                 THEN IF "errors" \in cfg.metrics
                      THEN {"errors"} \cup (IF ret = "EAGAIN" THEN {"would_block"} ELSE {})
                      ELSE {}
                 ELSE {k \in {"bytes", "operations", "tcp_eof", "udp_truncated"} :
                        /\ k \in {"bytes", "operations"} => k \in cfg.metrics
                        /\ k = "bytes" => ret = "bytes"
                        /\ k = "tcp_eof" => "operations" \in cfg.metrics /\ proto = "tcp" /\ ret = "zero"
                        /\ k = "udp_truncated" => "operations" \in cfg.metrics /\ proto = "udp" /\ trunc}
    IN  {f \in Fields : f[1] = dir /\ f[2] \in kinds}

update_stats(n, fields) == [f \in Fields |-> IF f \in fields THEN n[f] + 1 ELSE n[f]]

Used(map) == {k \in DOMAIN map : map[k] # None}

\* An entry is found and updated, or created in a free or evicted slot.
UpdateLru(map, k, limit, fields) ==
    IF map[k] # None
    THEN {[map EXCEPT ![k].n = update_stats(@, fields)]}
    ELSE LET new == [n |-> update_stats(NoCounts, fields), first_seen_ns |-> now]
         IN  IF Cardinality(Used(map)) < limit THEN {[map EXCEPT ![k] = new]}
             ELSE {[map EXCEPT ![k] = new, ![v] = None] : v \in Used(map)}

update_process_stats(p, proto, fields) ==
    IF "process" \notin cfg.scopes THEN process_stats' = process_stats
    ELSE process_stats' \in UpdateLru(process_stats, <<p, proto>>,
                                      cfg.max_process_entries, fields)

\* A TCP socket names its peer; a UDP call names it in the message or not at all
\* when the socket is not connected (a = None).
update_peer_stats(p, proto, a, fields) ==
    IF "peer" \notin cfg.scopes \/ a = None THEN peer_stats' = peer_stats
    ELSE peer_stats' \in UpdateLru(peer_stats, <<p, proto, a>>, cfg.max_peer_entries, fields)

should_track_tgid(p) == filter_enabled(cfg) => p \in tracked_tgids

account_socket_io(cpu, p, proto, dir, ret, trunc, a) ==
    LET fields == Charged(proto, dir, ret, trunc)
        charged(n) == update_stats(n, fields)
    IN  IF dir \notin cfg.directions \/ proto \notin cfg.protocols \/ ~should_track_tgid(p)
        THEN UNCHANGED <<kernel, truth>>
        ELSE /\ global_stats' = IF "host" \notin cfg.scopes THEN global_stats
                                ELSE [global_stats EXCEPT ![cpu][proto] = charged(@)]
             /\ update_process_stats(p, proto, fields)
             /\ update_peer_stats(p, proto, a, fields)
             /\ truth' = [host |-> [truth.host EXCEPT ![proto] = charged(@)],
                          process |-> [truth.process EXCEPT ![<<p, proto>>] = charged(@)],
                          peer |-> IF a = None THEN truth.peer
                                   ELSE [truth.peer EXCEPT ![<<p, proto, a>>] = charged(@)]]

\* A process calls sendmsg or recvmsg; the fexit program runs as it returns.
SocketCall ==
    /\ phase = "running" /\ calls < MaxCalls /\ calls' = calls + 1
    /\ \E cpu \in Cpus, p \in Procs, k \in CallKinds, a \in Remotes \cup {None} :
          /\ k.proto = "tcp" => a # None
          /\ account_socket_io(cpu, p, k.proto, k.dir, k.ret, k.trunc, a)
    /\ UNCHANGED <<config, now, tracked_tgids, sampler>>

Tick == now < MaxTime /\ now' = now + 1
        /\ UNCHANGED <<config, calls, tracked_tgids, kernel, sampler, truth>>

(***************************************************************************)
(* The sampler.                                                            *)
(***************************************************************************)
accumulate(m, n) == [f \in Fields |-> m[f] + n[f]]

Sub(m, n) == [f \in Fields |-> IF m[f] > n[f] THEN m[f] - n[f] ELSE 0]

\* Mutant: what was reported before is reported again.
delta_whole(s, p) == s.n

delta(s, p) ==
    IF p = None \/ p.first_seen_ns # s.first_seen_ns THEN s.n ELSE Sub(s.n, p.n)

\* The fields samples_for() turns into counters.
samples_for(proto) ==
    {f \in Fields :
        \/ f[2] \in cfg.metrics
        \/ f[2] = "would_block" /\ "errors" \in cfg.metrics
        \/ f[2] = (IF proto = "tcp" THEN "tcp_eof" ELSE "udp_truncated")
              /\ "operations" \in cfg.metrics}

Emit(sum, proto, d) == [f \in Fields |-> IF f \in samples_for(proto) THEN sum[f] + d[f] ELSE sum[f]]

\* Mutant: the busiest CPU stands for all.
read_global_max(proto) ==
    [f \in Fields |-> FoldSet(LAMBDA c, n : IF global_stats[c][proto][f] > n
                                          THEN global_stats[c][proto][f] ELSE n, 0, Cpus)]

\* read_global() adds up the elements of all CPUs.
read_global(proto) ==
    [f \in Fields |-> SumFunctionOnSet([c \in Cpus |-> global_stats[c][proto][f]], Cpus)]

HostDelta(proto) ==
    IF proto \in cfg.protocols /\ "host" \in cfg.scopes
    THEN Sub(read_global(proto), global_previous[proto]) ELSE NoCounts

sample_host ==
    IF "host" \notin cfg.scopes THEN UNCHANGED <<global_previous, totals>>
    ELSE /\ global_previous' = [proto \in Protocols |-> IF proto \in cfg.protocols
                                  THEN read_global(proto) ELSE global_previous[proto]]
         /\ totals' = accumulate(totals, accumulate(HostDelta("tcp"), HostDelta("udp")))

\* sample_host_and_processes(): reading the process map may fail after the host
\* counters are out; last_sample_ns is then left as it was.
Elapsed == IF now > last_sample_ns THEN now - last_sample_ns ELSE 1

sample_processes ==
    IF "process" \notin cfg.scopes THEN UNCHANGED process_previous
    ELSE process_previous' = [k \in ProcessKeys |-> IF process_stats[k] # None THEN process_stats[k]
                                                   ELSE process_previous[k]]

ReportedHost == [proto \in Protocols |-> Emit(reported.host[proto], proto, HostDelta(proto))]

ReportedProcess ==
    [k \in ProcessKeys |->
        IF "process" \in cfg.scopes /\ process_stats[k] # None
        THEN Emit(reported.process[k], k[2], delta(process_stats[k], process_previous[k]))
        ELSE reported.process[k]]

\* Mutant: the time of the sample is kept even when the process map was not read.
sample_host_and_processes_early(fails) ==
    /\ sample_host
    /\ last_sample_ns' = now
    /\ since' = [since EXCEPT !.host = now, !.process = IF fails THEN @ ELSE now]
    /\ spans' = {<<Elapsed, now - since.host>>} \cup
                (IF fails THEN {} ELSE {<<Elapsed, now - since.process>>})
    /\ IF fails THEN UNCHANGED process_previous ELSE sample_processes

sample_host_and_processes(fails) ==
    /\ sample_host
    /\ since' = [since EXCEPT !.host = now, !.process = IF fails THEN @ ELSE now]
    /\ spans' = {<<Elapsed, now - since.host>>} \cup
                (IF fails THEN {} ELSE {<<Elapsed, now - since.process>>})
    /\ IF fails THEN UNCHANGED <<process_previous, last_sample_ns>>
       ELSE sample_processes /\ last_sample_ns' = now

\* ensure_peer_track(): the peers with a track after those in live have been met
\* in some order; the first to come get the tracks that are left.
ensure_peer_track(live) ==
    {s \in SUBSET (peer_track_ids \cup live) :
        /\ peer_track_ids \subseteq s
        /\ Cardinality(s) <= cfg.max_peer_tracks
        /\ Cardinality(s) < cfg.max_peer_tracks => live \subseteq s}

\* A peer without a track is not reported, but its counts are taken as reported.
sample_peers(rep) ==
    LET live == Used(peer_stats)
    IN  /\ peer_track_ids' \in ensure_peer_track(live)
        /\ peer_previous' = [k \in PeerKeys |-> IF k \in live THEN peer_stats[k] ELSE peer_previous[k]]
        /\ last_peer_sample_ns' = now
        /\ reported' = [rep EXCEPT !.peer = [k \in PeerKeys |->
              IF k \in live /\ k \in peer_track_ids'
              THEN Emit(rep.peer[k], k[2], delta(peer_stats[k], peer_previous[k]))
              ELSE rep.peer[k]]]

\* sample_if_due(): an error of the first half leaves before the second.
sample_if_due(force) ==
    LET due     == force \/ now - last_sample_ns >= Interval
        peerdue == "peer" \in cfg.scopes /\ (force \/ now - last_peer_sample_ns >= PeerInterval)
    IN  \E fails \in {f \in BOOLEAN : f => due /\ "process" \in cfg.scopes} :
          LET rep == [reported EXCEPT !.host = IF due THEN ReportedHost ELSE @,
                                      !.process = IF due /\ ~fails THEN ReportedProcess ELSE @]
          IN  /\ IF due THEN sample_host_and_processes(fails)
                 ELSE UNCHANGED <<last_sample_ns, global_previous, process_previous, totals,
                                  since, spans>>
              /\ IF peerdue /\ ~fails THEN sample_peers(rep)
                 ELSE /\ reported' = rep
                      /\ UNCHANGED <<last_peer_sample_ns, peer_previous, peer_track_ids>>
              /\ phase' = IF ~force THEN phase ELSE IF fails THEN "flush_failed" ELSE "flushed"

consume ==
    /\ phase = "running" /\ sample_if_due(FALSE)
    /\ UNCHANGED <<cfg, now, calls, tracked_tgids, kernel, truth>>

flush ==
    /\ phase = "running" /\ sample_if_due(TRUE)
    /\ UNCHANGED <<cfg, now, calls, tracked_tgids, kernel, truth>>

\* The thread tracker's wrapper callback adds a process whose name matches.
filter(p) ==
    /\ phase = "running" /\ cfg.filter_process /\ p \notin tracked_tgids
    /\ tracked_tgids' = tracked_tgids \cup {p}
    /\ UNCHANGED <<config, now, calls, kernel, sampler, truth>>

build ==
    /\ phase = "config"
    /\ phase' = IF validate(cfg) THEN "running" ELSE "failed"
    /\ tracked_tgids' = cfg.pid_filters
    /\ last_sample_ns' = now /\ last_peer_sample_ns' = now
    /\ since' = [host |-> now, process |-> now]
    /\ UNCHANGED <<cfg, now, calls, kernel, global_previous, process_previous, peer_previous,
                   peer_track_ids, reported, totals, spans, truth>>

Init ==
    /\ phase = "config" /\ cfg \in Configs /\ now = 1 /\ calls = 0
    /\ tracked_tgids = {}
    /\ global_stats = [c \in Cpus |-> [proto \in Protocols |-> NoCounts]]
    /\ process_stats = [k \in ProcessKeys |-> None] /\ peer_stats = [k \in PeerKeys |-> None]
    /\ last_sample_ns = 0 /\ last_peer_sample_ns = 0
    /\ global_previous = [proto \in Protocols |-> NoCounts]
    /\ process_previous = [k \in ProcessKeys |-> None] /\ peer_previous = [k \in PeerKeys |-> None]
    /\ peer_track_ids = {}
    /\ reported = [host |-> [proto \in Protocols |-> NoCounts],
                   process |-> [k \in ProcessKeys |-> NoCounts],
                   peer |-> [k \in PeerKeys |-> NoCounts]]
    /\ totals = NoCounts
    /\ truth = reported
    /\ since = [host |-> 0, process |-> 0] /\ spans = {}

Next == build \/ SocketCall \/ Tick \/ consume \/ flush \/ \E p \in Procs : filter(p)

Spec == Init /\ [][Next]_vars

(***************************************************************************)
(* Properties.                                                             *)
(***************************************************************************)
\* After flush() the host counters of every protocol add up to what the sockets
\* moved on all CPUs, and the total counters to both protocols.
HostTotalsExact ==
    (phase \in {"flushed", "flush_failed"} /\ "host" \in cfg.scopes) =>
        /\ reported.host = truth.host
        /\ \A dir \in Directions :
             totals[<<dir, "bytes">>] = truth.host["tcp"][<<dir, "bytes">>]
                                        + truth.host["udp"][<<dir, "bytes">>]

\* No process and no peer is ever credited with more than it moved, although its
\* map entry may be evicted and created again between two samples.
NeverOvercounted ==
    \A f \in Fields :
        /\ \A k \in ProcessKeys : reported.process[k][f] <= truth.process[k][f]
        /\ \A k \in PeerKeys : reported.peer[k][f] <= truth.peer[k][f]

\* A rate is computed over at least the time in which its bytes were counted,
\* also after a sample that failed half way: rates are never overstated.
RateNotOverstated == \A s \in spans : s[1] >= s[2]
=============================================================================

----------------------------- MODULE MCNetTrack -----------------------------
EXTENDS NetTrack, TLC

CONSTANTS c1, c2, p1, p2, a1

Base ==
    [frequency |-> 9, peer_frequency |-> 1, scaled |-> FALSE, protocols |-> Protocols,
     directions |-> Directions, scopes |-> {"host", "process", "peer"},
     metrics |-> {"bytes"}, pid_filters |-> {}, filter_process |-> FALSE,
     max_process_entries |-> 1, max_peer_entries |-> 2, max_peer_tracks |-> 1]

MCConfigs ==
    {[Base EXCEPT !.scopes = {"host", "process"}],
     [Base EXCEPT !.metrics = {"operations", "errors"}, !.protocols = {"udp"},
                  !.scopes = {"process", "peer"}],
     [Base EXCEPT !.filter_process = TRUE, !.pid_filters = {p1}, !.scaled = TRUE,
                  !.scopes = {"host", "peer"}, !.directions = {"send"}],
     [Base EXCEPT !.max_peer_tracks = 0]}

Call(proto, dir, ret, trunc) == [proto |-> proto, dir |-> dir, ret |-> ret, trunc |-> trunc]
MCCallKinds ==
    {Call("tcp", "send", "bytes", FALSE), Call("tcp", "receive", "zero", FALSE),
     Call("udp", "receive", "bytes", TRUE), Call("udp", "send", "EAGAIN", FALSE)}

Symmetry == Permutations(Cpus)

=============================================================================

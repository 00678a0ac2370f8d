------------------------------- MODULE Converter ------------------------------
(***************************************************************************)
(* The end of the pipeline: PerfettoConverter (kinetrace/src/converter.rs) *)
(* and the stream writer under it (perfetto-format/src/lib.rs).  Messages  *)
(* arrive from the BPF modules and from the user ring in any order; the    *)
(* converter gives each track a uuid, announces it before its events, and  *)
(* appends packets to the file.  A write may fail: the caller logs the     *)
(* error and goes on with the next message.                                *)
(*                                                                         *)
(* A conversion is a function from the converter's state to the set of its *)
(* possible results; st.ok is the Result the code returns.                 *)
(***************************************************************************)
EXTENDS Naturals, Sequences, FiniteSets

CONSTANTS
    Pids, TidsOf,   \* processes, and [Pids -> their threads]
    Customs,        \* ids of custom tracks
    Counters,       \* ids of counter tracks
    MaxFailures,    \* bound: writes that fail
    MaxMessages     \* bound: messages converted

ASSUME ConverterConstants == MaxFailures \in Nat /\ MaxMessages \in Nat

VARIABLES
    track_map,      \* [track ids -> uuids]
    uuid_counter,   \* the next uuid
    file,           \* the packets written
    failures,       \* writes that have failed
    messages        \* messages converted so far

converterVars == <<track_map, uuid_counter, file, failures, messages>>

-----------------------------------------------------------------------------
(* TrackId and TrackType of protocol/src/lib.rs.                            *)

ProcessTrack(p) == <<"process", p, 0>>
ThreadTrack(p, t) == <<"thread", p, t>>
CustomTrack(i) == <<"custom", i, 0>>
CounterTrack(i) == <<"counter", i, 0>>

ProcessTracks == {ProcessTrack(p) : p \in Pids}
ThreadTracks == {ThreadTrack(p, t) : p \in Pids, t \in UNION {TidsOf[q] : q \in Pids}}
CustomTracks == {CustomTrack(i) : i \in Customs}
CounterTracks == {CounterTrack(i) : i \in Counters}
TrackIds == {id \in ThreadTracks : id[3] \in TidsOf[id[2]]}
                \cup ProcessTracks \cup CustomTracks \cup CounterTracks

NoParent == <<"none", 0, 0>>

-----------------------------------------------------------------------------
(* PerfettoStreamWriter.                                                    *)

St == [ok |-> TRUE, ret |-> 0, map |-> track_map, next |-> uuid_counter,
       file |-> file, failures |-> failures]

\* The ? operator: go on with every result that is Ok.
Then(results, F(_)) == UNION {IF r.ok THEN F(r) ELSE {r} : r \in results}

write_packet(st, packet) ==
    {[st EXCEPT !.file = Append(@, packet)]}
        \cup (IF st.failures < MaxFailures
                THEN {[st EXCEPT !.ok = FALSE, !.failures = @ + 1]} ELSE {})

Descriptor(uuid, id, parent, named) ==
    [type |-> "track", uuid |-> uuid, id |-> id, parent |-> parent, named |-> named]

\* write_process_descriptor, write_thread_descriptor, write_generic_track and
\* write_counter_track: take the next uuid, then write.
write_descriptor(st, id, parent, named) ==
    Then(write_packet([st EXCEPT !.next = @ + 1], Descriptor(st.next, id, parent, named)),
         LAMBDA r : {[r EXCEPT !.ret = st.next]})

OnTrack(type, uuid) == [type |-> type, uuid |-> uuid]

-----------------------------------------------------------------------------
(* PerfettoConverter.                                                       *)

Insert(st, id, uuid) ==
    [st EXCEPT !.map = [k \in DOMAIN @ \cup {id} |-> IF k = id THEN uuid ELSE @[k]],
               !.ret = uuid]

ensure_process_track_early(st, p, named) ==
    LET id == ProcessTrack(p)
    IN  IF id \in DOMAIN st.map THEN {[st EXCEPT !.ret = st.map[id]]}
        ELSE write_descriptor(Insert(st, id, st.next), id, 0, named)

ensure_process_track(st, p, named) ==
    LET id == ProcessTrack(p)
    IN  IF id \in DOMAIN st.map THEN {[st EXCEPT !.ret = st.map[id]]}
        ELSE Then(write_descriptor(st, id, 0, named), LAMBDA r : {Insert(r, id, r.ret)})

\* A thread that is known already is described again when it is given a name.
ensure_thread_track(st, p, t, named) ==
    LET id == ThreadTrack(p, t)
    IN  IF id \in DOMAIN st.map
          THEN IF named
                 THEN Then(ensure_process_track(st, p, FALSE),
                           LAMBDA r : Then(write_packet(r, Descriptor(st.map[id], id, r.ret, TRUE)),
                                           LAMBDA q : {[q EXCEPT !.ret = st.map[id]]}))
                 ELSE {[st EXCEPT !.ret = st.map[id]]}
          ELSE Then(ensure_process_track(st, p, FALSE),
                    LAMBDA r : Then(write_descriptor(r, id, r.ret, named),
                                    LAMBDA q : {Insert(q, id, q.ret)}))

\* A process or thread that was never announced is announced here, without a
\* name; 0 stands for a track of another kind that was not announced.
Resolve(st, id) ==
    IF id \in DOMAIN st.map THEN {[st EXCEPT !.ret = st.map[id]]}
    ELSE IF id[1] = "thread" THEN ensure_thread_track(st, id[2], id[3], FALSE)
    ELSE IF id[1] = "process" THEN ensure_process_track(st, id[2], FALSE)
    ELSE {[st EXCEPT !.ret = 0]}

convert_span_unclosed(st, id) ==
    Then(Resolve(st, id),
         LAMBDA r : IF r.ret = 0 THEN {r}
                    ELSE Then(write_packet(r, OnTrack("begin", r.ret)),
                              LAMBDA q : write_packet(q, OnTrack("end", q.next - 1))))

\* An event of an unknown custom track is dropped.
convert_span(st, id) ==
    Then(Resolve(st, id),
         LAMBDA r : IF r.ret = 0 THEN {r}
                    ELSE Then(write_packet(r, OnTrack("begin", r.ret)),
                              LAMBDA q : write_packet(q, OnTrack("end", r.ret))))

convert_instant(st, id) ==
    Then(Resolve(st, id),
         LAMBDA r : IF r.ret = 0 THEN {r} ELSE write_packet(r, OnTrack("instant", r.ret)))

\* A counter value of a track that was not announced is dropped.
convert_counter(st, id) ==
    IF id \in DOMAIN st.map THEN write_packet(st, OnTrack("counter", st.map[id])) ELSE {st}

\* Only the first announcement of a track counts.  The parent is announced
\* first; a custom or counter parent that is unknown is left out.
convert_track(st, id, parent) ==
    IF id \in DOMAIN st.map THEN {st}
    ELSE Then(IF parent = NoParent THEN {[st EXCEPT !.ret = 0]} ELSE Resolve(st, parent),
              LAMBDA r :
                  CASE id[1] = "process" -> ensure_process_track(r, id[2], TRUE)
                    [] id[1] = "thread" -> ensure_thread_track(r, id[2], id[3], TRUE)
                    [] OTHER -> Then(write_descriptor(r, id, r.ret, TRUE),
                                     LAMBDA q : {Insert(q, id, q.ret)}))

\* What the senders announce: threads under their process, custom and counter
\* tracks under a thread, a process or nothing.
Parents(id) ==
    CASE id[1] = "process" -> {NoParent}
      [] id[1] = "thread" -> {ProcessTrack(id[2])}
      [] OTHER -> {NoParent} \cup {k \in TrackIds : k[1] \in {"thread", "custom"} /\ k # id}

\* convert_message and convert_archived_event; the error is logged by the caller.
Commit(results) ==
    /\ messages < MaxMessages
    /\ messages' = messages + 1
    /\ \E r \in results :
           /\ track_map' = r.map
           /\ uuid_counter' = r.next
           /\ file' = r.file
           /\ failures' = r.failures

convert_event ==
    \/ \E id \in TrackIds : \E parent \in Parents(id) : Commit(convert_track(St, id, parent))
    \/ \E id \in TrackIds \ CounterTracks :
           Commit(convert_span(St, id)) \/ Commit(convert_instant(St, id))
    \/ \E id \in CounterTracks : Commit(convert_counter(St, id))

ConverterInit ==
    /\ track_map = [id \in {} |-> 0]
    /\ uuid_counter = 1
    /\ file = <<>>
    /\ failures = 0
    /\ messages = 0

-----------------------------------------------------------------------------
Describes(i, uuid) == file[i].type = "track" /\ file[i].uuid = uuid

\* An event is on a track whose descriptor is in the file before it, and a
\* descriptor follows that of its parent: no reader meets an unknown uuid, even
\* after writes have failed.
TracksFirst ==
    \A i \in DOMAIN file :
        /\ file[i].type \in {"begin", "end", "instant", "counter"} =>
               \E j \in 1 .. (i - 1) : Describes(j, file[i].uuid)
        /\ file[i].type = "track" /\ file[i].parent # 0 =>
               \E j \in 1 .. (i - 1) : Describes(j, file[i].parent)

\* Every slice that is opened is closed on its own track before the next one,
\* but for a slice whose closing packet could not be written.
SlicesClosed ==
    Cardinality({i \in DOMAIN file :
                    /\ file[i].type = "begin"
                    /\ ~ /\ i + 1 \in DOMAIN file
                         /\ file[i + 1] = OnTrack("end", file[i].uuid)}) <= failures
=============================================================================

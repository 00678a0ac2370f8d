------------------------- MODULE SchedSystem_proof -------------------------
(***************************************************************************)
(* The modules on the scheduler's tracepoints and the processors' timers,  *)
(* each with the invariant it needs.                                       *)
(*                                                                         *)
(* The spans of the scheduler tracer do not overlap, and say what the      *)
(* thread did: for any number of processors and threads, any sizes of the  *)
(* LRU map and of the ring buffer, whatever is evicted or dropped, filters *)
(* that grow while tracing, and thread ids that are used again.            *)
(*                                                                         *)
(* Every span ends when it is sent, and the entry of its thread then       *)
(* starts anew or is deleted: so no entry of the map is older than the end *)
(* of the thread's last span.  And an entry is the thread's real state     *)
(* since a time when it already had that state, or it was left by a dead   *)
(* thread whose id nobody has taken yet.                                   *)
(*                                                                         *)
(* The increments the performance counters send add up to what the         *)
(* counters read.  The processor time of a thread is counted in units of   *)
(* time: those of the slice open on its processor move into the ring       *)
(* buffer, from there into the statistics and from there into a report,    *)
(* and none is counted twice.                                              *)
(***************************************************************************)
EXTENDS SchedSystem, TLAPS, FiniteSetTheorems, WellFoundedInduction, NaturalsInduction

-----------------------------------------------------------------------------
(* The inductive invariant.                                                 *)

Kinds == {"running", "blocked", "runnable"}
Entries == [state : Kinds, since : Nat, exiting : BOOLEAN]
Spans == [tid : Tids, kind : Kinds, start : Nat, end : Nat]
ThreadRecords == [state : Kinds \cup {"none"}, since : Nat, exiting : BOOLEAN,
                  syscall : BOOLEAN, used : BOOLEAN]

WorldOK ==
    /\ now \in Nat /\ cpu \in [CPUs -> Tids \cup {Idle}]
    /\ thread \in [Tids -> ThreadRecords]
    /\ \A t \in Tids : thread[t].since <= now
    /\ lastEnd \in [Tids -> Nat]
    /\ \A t \in Tids : lastEnd[t] <= now

Shape(maps) ==
    /\ DOMAIN maps = {"states", "events", "wrong"}
    /\ DOMAIN maps.states \subseteq Tids
    /\ \A t \in DOMAIN maps.states : maps.states[t] \in Entries /\ maps.states[t].since <= now
    /\ maps.events \in Seq(Spans)

Ordered(q) ==
    \A i \in 1 .. Len(q) :
        /\ q[i].start >= lastEnd[q[i].tid] /\ q[i].end <= now
        /\ \A j \in 1 .. (i - 1) : q[j].tid = q[i].tid => q[j].end <= q[i].start

\* The spans of t sent so far end before its entry begins.
Behind(maps, t) ==
    /\ lastEnd[t] <= maps.states[t].since
    /\ \A i \in 1 .. Len(maps.events) :
           maps.events[i].tid = t => maps.events[i].end <= maps.states[t].since

\* While a program works on t its entry may be older than the span just sent.
MapsBut(maps, t) ==
    Shape(maps) /\ Ordered(maps.events) /\ \A u \in DOMAIN maps.states : u # t => Behind(maps, u)

MapsOK(maps) ==
    Shape(maps) /\ Ordered(maps.events) /\ \A u \in DOMAIN maps.states : Behind(maps, u)

\* What an entry says of a thread.  It is wrong of a dead thread, and of a
\* thread that was about to sleep and woken on its processor while it had no
\* entry: the entry is then replaced before a span is sent from it.
EntryTrue(entry, th) ==
    \/ entry.state = th.state /\ th.since <= entry.since
    \/ entry.state = "blocked" /\ th.state = "none" /\ th.used
    \/ entry.state = "runnable" /\ th.state = "running"

TrueInv == \A t \in DOMAIN task_states : EntryTrue(task_states[t], thread[t])

\* Only threads that are tracked have entries.
TrackedInv ==
    /\ \A t \in DOMAIN task_states : should_track_tgid(t)
    /\ "schedtrace" \notin attached => tracked_tgids = {}

WrongInv == \A s \in wrong : s.tid \in Tids /\ s.kind = "blocked" /\ thread[s.tid].used

SchedInv == WorldOK /\ MapsOK(Maps) /\ TrueInv /\ TrackedInv /\ WrongInv

-----------------------------------------------------------------------------
(* The helpers of the programs.                                             *)

\* A span that the programs send although the thread did something else.
NewWrong(maps, t, s) ==
    /\ t \in DOMAIN maps.states /\ s.tid = t
    /\ s.kind = maps.states[t].state
    /\ ~TrueSpan(t, maps.states[t].state, maps.states[t].since)

LEMMA EmitSpan ==
    ASSUME WorldOK, NEW maps, MapsOK(maps), NEW t \in DOMAIN maps.states, NEW kind,
           kind = maps.states[t].state, NEW r, r = emit_span(maps, t, kind)
    PROVE  /\ MapsBut(r, t) /\ r.states = maps.states
           /\ \A s \in r.wrong : s \in maps.wrong \/ NewWrong(maps, t, s)
<1>1. /\ t \in Tids /\ maps.states[t] \in Entries /\ maps.states[t].since \in Nat
      /\ kind \in Kinds /\ now \in Nat /\ maps.events \in Seq(Spans)
  BY DEF MapsOK, Shape, Entries, WorldOK
<1>2. PICK since : since = maps.states[t].since  OBVIOUS
<1>3. CASE r = maps  BY <1>3 DEF MapsOK, MapsBut
<1>4. CASE r # maps
  <2>1. PICK span : span = [tid |-> t, kind |-> kind, start |-> since, end |-> now]  OBVIOUS
  <2>2. PICK w : w = IF TrueSpan(t, kind, since) THEN maps.wrong ELSE maps.wrong \cup {span}
    OBVIOUS
  <2>3. span \in Spans /\ span.tid = t /\ span.kind = kind /\ span.start = since /\ span.end = now
    BY <1>1, <1>2, <2>1 DEF Spans
  <2>4. r = [maps EXCEPT !.events = Append(@, span), !.wrong = w]
    BY <1>2, <1>4, <2>1, <2>2 DEF emit_span
  <2>5. PICK q : q = Append(maps.events, span)  OBVIOUS
  <2>6. /\ DOMAIN r = DOMAIN maps /\ r.states = maps.states /\ r.events = q /\ r.wrong = w
    BY <2>2, <2>4, <2>5 DEF MapsOK, Shape
  <2>7. /\ q \in Seq(Spans) /\ Len(q) = Len(maps.events) + 1 /\ Len(maps.events) \in Nat
        /\ q[Len(maps.events) + 1] = span
        /\ \A i \in 1 .. Len(maps.events) : q[i] = maps.events[i]
    BY <1>1, <2>3, <2>5
  <2>8. \A i \in 1 .. Len(q) : i \in 1 .. Len(maps.events) \/ i = Len(maps.events) + 1
    BY <2>7
  <2>9. Shape(r)  BY <2>6, <2>7 DEF MapsOK, Shape
  <2>10. Ordered(q)
    <3> SUFFICES ASSUME NEW i \in 1 .. Len(q)
                 PROVE  /\ q[i].start >= lastEnd[q[i].tid] /\ q[i].end <= now
                        /\ \A j \in 1 .. (i - 1) : q[j].tid = q[i].tid => q[j].end <= q[i].start
      BY DEF Ordered
    <3>1. CASE i \in 1 .. Len(maps.events)
      <4>1. q[i] = maps.events[i] /\ \A j \in 1 .. (i - 1) : q[j] = maps.events[j]
        BY <2>7, <3>1
      <4>2. QED  BY <3>1, <4>1 DEF MapsOK, Ordered
    <3>2. CASE i = Len(maps.events) + 1
      <4>1. Behind(maps, t)  BY DEF MapsOK
      <4>2. q[i] = span /\ \A j \in 1 .. (i - 1) : j \in 1 .. Len(maps.events) /\ q[j] = maps.events[j]
        BY <2>7, <3>2
      <4>3. q[i].start >= lastEnd[q[i].tid]
        <5>1. lastEnd[t] \in Nat /\ lastEnd[t] <= since  BY <1>1, <1>2, <4>1 DEF Behind, WorldOK
        <5>2. QED  BY <1>1, <1>2, <2>3, <4>2, <5>1
      <4>4. q[i].end <= now  BY <1>1, <2>3, <4>2
      <4>5. \A j \in 1 .. (i - 1) : q[j].tid = q[i].tid => q[j].end <= q[i].start
        BY <1>2, <2>3, <4>1, <4>2 DEF Behind
      <4>6. QED  BY <4>3, <4>4, <4>5
    <3>3. QED  BY <2>8, <3>1, <3>2
  <2>11. \A u \in DOMAIN r.states : u # t => Behind(r, u)
    <3> SUFFICES ASSUME NEW u \in DOMAIN maps.states, u # t PROVE Behind(r, u)  BY <2>6
    <3>1. Behind(maps, u)  BY DEF MapsOK
    <3>2. \A i \in 1 .. Len(q) : q[i].tid = u => i \in 1 .. Len(maps.events)  BY <2>3, <2>7, <2>8
    <3>3. QED  BY <2>6, <2>7, <3>1, <3>2 DEF Behind
  <2>12. \A s \in r.wrong : s \in maps.wrong \/ NewWrong(maps, t, s)
    BY <1>2, <2>2, <2>3, <2>6 DEF NewWrong
  <2>13. QED  BY <2>6, <2>9, <2>10, <2>11, <2>12 DEF MapsBut
<1>5. QED  BY <1>3, <1>4

\* A new entry for t begins now.
LEMMA PutEntry ==
    ASSUME WorldOK, NEW t \in Tids, NEW maps, MapsBut(maps, t), NEW entry \in Entries,
           entry.since = now, NEW r \in Put(maps, t, entry)
    PROVE  /\ MapsOK(r) /\ r.wrong = maps.wrong /\ t \in DOMAIN r.states /\ r.states[t] = entry
           /\ \A u \in DOMAIN r.states : u # t =>
                  u \in DOMAIN maps.states /\ r.states[u] = maps.states[u]
<1>1. PICK gone : r = [maps EXCEPT !.states =
                           [u \in (DOMAIN maps.states \ gone) \cup {t} |->
                                IF u = t THEN entry ELSE maps.states[u]]]
  <2> DEFINE Kept(gone) == [u \in (DOMAIN maps.states \ gone) \cup {t} |->
                                IF u = t THEN entry ELSE maps.states[u]]
  <2>1. r \in {[maps EXCEPT !.states = Kept({u})] : u \in DOMAIN maps.states}
        \/ r \in {[maps EXCEPT !.states = Kept({})]}
    BY DEF Put
  <2> HIDE DEF Kept
  <2>2. \E gone : r = [maps EXCEPT !.states = Kept(gone)]  BY <2>1
  <2>3. QED  BY <2>2 DEF Kept
<1>2. PICK states : states = [u \in (DOMAIN maps.states \ gone) \cup {t} |->
                                  IF u = t THEN entry ELSE maps.states[u]]
  OBVIOUS
<1>3. /\ DOMAIN r = DOMAIN maps /\ r.states = states /\ r.events = maps.events
      /\ r.wrong = maps.wrong
  BY <1>1, <1>2 DEF MapsBut, Shape
<1>4. /\ t \in DOMAIN states /\ states[t] = entry
      /\ \A u \in DOMAIN states : u # t => u \in DOMAIN maps.states /\ states[u] = maps.states[u]
  BY <1>2
<1>5. Shape(r)
  <2>1. now <= now /\ now \in Nat  BY DEF WorldOK
  <2>2. QED  BY <1>3, <1>4, <2>1 DEF MapsBut, Shape
<1>6. Behind(r, t)
  BY <1>3, <1>4 DEF MapsBut, Ordered, Behind, WorldOK
<1>7. \A u \in DOMAIN r.states : u # t => Behind(r, u)
  BY <1>3, <1>4 DEF MapsBut, Behind
<1>8. QED  BY <1>3, <1>4, <1>5, <1>6, <1>7 DEF MapsOK, MapsBut

LEMMA DeleteEntry ==
    ASSUME NEW t, NEW maps, MapsBut(maps, t), NEW r, r = Delete(maps, t)
    PROVE  /\ MapsOK(r) /\ r.wrong = maps.wrong /\ t \notin DOMAIN r.states
           /\ \A u \in DOMAIN r.states : u \in DOMAIN maps.states /\ r.states[u] = maps.states[u]
<1>1. PICK states : states = [u \in DOMAIN maps.states \ {t} |-> maps.states[u]]  OBVIOUS
<1>2. /\ DOMAIN r = DOMAIN maps /\ r.states = states /\ r.events = maps.events
      /\ r.wrong = maps.wrong
  BY <1>1 DEF MapsBut, Shape, Delete
<1>3. /\ t \notin DOMAIN states
      /\ \A u \in DOMAIN states : u # t /\ u \in DOMAIN maps.states /\ states[u] = maps.states[u]
  BY <1>1
<1>4. Shape(r)  BY <1>2, <1>3 DEF MapsBut, Shape
<1>5. \A u \in DOMAIN r.states : Behind(r, u)  BY <1>2, <1>3 DEF MapsBut, Behind
<1>6. QED  BY <1>2, <1>3, <1>4, <1>5 DEF MapsOK, MapsBut

-----------------------------------------------------------------------------
(* The programs.                                                            *)

\* What a program that handles t leaves.
Handled(maps, t, r) ==
    /\ MapsOK(r)
    /\ \A u \in DOMAIN r.states : u # t =>
           u \in DOMAIN maps.states /\ r.states[u] = maps.states[u]
    /\ \A u \in DOMAIN r.states : should_track_tgid(u)
    /\ \A s \in r.wrong : s \in maps.wrong \/ NewWrong(maps, t, s)

Tracked(maps) == \A u \in DOMAIN maps.states : should_track_tgid(u)

\* After the span, the new entry.
LEMMA SentAndPut ==
    ASSUME WorldOK, NEW maps, MapsOK(maps), Tracked(maps), NEW t \in Tids, should_track_tgid(t),
           NEW sent, MapsBut(sent, t), sent.states = maps.states,
           \A s \in sent.wrong : s \in maps.wrong \/ NewWrong(maps, t, s),
           NEW entry \in Entries, entry.since = now, NEW r \in Put(sent, t, entry)
    PROVE  /\ Handled(maps, t, r) /\ r.states[t] = entry /\ t \in DOMAIN r.states
           /\ r.wrong = sent.wrong
<1>1. /\ MapsOK(r) /\ r.wrong = sent.wrong /\ t \in DOMAIN r.states /\ r.states[t] = entry
      /\ \A u \in DOMAIN r.states : u # t =>
             u \in DOMAIN sent.states /\ r.states[u] = sent.states[u]
  BY PutEntry
<1>2. QED  BY <1>1 DEF Handled, Tracked

LEMMA EntryFacts ==
    ASSUME WorldOK, NEW state \in Kinds
    PROVE  Entry(state) \in Entries /\ Entry(state).since = now /\ Entry(state).state = state
  BY DEF Entry, Entries, WorldOK

LEMMA OffCpu ==
    ASSUME WorldOK, NEW maps, MapsOK(maps), Tracked(maps), NEW t \in Tids \cup {Idle}, NEW reason,
           NEW r \in handle_task_off_cpu(maps, t, reason)
    PROVE  /\ Handled(maps, t, r)
           /\ \A s \in r.wrong : s \in maps.wrong \/ s.kind = "running"
           /\ t \in DOMAIN r.states =>
                  /\ r.states[t].since = now
                  /\ r.states[t].state = IF reason \in {"preempt", "yield"} THEN "runnable" ELSE "blocked"
<1>1. CASE ~should_track_tgid(t)
  <2>1. r = maps /\ t \notin DOMAIN maps.states  BY <1>1 DEF handle_task_off_cpu, Tracked
  <2>2. QED  BY <2>1 DEF Handled, Tracked
<1>2. CASE should_track_tgid(t)
  <2> t \in Tids  BY <1>2 DEF should_track_tgid
  <2>1. PICK sent : sent = IF t \in DOMAIN maps.states /\ maps.states[t].state = "running"
                             THEN emit_span(maps, t, "running") ELSE maps
    OBVIOUS
  <2>2. /\ MapsBut(sent, t) /\ sent.states = maps.states
        /\ \A s \in sent.wrong : s \in maps.wrong \/ NewWrong(maps, t, s)
        /\ \A s \in sent.wrong : s \in maps.wrong \/ s.kind = "running"
    <3>1. CASE t \in DOMAIN maps.states /\ maps.states[t].state = "running"
      <4>1. sent = emit_span(maps, t, "running")  BY <2>1, <3>1
      <4>2. /\ MapsBut(sent, t) /\ sent.states = maps.states
            /\ \A s \in sent.wrong : s \in maps.wrong \/ NewWrong(maps, t, s)
        BY <3>1, <4>1, EmitSpan
      <4>3. QED  BY <3>1, <4>2 DEF NewWrong
    <3>2. CASE sent = maps  BY <3>2 DEF MapsOK, MapsBut
    <3>3. QED  BY <2>1, <3>1, <3>2
  <2>3. PICK k \in Kinds : k = IF reason \in {"preempt", "yield"} THEN "runnable" ELSE "blocked"
    BY DEF Kinds
  <2>4. PICK entry \in Entries : entry = Entry(k) /\ entry.since = now /\ entry.state = k
    BY EntryFacts
  <2>5. CASE t \in DOMAIN maps.states /\ maps.states[t].exiting
    <3>1. r = Delete(sent, t)  BY <1>2, <2>1, <2>5 DEF handle_task_off_cpu
    <3>2. /\ MapsOK(r) /\ r.wrong = sent.wrong /\ t \notin DOMAIN r.states
          /\ \A u \in DOMAIN r.states : u \in DOMAIN sent.states /\ r.states[u] = sent.states[u]
      BY <2>2, <3>1, DeleteEntry
    <3>3. QED  BY <2>2, <3>2 DEF Handled, Tracked
  <2>6. CASE ~(t \in DOMAIN maps.states /\ maps.states[t].exiting)
    <3>1. r \in Put(sent, t, entry)  BY <1>2, <2>1, <2>3, <2>4, <2>6 DEF handle_task_off_cpu
    <3>2. Handled(maps, t, r) /\ r.states[t] = entry /\ r.wrong = sent.wrong
      BY <1>2, <2>2, <2>4, <3>1, SentAndPut
    <3>3. QED  BY <2>2, <2>3, <2>4, <3>2
  <2>7. QED  BY <2>5, <2>6
<1>3. QED  BY <1>1, <1>2

LEMMA OnCpu ==
    ASSUME WorldOK, NEW maps, MapsOK(maps), Tracked(maps), NEW t \in Tids \cup {Idle},
           NEW r \in handle_task_on_cpu(maps, t)
    PROVE  /\ Handled(maps, t, r)
           /\ t \in DOMAIN r.states => r.states[t].since = now /\ r.states[t].state = "running"
<1>1. CASE ~should_track_tgid(t)
  <2>1. r = maps /\ t \notin DOMAIN maps.states  BY <1>1 DEF handle_task_on_cpu, Tracked
  <2>2. QED  BY <2>1 DEF Handled, Tracked
<1>2. CASE should_track_tgid(t)
  <2> t \in Tids  BY <1>2 DEF should_track_tgid
  <2>1. PICK sent : sent = IF t \in DOMAIN maps.states /\ maps.states[t].state # "running"
                             THEN emit_span(maps, t, maps.states[t].state) ELSE maps
    OBVIOUS
  <2>2. /\ MapsBut(sent, t) /\ sent.states = maps.states
        /\ \A s \in sent.wrong : s \in maps.wrong \/ NewWrong(maps, t, s)
    <3>1. CASE t \in DOMAIN maps.states /\ maps.states[t].state # "running"
      <4>1. PICK k : k = maps.states[t].state  OBVIOUS
      <4>2. sent = emit_span(maps, t, k)  BY <2>1, <3>1, <4>1
      <4>3. QED  BY <3>1, <4>1, <4>2, EmitSpan
    <3>2. CASE sent = maps  BY <3>2 DEF MapsOK, MapsBut
    <3>3. QED  BY <2>1, <3>1, <3>2
  <2>3. "running" \in Kinds  BY DEF Kinds
  <2>4. PICK entry \in Entries : entry = Entry("running") /\ entry.since = now /\ entry.state = "running"
    BY <2>3, EntryFacts
  <2>5. r \in Put(sent, t, entry)  BY <1>2, <2>1, <2>4 DEF handle_task_on_cpu
  <2>6. Handled(maps, t, r) /\ r.states[t] = entry  BY <1>2, <2>2, <2>4, <2>5, SentAndPut
  <2>7. QED  BY <2>4, <2>6
<1>3. QED  BY <1>1, <1>2

\* The entry of t changes in place.
LEMMA EntryChanges ==
    ASSUME WorldOK, NEW maps, NEW t \in DOMAIN maps.states, MapsBut(maps, t),
           NEW entry \in Entries, NEW r, r = [maps EXCEPT !.states = [@ EXCEPT ![t] = entry]],
           entry.since = now \/ (entry.since = maps.states[t].since /\ Behind(maps, t))
    PROVE  /\ MapsOK(r) /\ r.wrong = maps.wrong /\ r.states[t] = entry
           /\ DOMAIN r.states = DOMAIN maps.states
           /\ \A u \in DOMAIN r.states : u # t => r.states[u] = maps.states[u]
<1>1. PICK states : states = [maps.states EXCEPT ![t] = entry]  OBVIOUS
<1>2. /\ DOMAIN r = DOMAIN maps /\ r.states = states /\ r.events = maps.events
      /\ r.wrong = maps.wrong
  BY <1>1 DEF MapsBut, Shape
<1>3. /\ DOMAIN states = DOMAIN maps.states /\ states[t] = entry
      /\ \A u \in DOMAIN states : u # t => states[u] = maps.states[u]
  BY <1>1
<1>4. entry.since <= now  BY DEF WorldOK, MapsBut, Shape
<1>5. Shape(r)  BY <1>2, <1>3, <1>4 DEF MapsBut, Shape
<1>6. t \in Tids  BY DEF MapsBut, Shape
<1>7. Behind(r, t)
  <2>1. CASE entry.since = now  BY <1>2, <1>3, <1>6, <2>1 DEF MapsBut, Ordered, Behind, WorldOK
  <2>2. CASE entry.since = maps.states[t].since /\ Behind(maps, t)
    BY <1>2, <1>3, <2>2 DEF Behind
  <2>3. QED  BY <2>1, <2>2
<1>8. \A u \in DOMAIN r.states : u # t => Behind(r, u)
  BY <1>2, <1>3 DEF MapsBut, Behind
<1>9. QED  BY <1>2, <1>3, <1>5, <1>7, <1>8 DEF MapsOK, MapsBut

LEMMA TaskWakeup ==
    ASSUME WorldOK, NEW maps, MapsOK(maps), Tracked(maps), NEW t \in Tids,
           NEW r \in handle_task_wakeup(maps, t)
    PROVE  /\ Handled(maps, t, r)
           /\ \A s \in r.wrong : s \in maps.wrong \/ s.kind = "blocked"
           /\ t \in DOMAIN r.states =>
                  \/ r.states[t].since = now /\ r.states[t].state = "runnable"
                  \/ /\ t \in DOMAIN maps.states /\ maps.states[t].state # "blocked"
                     /\ r.states[t] = maps.states[t]
<1>1. CASE ~should_track_tgid(t)
  <2>1. r = maps /\ t \notin DOMAIN maps.states  BY <1>1 DEF handle_task_wakeup, Tracked
  <2>2. QED  BY <2>1 DEF Handled, Tracked
<1>2. CASE should_track_tgid(t) /\ t \in DOMAIN maps.states /\ maps.states[t].state # "blocked"
  <2>1. r = maps  BY <1>2 DEF handle_task_wakeup
  <2>2. QED  BY <1>2, <2>1 DEF Handled, Tracked
<1>3. CASE should_track_tgid(t) /\ t \in DOMAIN maps.states /\ maps.states[t].state = "blocked"
  <2>1. PICK sent : sent = emit_span(maps, t, "blocked")  OBVIOUS
  <2>2. /\ MapsBut(sent, t) /\ sent.states = maps.states
        /\ \A s \in sent.wrong : s \in maps.wrong \/ NewWrong(maps, t, s)
    BY <1>3, <2>1, EmitSpan
  <2>3. r = [sent EXCEPT !.states[t].state = "runnable", !.states[t].since = now]
    BY <1>3, <2>1 DEF handle_task_wakeup
  <2>4. sent.states[t] \in Entries  BY <1>3, <2>2 DEF MapsOK, Shape
  <2>5. PICK entry \in Entries : /\ entry = [sent.states[t] EXCEPT !.state = "runnable", !.since = now]
                                 /\ entry.since = now /\ entry.state = "runnable"
    <3> DEFINE x == [sent.states[t] EXCEPT !.state = "runnable", !.since = now]
    <3>1. x \in Entries /\ x.since = now /\ x.state = "runnable"
      BY <2>4 DEF Entries, WorldOK, Kinds
    <3>2. QED  BY <3>1
  <2>6. DOMAIN sent = {"states", "events", "wrong"} /\ t \in DOMAIN sent.states
    BY <1>3, <2>2 DEF MapsBut, Shape
  <2>7. r = [sent EXCEPT !.states = [@ EXCEPT ![t] = entry]]  BY <2>3, <2>5, <2>6
  <2>8. /\ MapsOK(r) /\ r.wrong = sent.wrong /\ r.states[t] = entry
        /\ DOMAIN r.states = DOMAIN sent.states
        /\ \A u \in DOMAIN r.states : u # t => r.states[u] = sent.states[u]
    BY <2>2, <2>5, <2>6, <2>7, EntryChanges
  <2>9. \A s \in sent.wrong : s \in maps.wrong \/ s.kind = "blocked"  BY <1>3, <2>2 DEF NewWrong
  <2>10. QED  BY <2>2, <2>5, <2>8, <2>9 DEF Handled, Tracked
<1>4. CASE should_track_tgid(t) /\ t \notin DOMAIN maps.states
  <2>1. "runnable" \in Kinds  BY DEF Kinds
  <2>2. PICK entry \in Entries : entry = Entry("runnable") /\ entry.since = now /\ entry.state = "runnable"
    BY <2>1, EntryFacts
  <2>3. r \in Put(maps, t, entry)  BY <1>4, <2>2 DEF handle_task_wakeup
  <2>4. MapsBut(maps, t)  BY DEF MapsOK, MapsBut
  <2>5. Handled(maps, t, r) /\ r.states[t] = entry /\ r.wrong = maps.wrong
    BY <1>4, <2>2, <2>3, <2>4, SentAndPut
  <2>6. QED  BY <2>2, <2>5
<1>5. QED  BY <1>1, <1>2, <1>3, <1>4

LEMMA ProcessExits ==
    ASSUME WorldOK, NEW maps, MapsOK(maps), Tracked(maps), NEW t \in Tids,
           NEW r \in handle_sched_process_exit(maps, t)
    PROVE  /\ Handled(maps, t, r) /\ r.wrong = maps.wrong
           /\ t \in DOMAIN r.states =>
                  \/ r.states[t].since = now /\ r.states[t].state = "running"
                  \/ /\ t \in DOMAIN maps.states
                     /\ r.states[t].state = maps.states[t].state
                     /\ r.states[t].since = maps.states[t].since
<1>1. CASE ~should_track_tgid(t)
  <2>1. r = maps /\ t \notin DOMAIN maps.states  BY <1>1 DEF handle_sched_process_exit, Tracked
  <2>2. QED  BY <2>1 DEF Handled, Tracked
<1>2. MapsBut(maps, t)  BY DEF MapsOK, MapsBut
<1>3. CASE should_track_tgid(t) /\ t \in DOMAIN maps.states
  <2>1. maps.states[t] \in Entries /\ Behind(maps, t)  BY <1>3 DEF MapsOK, Shape
  <2>2. PICK entry \in Entries : /\ entry = [maps.states[t] EXCEPT !.exiting = TRUE]
                                 /\ entry.since = maps.states[t].since
                                 /\ entry.state = maps.states[t].state
    <3> DEFINE x == [maps.states[t] EXCEPT !.exiting = TRUE]
    <3>1. x \in Entries /\ x.since = maps.states[t].since /\ x.state = maps.states[t].state
      BY <2>1 DEF Entries
    <3>2. QED  BY <3>1
  <2>3. DOMAIN maps = {"states", "events", "wrong"}  BY DEF MapsOK, Shape
  <2>4. r = [maps EXCEPT !.states = [@ EXCEPT ![t] = entry]]
    BY <1>3, <2>2, <2>3 DEF handle_sched_process_exit
  <2>5. /\ MapsOK(r) /\ r.wrong = maps.wrong /\ r.states[t] = entry
        /\ DOMAIN r.states = DOMAIN maps.states
        /\ \A u \in DOMAIN r.states : u # t => r.states[u] = maps.states[u]
    <3>1. entry.since = now \/ (entry.since = maps.states[t].since /\ Behind(maps, t))
      BY <2>1, <2>2
    <3>2. t \in DOMAIN maps.states  BY <1>3
    <3> HIDE <1>3, <2>1, <2>2
    <3>3. QED  BY <1>2, <2>4, <3>1, <3>2, EntryChanges
  <2>6. QED  BY <1>3, <2>2, <2>5 DEF Handled, Tracked
<1>4. CASE should_track_tgid(t) /\ t \notin DOMAIN maps.states
  <2>1. "running" \in Kinds  BY DEF Kinds
  <2>2. PICK entry \in Entries : /\ entry = [Entry("running") EXCEPT !.exiting = TRUE]
                                 /\ entry.since = now /\ entry.state = "running"
    <3> DEFINE x == [Entry("running") EXCEPT !.exiting = TRUE]
    <3>1. x \in Entries /\ x.since = now /\ x.state = "running"
      BY DEF Entry, Entries, WorldOK, Kinds
    <3>2. QED  BY <3>1
  <2>3. r \in Put(maps, t, entry)  BY <1>4, <2>2 DEF handle_sched_process_exit
  <2>4. entry.since = now /\ should_track_tgid(t)  BY <1>4, <2>2
  <2>5. \A s \in maps.wrong : s \in maps.wrong \/ NewWrong(maps, t, s)  OBVIOUS
  <2>6. Handled(maps, t, r) /\ r.states[t] = entry /\ r.wrong = maps.wrong
    BY <1>2, <2>3, <2>4, <2>5, SentAndPut
  <2>7. QED  BY <2>2, <2>6
<1>5. QED  BY <1>1, <1>3, <1>4

-----------------------------------------------------------------------------
(* Steps.                                                                   *)

\* A dead thread's id stays used.
Aged == \A t \in Tids : thread[t].used => thread'[t].used

\* The spans sent so far that are wrong are the excused ones.
Excused(spans) == \A s \in spans : s.tid \in Tids /\ s.kind = "blocked" /\ thread[s.tid].used

LEMMA HandledExcused ==
    ASSUME NEW maps, NEW t, NEW r, Handled(maps, t, r), Excused(maps.wrong),
           t \in DOMAIN maps.states => t \in Tids /\ EntryTrue(maps.states[t], thread[t]),
           \A s \in r.wrong : s \in maps.wrong \/ s.kind # "runnable" \/ thread[s.tid].state # "running"
    PROVE  Excused(r.wrong)
  BY DEF Handled, Excused, NewWrong, EntryTrue, TrueSpan

\* The maps hold what a program has left in r.
LEMMA Installed ==
    ASSUME SchedInv, WorldOK', Aged, UNCHANGED <<now, lastEnd, tracked_tgids, attached>>,
           NEW r, MapsOK(r), Tracked(r), Excused(r.wrong),
           task_states' = r.states, events' = r.events, wrong' = r.wrong,
           \A t \in DOMAIN r.states : EntryTrue(r.states[t], thread'[t])
    PROVE  SchedInv'
<1>1. MapsOK(Maps)'  BY DEF MapsOK, Shape, Ordered, Behind, Maps
<1>2. TrueInv'  BY DEF TrueInv, EntryTrue
<1>3. TrackedInv'  BY DEF SchedInv, TrackedInv, Tracked, should_track_tgid
<1>4. WrongInv'  BY DEF WrongInv, Excused, Aged
<1>5. QED  BY <1>1, <1>2, <1>3, <1>4 DEF SchedInv

\* The tracer does nothing, and what its entries say remains true.
LEMMA Unobserved ==
    ASSUME SchedInv, WorldOK', Aged, now' >= now, UNCHANGED <<schedVars, attached>>,
           \A t \in DOMAIN task_states : EntryTrue(task_states[t], thread'[t])
    PROVE  SchedInv'
<1>1. now \in Nat /\ now' \in Nat  BY DEF SchedInv, WorldOK
<1>2. Shape(Maps)'
  <2>1. \A t \in DOMAIN task_states : task_states[t] \in Entries /\ task_states[t].since <= now
    BY DEF SchedInv, MapsOK, Shape, Maps
  <2>2. \A t \in DOMAIN task_states : task_states[t].since <= now'
    BY <1>1, <2>1 DEF Entries
  <2>3. QED  BY <2>1, <2>2 DEF SchedInv, MapsOK, Shape, Maps, schedVars
<1>3. Ordered(events)'
  <2>1. events \in Seq(Spans) /\ Ordered(events)  BY DEF SchedInv, MapsOK, Shape, Maps
  <2>2. \A i \in 1 .. Len(events) : events[i].end <= now'
    <3> SUFFICES ASSUME NEW i \in 1 .. Len(events) PROVE events[i].end <= now'  OBVIOUS
    <3>1. events[i] \in Spans  BY <2>1
    <3>2. events[i].end \in Nat /\ events[i].end <= now  BY <2>1, <3>1 DEF Ordered, Spans
    <3>3. QED  BY <1>1, <3>2
  <2>3. QED  BY <2>1, <2>2 DEF Ordered, schedVars
<1>4. (\A u \in DOMAIN Maps.states : Behind(Maps, u))'
  BY DEF SchedInv, MapsOK, Behind, Maps, schedVars
<1>5. MapsOK(Maps)'  BY <1>2, <1>3, <1>4 DEF MapsOK, Maps
<1>6. TrueInv'  BY DEF TrueInv, EntryTrue, schedVars
<1>7. TrackedInv'  BY DEF SchedInv, TrackedInv, should_track_tgid, schedVars
<1>8. WrongInv'  BY DEF SchedInv, WrongInv, Aged, schedVars
<1>9. QED  BY <1>5, <1>6, <1>7, <1>8 DEF SchedInv

\* Where the tracer is not attached there is no entry.
LEMMA Unattached ==
    ASSUME SchedInv, WorldOK', Aged, UNCHANGED <<now, schedVars, attached>>,
           "schedtrace" \notin attached
    PROVE  SchedInv'
<1>1. DOMAIN task_states = {}  BY DEF SchedInv, TrackedInv, should_track_tgid
<1>2. now' >= now  BY DEF SchedInv, WorldOK
<1>3. QED  BY <1>1, <1>2, Unobserved

\* What the tracepoints do to the threads.
LEMMA LeavesFacts ==
    ASSUME now \in Nat, NEW th \in ThreadRecords, NEW reason \in Reasons,
           NEW r, r = Leaves(th, reason)
    PROVE  /\ r \in ThreadRecords /\ r.since = now
           /\ reason \in {"preempt", "yield"} => r.state = "runnable"
           /\ reason = "sleep" => r.state = "blocked"
           /\ reason = "dead" => r.state = "none" /\ r.used
           /\ th.used => r.used
<1>1. PICK after : after = CASE reason = "sleep" -> "blocked" [] reason = "dead" -> "none"
                             [] OTHER -> "runnable"
  OBVIOUS
<1>2. /\ after \in Kinds \cup {"none"}
      /\ reason \in {"preempt", "yield"} => after = "runnable"
      /\ reason = "sleep" => after = "blocked"
      /\ reason = "dead" => after = "none"
  BY <1>1 DEF Reasons, Kinds
<1>3. PICK e, y, u : /\ e = (th.exiting /\ reason # "dead")
                     /\ y = (th.syscall /\ reason # "dead")
                     /\ u = (th.used \/ reason = "dead")
  OBVIOUS
<1>4. e \in BOOLEAN /\ y \in BOOLEAN /\ u \in BOOLEAN  BY <1>3
<1>5. r = [th EXCEPT !.state = after, !.since = now, !.exiting = e, !.syscall = y, !.used = u]
  BY <1>1, <1>3, Zenon DEF Leaves
<1>6. /\ r \in ThreadRecords /\ r.since = now /\ r.state = after /\ r.used = u
  BY <1>2, <1>4, <1>5 DEF ThreadRecords
<1>7. QED  BY <1>2, <1>3, <1>6

LEMMA SwitchWorld ==
    ASSUME WorldOK, NEW c \in CPUs, NEW next \in Tids \cup {Idle}, NEW reason \in Reasons,
           Switch(c, next, reason), lastEnd' = lastEnd, NEW prev, prev = cpu[c]
    PROVE  /\ WorldOK' /\ now' = now /\ Aged
           /\ prev \in Tids \cup {Idle} /\ prev # next
           /\ \A t \in Tids : t # prev /\ t # next => thread'[t] = thread[t]
           /\ prev \in Tids => /\ thread'[prev].since = now
                               /\ reason \in {"preempt", "yield"} => thread'[prev].state = "runnable"
                               /\ reason = "sleep" => thread'[prev].state = "blocked"
                               /\ reason = "dead" => /\ thread'[prev].state = "none"
                                                     /\ thread'[prev].used
           /\ next \in Tids /\ next # Idle => /\ thread[next].state = "runnable"
                                              /\ thread'[next].state = "running"
                                              /\ thread'[next].since = now
<1>1. /\ prev \in Tids \cup {Idle} /\ prev # next /\ now' = now /\ now \in Nat
      /\ cpu' = [cpu EXCEPT ![c] = next]
      /\ next # Idle => thread[next].state = "runnable"
  BY DEF Switch, WorldOK
<1>4. \A t \in Tids : thread'[t] = CASE t = prev -> Leaves(thread[t], reason)
                                     [] t = next -> Enters(thread[t])
                                     [] OTHER -> thread[t]
  BY DEF Switch
<1>5. DOMAIN thread' = Tids /\ thread' = [t \in Tids |-> thread'[t]]  BY DEF Switch
<1>6. \A t \in Tids : thread[t] \in ThreadRecords /\ thread[t].since <= now  BY DEF WorldOK
<1>7. \A t \in Tids : t # prev /\ t # next => thread'[t] = thread[t]  BY <1>4
<1>8. prev \in Tids => /\ thread'[prev] \in ThreadRecords /\ thread'[prev].since = now
                       /\ reason \in {"preempt", "yield"} => thread'[prev].state = "runnable"
                       /\ reason = "sleep" => thread'[prev].state = "blocked"
                       /\ reason = "dead" => thread'[prev].state = "none" /\ thread'[prev].used
                       /\ thread[prev].used => thread'[prev].used
  <2>1. prev \in Tids => thread'[prev] = Leaves(thread[prev], reason)
    <3> SUFFICES ASSUME prev \in Tids PROVE thread'[prev] = Leaves(thread[prev], reason)  OBVIOUS
    <3>1. thread'[prev] = CASE prev = prev -> Leaves(thread[prev], reason)
                            [] prev = next -> Enters(thread[prev])
                            [] OTHER -> thread[prev]
      BY <1>4, Zenon
    <3>2. prev # next  BY <1>1
    <3>3. QED  BY <3>1, <3>2
  <2>2. QED  BY <1>1, <1>6, <2>1, LeavesFacts
<1>9. next \in Tids => /\ thread'[next] \in ThreadRecords /\ thread'[next].since = now
                       /\ thread'[next].state = "running"
                       /\ thread[next].used => thread'[next].used
  <2>1. next \in Tids => thread'[next] = Enters(thread[next])  BY <1>1, <1>4
  <2>2. "running" \in Kinds  BY DEF Kinds
  <2>3. QED  BY <1>1, <1>6, <2>1, <2>2 DEF ThreadRecords, Enters
<1>10. \A t \in Tids : thread'[t] \in ThreadRecords /\ thread'[t].since <= now
  BY <1>1, <1>6, <1>7, <1>8, <1>9
<1>11. WorldOK'
  <2>1. thread' \in [Tids -> ThreadRecords]  BY <1>5, <1>10
  <2>2. cpu' \in [CPUs -> Tids \cup {Idle}]  BY <1>1 DEF WorldOK
  <2>3. QED  BY <1>1, <1>10, <2>1, <2>2 DEF WorldOK
<1>12. Aged  BY <1>7, <1>8, <1>9 DEF Aged
<1>13. QED  BY <1>1, <1>7, <1>8, <1>9, <1>11, <1>12

\* A thread that is woken, for the first time or not, and one that runs on.
LEMMA ThreadGoes ==
    ASSUME WorldOK, NEW t \in Tids, NEW th \in ThreadRecords,
           thread' = [thread EXCEPT ![t] = th], th.since <= now, thread[t].used => th.used,
           UNCHANGED <<now, cpu, lastEnd>>
    PROVE  /\ WorldOK' /\ Aged /\ thread'[t] = th
           /\ \A u \in Tids : u # t => thread'[u] = thread[u]
<1>1. /\ thread'[t] = th /\ \A u \in Tids : u # t => thread'[u] = thread[u]
      /\ thread' \in [Tids -> ThreadRecords]
  BY DEF WorldOK
<1>2. WorldOK'  BY <1>1 DEF WorldOK
<1>3. Aged  BY <1>1 DEF Aged
<1>4. QED  BY <1>1, <1>2, <1>3

\* The maps as they are.
LEMMA MapsFacts ==
    ASSUME SchedInv, NEW maps, maps = Maps
    PROVE  /\ WorldOK /\ MapsOK(maps) /\ Tracked(maps) /\ Excused(maps.wrong)
           /\ maps.states = task_states /\ maps.events = events /\ maps.wrong = wrong
           /\ \A t \in DOMAIN maps.states :
                  t \in Tids /\ t # Idle /\ EntryTrue(maps.states[t], thread[t])
<1>1. maps.states = task_states /\ maps.events = events /\ maps.wrong = wrong  BY DEF Maps
<1>2. WorldOK /\ MapsOK(maps)  BY DEF SchedInv
<1>3. Tracked(maps) /\ Excused(maps.wrong)
  BY <1>1 DEF SchedInv, TrackedInv, WrongInv, Tracked, Excused
<1>4. \A t \in DOMAIN maps.states :
          t \in Tids /\ t # Idle /\ EntryTrue(maps.states[t], thread[t])
  <2>1. DOMAIN maps.states \subseteq Tids  BY <1>2 DEF MapsOK, Shape
  <2>2. QED  BY <1>1, <1>3, <2>1 DEF SchedInv, TrueInv, Tracked, should_track_tgid
<1>5. QED  BY <1>1, <1>2, <1>3, <1>4

LEMMA SwitchStep ==
    ASSUME SchedInv, NEW c \in CPUs, NEW next \in Tids \cup {Idle}, NEW reason \in Reasons,
           OnSwitch(c, next, reason)
    PROVE  SchedInv'
<1>1. PICK prev : prev = cpu[c]  OBVIOUS
<1>2. Switch(c, next, reason) /\ Sched(handle_sched_switch(prev, next, reason)) /\ attached' = attached
  BY <1>1 DEF OnSwitch
<1>3. UNCHANGED <<lastEnd, tracked_tgids>>  BY <1>2 DEF Sched, Install, schedVars
<1>4. WorldOK  BY DEF SchedInv
<1>5. /\ WorldOK' /\ now' = now /\ Aged
      /\ prev \in Tids \cup {Idle} /\ prev # next
      /\ \A t \in Tids : t # prev /\ t # next => thread'[t] = thread[t]
      /\ prev \in Tids => /\ thread'[prev].since = now
                          /\ reason \in {"preempt", "yield"} => thread'[prev].state = "runnable"
                          /\ reason = "sleep" => thread'[prev].state = "blocked"
                          /\ reason = "dead" => /\ thread'[prev].state = "none"
                                                /\ thread'[prev].used
      /\ next \in Tids /\ next # Idle => /\ thread[next].state = "runnable"
                                         /\ thread'[next].state = "running"
                                         /\ thread'[next].since = now
  BY <1>1, <1>2, <1>3, <1>4, SwitchWorld
<1>6. CASE "schedtrace" \notin attached
  <2>1. UNCHANGED schedVars  BY <1>2, <1>6 DEF Sched
  <2>2. QED  BY <1>2, <1>5, <1>6, <2>1, Unattached
<1>7. CASE "schedtrace" \in attached
  <2>1. PICK r \in handle_sched_switch(prev, next, reason) :
            task_states' = r.states /\ events' = r.events /\ wrong' = r.wrong
    BY <1>2, <1>7 DEF Sched, Install
  <2>2. PICK maps : maps = Maps  OBVIOUS
  <2>3. PICK mid \in handle_task_off_cpu(maps, prev, reason) : r \in handle_task_on_cpu(mid, next)
    BY <2>1, <2>2 DEF handle_sched_switch
  <2>4. /\ WorldOK /\ MapsOK(maps) /\ Tracked(maps) /\ Excused(maps.wrong)
        /\ \A t \in DOMAIN maps.states :
               t \in Tids /\ t # Idle /\ EntryTrue(maps.states[t], thread[t])
    BY <2>2, MapsFacts
  <2>5. /\ Handled(maps, prev, mid)
        /\ \A s \in mid.wrong : s \in maps.wrong \/ s.kind = "running"
        /\ prev \in DOMAIN mid.states =>
               /\ mid.states[prev].since = now
               /\ mid.states[prev].state = IF reason \in {"preempt", "yield"} THEN "runnable" ELSE "blocked"
    BY <1>5, <2>3, <2>4, OffCpu
  <2>6. MapsOK(mid) /\ Tracked(mid)  BY <2>5 DEF Handled, Tracked
  <2>7. /\ Handled(mid, next, r)
        /\ next \in DOMAIN r.states => r.states[next].since = now /\ r.states[next].state = "running"
    BY <2>3, <2>4, <2>6, OnCpu
  <2>8. Excused(mid.wrong)  BY <2>4, <2>5, HandledExcused
  <2>9. next \in DOMAIN mid.states => next \in Tids /\ EntryTrue(mid.states[next], thread[next])
    BY <1>5, <2>4, <2>5 DEF Handled
  <2>10. Excused(r.wrong)
    <3>1. \A s \in r.wrong : s \in mid.wrong \/ NewWrong(mid, next, s)  BY <2>7 DEF Handled
    <3>2. \A s : NewWrong(mid, next, s) => s.tid = next /\ next \in Tids /\ next # Idle
      BY <2>6, <2>9 DEF NewWrong, Tracked, should_track_tgid
    <3>3. \A s \in r.wrong : s \in mid.wrong \/ thread[s.tid].state # "running"
      BY <1>5, <3>1, <3>2
    <3>4. QED  BY <2>7, <2>8, <2>9, <3>3, HandledExcused
  <2>11. MapsOK(r) /\ Tracked(r) /\ DOMAIN r.states \subseteq Tids
    BY <2>7 DEF Handled, Tracked, MapsOK, Shape
  <2>12. \A u \in DOMAIN r.states : EntryTrue(r.states[u], thread'[u])
    <3> SUFFICES ASSUME NEW u \in DOMAIN r.states PROVE EntryTrue(r.states[u], thread'[u])  OBVIOUS
    <3>1. u \in Tids /\ u # Idle /\ now \in Nat /\ now <= now
      BY <2>4, <2>11 DEF Tracked, should_track_tgid, WorldOK
    <3>2. CASE u = next  BY <1>5, <2>7, <3>1, <3>2 DEF EntryTrue
    <3>3. CASE u = prev /\ u # next
      <4>1. u \in DOMAIN mid.states /\ r.states[u] = mid.states[u]  BY <2>7, <3>3 DEF Handled
      <4>2. QED  BY <1>5, <2>5, <3>1, <3>3, <4>1 DEF EntryTrue, Reasons
    <3>4. CASE u # prev /\ u # next
      <4>1. u \in DOMAIN mid.states /\ r.states[u] = mid.states[u]  BY <2>7, <3>4 DEF Handled
      <4>2. u \in DOMAIN maps.states /\ r.states[u] = maps.states[u]
        BY <2>5, <3>4, <4>1 DEF Handled
      <4>3. thread'[u] = thread[u]  BY <1>5, <3>1, <3>4
      <4>4. QED  BY <2>4, <4>2, <4>3
    <3>5. QED  BY <3>2, <3>3, <3>4
  <2>13. QED  BY <1>2, <1>3, <1>5, <2>1, <2>10, <2>11, <2>12, Installed
<1>8. QED  BY <1>6, <1>7

LEMMA WakeupStep ==
    ASSUME SchedInv, NEW t \in Tids, OnWakeup(t)
    PROVE  SchedInv'
<1>1. /\ Sched(handle_task_wakeup(Maps, t)) /\ attached' = attached
      /\ UNCHANGED <<now, cpu, lastEnd, tracked_tgids>>
  BY DEF OnWakeup, Wakeup, WakeupNew, Sched, Install, schedVars
<1>2. WorldOK /\ thread[t] \in ThreadRecords /\ thread[t].since <= now /\ now \in Nat
      /\ thread \in [Tids -> ThreadRecords]
  BY DEF SchedInv, WorldOK
<1>3. PICK th \in ThreadRecords :
          /\ thread' = [thread EXCEPT ![t] = th] /\ th.since <= now
          /\ thread[t].used => th.used
          /\ \/ th.state = "runnable" /\ th.since = now /\ thread[t].state \in {"none", "blocked"}
             \/ th = thread[t] /\ th.state = "running"
  <2>1. CASE thread' = Goes(t, "runnable") /\ thread[t].state \in {"none", "blocked"}
    <3> DEFINE x == [thread[t] EXCEPT !.state = "runnable", !.since = now]
    <3>1. thread' = [thread EXCEPT ![t] = x]  BY <1>2, <2>1 DEF Goes, ThreadRecords
    <3>2. "runnable" \in Kinds  BY DEF Kinds
    <3>3. /\ x \in ThreadRecords /\ x.since = now /\ x.state = "runnable"
          /\ x.used = thread[t].used
      BY <1>2, <3>2 DEF ThreadRecords
    <3>4. x.since <= now  BY <1>2, <3>3
    <3> HIDE DEF x
    <3>5. QED  BY <2>1, <3>1, <3>3, <3>4
  <2>2. CASE UNCHANGED thread /\ thread[t].state = "running"
    <3>1. thread = [thread EXCEPT ![t] = thread[t]]  BY <1>2
    <3>2. QED  BY <1>2, <2>2, <3>1
  <2>3. QED  BY <2>1, <2>2 DEF OnWakeup, Wakeup, WakeupNew
<1>4. /\ WorldOK' /\ Aged /\ thread'[t] = th /\ \A u \in Tids : u # t => thread'[u] = thread[u]
  BY <1>1, <1>2, <1>3, ThreadGoes
<1>5. CASE "schedtrace" \notin attached
  <2>1. UNCHANGED schedVars  BY <1>1, <1>5 DEF Sched
  <2>2. QED  BY <1>1, <1>4, <1>5, <2>1, Unattached
<1>6. CASE "schedtrace" \in attached
  <2>1. PICK maps : maps = Maps  OBVIOUS
  <2>2. PICK r \in handle_task_wakeup(maps, t) :
            task_states' = r.states /\ events' = r.events /\ wrong' = r.wrong
    BY <1>1, <1>6, <2>1 DEF Sched, Install
  <2>3. /\ WorldOK /\ MapsOK(maps) /\ Tracked(maps) /\ Excused(maps.wrong)
        /\ \A u \in DOMAIN maps.states :
               u \in Tids /\ u # Idle /\ EntryTrue(maps.states[u], thread[u])
    BY <2>1, MapsFacts
  <2>4. /\ Handled(maps, t, r)
        /\ \A s \in r.wrong : s \in maps.wrong \/ s.kind = "blocked"
        /\ t \in DOMAIN r.states =>
               \/ r.states[t].since = now /\ r.states[t].state = "runnable"
               \/ /\ t \in DOMAIN maps.states /\ maps.states[t].state # "blocked"
                  /\ r.states[t] = maps.states[t]
    BY <2>2, <2>3, TaskWakeup
  <2>5. MapsOK(r) /\ Tracked(r) /\ DOMAIN r.states \subseteq Tids
    BY <2>4 DEF Handled, Tracked, MapsOK, Shape
  <2>6. Excused(r.wrong)  BY <2>3, <2>4, HandledExcused
  <2>7. \A u \in DOMAIN r.states : EntryTrue(r.states[u], thread'[u])
    <3> SUFFICES ASSUME NEW u \in DOMAIN r.states PROVE EntryTrue(r.states[u], thread'[u])  OBVIOUS
    <3>1. u \in Tids  BY <2>5
    <3>2. CASE u # t
      <4>1. u \in DOMAIN maps.states /\ r.states[u] = maps.states[u]  BY <2>4, <3>2 DEF Handled
      <4>2. QED  BY <1>4, <2>3, <3>1, <3>2, <4>1
    <3>3. CASE u = t
      <4>1. CASE t \in DOMAIN maps.states /\ maps.states[t].state # "blocked" /\ r.states[t] = maps.states[t]
        <5>1. maps.states[t].state \in {"running", "runnable"}
          BY <2>3, <4>1 DEF MapsOK, Shape, Entries, Kinds
        <5>2. thread[t].state \notin {"none", "blocked"}  BY <2>3, <4>1, <5>1 DEF EntryTrue
        <5>3. QED  BY <1>3, <1>4, <2>3, <3>3, <4>1, <5>2
      <4>2. CASE r.states[t].since = now /\ r.states[t].state = "runnable"
        BY <1>3, <1>4, <3>3, <4>2 DEF EntryTrue
      <4>3. QED  BY <2>4, <3>3, <4>1, <4>2
    <3>4. QED  BY <3>2, <3>3
  <2>8. QED  BY <1>1, <1>4, <2>2, <2>5, <2>6, <2>7, Installed
<1>7. QED  BY <1>5, <1>6

LEMMA ExitStep ==
    ASSUME SchedInv, NEW t \in Tids, OnExit(t)
    PROVE  SchedInv'
<1>1. /\ Sched(handle_sched_process_exit(Maps, t)) /\ attached' = attached
      /\ UNCHANGED <<now, cpu, lastEnd, tracked_tgids>>
      /\ thread[t].state = "running" /\ thread' = [thread EXCEPT ![t].exiting = TRUE]
  BY DEF OnExit, ProcessExit, Sched, Install, schedVars
<1>2. /\ WorldOK /\ thread[t] \in ThreadRecords /\ thread[t].since <= now /\ now \in Nat
      /\ thread \in [Tids -> ThreadRecords]
  BY DEF SchedInv, WorldOK
<1>3. PICK th \in ThreadRecords : /\ thread' = [thread EXCEPT ![t] = th] /\ th.used = thread[t].used
                                  /\ th.state = "running" /\ th.since = thread[t].since
  <2> DEFINE x == [thread[t] EXCEPT !.exiting = TRUE]
  <2>1. thread' = [thread EXCEPT ![t] = x]  BY <1>1, <1>2
  <2>2. /\ x \in ThreadRecords /\ x.state = thread[t].state /\ x.since = thread[t].since
        /\ x.used = thread[t].used
    BY <1>2 DEF ThreadRecords
  <2> HIDE DEF x
  <2>3. QED  BY <1>1, <2>1, <2>2
<1>4. /\ WorldOK' /\ Aged /\ thread'[t] = th /\ \A u \in Tids : u # t => thread'[u] = thread[u]
  BY <1>1, <1>2, <1>3, ThreadGoes
<1>5. CASE "schedtrace" \notin attached
  <2>1. UNCHANGED schedVars  BY <1>1, <1>5 DEF Sched
  <2>2. QED  BY <1>1, <1>4, <1>5, <2>1, Unattached
<1>6. CASE "schedtrace" \in attached
  <2>1. PICK maps : maps = Maps  OBVIOUS
  <2>2. PICK r \in handle_sched_process_exit(maps, t) :
            task_states' = r.states /\ events' = r.events /\ wrong' = r.wrong
    BY <1>1, <1>6, <2>1 DEF Sched, Install
  <2>3. /\ WorldOK /\ MapsOK(maps) /\ Tracked(maps) /\ Excused(maps.wrong)
        /\ \A u \in DOMAIN maps.states :
               u \in Tids /\ u # Idle /\ EntryTrue(maps.states[u], thread[u])
    BY <2>1, MapsFacts
  <2>4. /\ Handled(maps, t, r) /\ r.wrong = maps.wrong
        /\ t \in DOMAIN r.states =>
               \/ r.states[t].since = now /\ r.states[t].state = "running"
               \/ /\ t \in DOMAIN maps.states
                  /\ r.states[t].state = maps.states[t].state
                  /\ r.states[t].since = maps.states[t].since
    BY <2>2, <2>3, ProcessExits
  <2>5. MapsOK(r) /\ Tracked(r) /\ DOMAIN r.states \subseteq Tids
    BY <2>4 DEF Handled, Tracked, MapsOK, Shape
  <2>6. Excused(r.wrong)  BY <2>3, <2>4
  <2>7. \A u \in DOMAIN r.states : EntryTrue(r.states[u], thread'[u])
    <3> SUFFICES ASSUME NEW u \in DOMAIN r.states PROVE EntryTrue(r.states[u], thread'[u])  OBVIOUS
    <3>1. u \in Tids  BY <2>5
    <3>2. CASE u # t
      <4>1. u \in DOMAIN maps.states /\ r.states[u] = maps.states[u]  BY <2>4, <3>2 DEF Handled
      <4>2. QED  BY <1>4, <2>3, <3>1, <3>2, <4>1
    <3>3. CASE u = t
      <4>1. CASE r.states[t].since = now /\ r.states[t].state = "running"
        BY <1>2, <1>3, <1>4, <3>3, <4>1 DEF EntryTrue
      <4>2. CASE /\ t \in DOMAIN maps.states
                 /\ r.states[t].state = maps.states[t].state
                 /\ r.states[t].since = maps.states[t].since
        BY <1>1, <1>3, <1>4, <2>3, <3>3, <4>2 DEF EntryTrue
      <4>3. QED  BY <2>4, <3>3, <4>1, <4>2
    <3>4. QED  BY <3>2, <3>3
  <2>8. QED  BY <1>1, <1>4, <2>2, <2>5, <2>6, <2>7, Installed
<1>7. QED  BY <1>5, <1>6

\* The steps that the scheduler tracer does not see.
LEMMA SyscallStep ==
    ASSUME SchedInv, NEW c \in CPUs, NEW t \in Tids, OnSyscall(c, t)
    PROVE  SchedInv'
<1>1. /\ UNCHANGED <<now, cpu, schedVars, attached>> /\ lastEnd' = lastEnd
      /\ \E b \in BOOLEAN : thread' = [thread EXCEPT ![t].syscall = b]
  BY DEF OnSyscall, SysEnter, SysExit, schedVars
<1>2. PICK b \in BOOLEAN : thread' = [thread EXCEPT ![t].syscall = b]  BY <1>1
<1>3. /\ WorldOK /\ thread[t] \in ThreadRecords /\ thread[t].since <= now /\ now \in Nat
      /\ thread \in [Tids -> ThreadRecords]
  BY DEF SchedInv, WorldOK
<1>4. PICK th \in ThreadRecords : /\ thread' = [thread EXCEPT ![t] = th] /\ th.used = thread[t].used
                                  /\ th.state = thread[t].state /\ th.since = thread[t].since
  <2> DEFINE x == [thread[t] EXCEPT !.syscall = b]
  <2>1. thread' = [thread EXCEPT ![t] = x]  BY <1>2, <1>3
  <2>2. /\ x \in ThreadRecords /\ x.state = thread[t].state /\ x.since = thread[t].since
        /\ x.used = thread[t].used
    BY <1>3 DEF ThreadRecords
  <2> HIDE DEF x
  <2>3. QED  BY <2>1, <2>2
<1>5. /\ WorldOK' /\ Aged /\ thread'[t] = th /\ \A u \in Tids : u # t => thread'[u] = thread[u]
  BY <1>1, <1>3, <1>4, ThreadGoes
<1>6. \A u \in DOMAIN task_states : EntryTrue(task_states[u], thread'[u])
  <2>1. \A u \in DOMAIN task_states : u \in Tids /\ EntryTrue(task_states[u], thread[u])
    BY DEF SchedInv, TrueInv, MapsOK, Shape, Maps
  <2>2. QED  BY <1>4, <1>5, <2>1 DEF EntryTrue
<1>7. now' >= now  BY <1>1, <1>3
<1>8. QED  BY <1>1, <1>5, <1>6, <1>7, Unobserved

LEMMA TickStep ==
    ASSUME SchedInv, OnTick
    PROVE  SchedInv'
<1>1. now' = now + 1 /\ UNCHANGED <<cpu, thread, schedVars, attached>> /\ lastEnd' = lastEnd
  BY DEF OnTick, Tick, schedVars
<1>2. now \in Nat /\ now' >= now  BY <1>1 DEF SchedInv, WorldOK
<1>3. WorldOK'
  <2>1. \A t \in Tids : thread[t].since <= now' /\ lastEnd[t] <= now'
    BY <1>1, <1>2 DEF SchedInv, WorldOK, ThreadRecords
  <2>2. QED  BY <1>1, <1>2, <2>1 DEF SchedInv, WorldOK
<1>4. Aged /\ \A t \in DOMAIN task_states : EntryTrue(task_states[t], thread'[t])
  BY <1>1 DEF SchedInv, TrueInv, Aged
<1>5. QED  BY <1>1, <1>2, <1>3, <1>4, Unobserved

\* The other modules' steps, and those that change nothing.
LEMMA QuietStep ==
    ASSUME SchedInv, UNCHANGED <<now, cpu, thread, schedVars, attached>>
    PROVE  SchedInv'
<1>1. WorldOK' /\ now' >= now  BY DEF SchedInv, WorldOK, schedVars
<1>2. Aged /\ \A t \in DOMAIN task_states : EntryTrue(task_states[t], thread'[t])
  BY DEF SchedInv, TrueInv, Aged
<1>3. QED  BY <1>1, <1>2, Unobserved

LEMMA FilterStep ==
    ASSUME SchedInv, NEW p, "schedtrace" \in attached, sched_filter(p),
           UNCHANGED <<world, attached>>
    PROVE  SchedInv'
<1>1. UNCHANGED <<now, cpu, thread, task_states, events, wrong, lastEnd, attached>>
      /\ tracked_tgids' = tracked_tgids \cup {p}
  BY DEF sched_filter, world
<1>2. WorldOK'  BY <1>1 DEF SchedInv, WorldOK
<1>3. MapsOK(Maps)'  BY <1>1 DEF SchedInv, MapsOK, Shape, Ordered, Behind, Maps
<1>4. TrueInv' /\ WrongInv'  BY <1>1 DEF SchedInv, TrueInv, WrongInv
<1>5. TrackedInv'  BY <1>1 DEF SchedInv, TrackedInv, should_track_tgid
<1>6. QED  BY <1>2, <1>3, <1>4, <1>5 DEF SchedInv

\* The consumer takes the first span.
LEMMA ConsumeStep ==
    ASSUME SchedInv, sched_consume, UNCHANGED <<world, attached>>
    PROVE  SchedInv'
<1>1. /\ UNCHANGED <<now, cpu, thread, task_states, wrong, tracked_tgids, attached>>
      /\ events # <<>> /\ events' = Tail(events)
      /\ lastEnd' = [lastEnd EXCEPT ![Head(events).tid] = Head(events).end]
  BY DEF sched_consume, world
<1>2. PICK q : q = events  OBVIOUS
<1>3. PICK rest : rest = Tail(q)  OBVIOUS
<1>4. q \in Seq(Spans) /\ q # <<>> /\ Ordered(q)  BY <1>1, <1>2 DEF SchedInv, MapsOK, Shape, Maps
<1>5. /\ rest \in Seq(Spans) /\ Len(rest) \in Nat /\ Len(q) = Len(rest) + 1
      /\ \A i \in 1 .. Len(rest) : rest[i] = q[i + 1] /\ i + 1 \in 1 .. Len(q) /\ 1 \in 1 .. (i + 1 - 1)
      /\ 1 \in 1 .. Len(q) /\ q[1] = Head(q)
  BY <1>3, <1>4
<1>6. PICK first \in Spans : first = q[1]  BY <1>4, <1>5
<1>7. /\ first.tid \in Tids /\ first.start \in Nat /\ first.end \in Nat /\ first.end <= now
  BY <1>4, <1>5, <1>6 DEF Spans, Ordered
<1>8. PICK ends : ends = [lastEnd EXCEPT ![first.tid] = first.end]  OBVIOUS
<1>9. events' = rest /\ lastEnd' = ends  BY <1>1, <1>2, <1>3, <1>5, <1>6, <1>8
<1>10. /\ ends \in [Tids -> Nat] /\ \A t \in Tids : ends[t] <= now
       /\ ends[first.tid] = first.end /\ \A t \in Tids : t # first.tid => ends[t] = lastEnd[t]
  BY <1>7, <1>8 DEF SchedInv, WorldOK
<1>11. WorldOK'  BY <1>1, <1>9, <1>10 DEF SchedInv, WorldOK
<1>12. Ordered(rest)'
  <2>1. SUFFICES ASSUME NEW i \in 1 .. Len(rest)
                 PROVE  /\ rest[i].start >= ends[rest[i].tid] /\ rest[i].end <= now
                        /\ \A j \in 1 .. (i - 1) :
                               rest[j].tid = rest[i].tid => rest[j].end <= rest[i].start
    BY <1>1, <1>9 DEF Ordered
  <2>2. /\ i \in Nat /\ rest[i] = q[i + 1] /\ rest[i] \in Spans /\ i + 1 \in 1 .. Len(q)
        /\ 1 \in 1 .. (i + 1 - 1) /\ rest[i].tid \in Tids /\ rest[i].start \in Nat
    <3>1. rest[i] \in Spans  BY <1>5
    <3>2. rest[i].tid \in Tids /\ rest[i].start \in Nat  BY <3>1 DEF Spans
    <3>3. i \in Nat /\ rest[i] = q[i + 1] /\ i + 1 \in 1 .. Len(q) /\ 1 \in 1 .. (i + 1 - 1)
      BY <1>5
    <3>4. QED  BY <3>1, <3>2, <3>3
  <2>3. /\ q[i + 1].start >= lastEnd[q[i + 1].tid] /\ q[i + 1].end <= now
        /\ \A j \in 1 .. (i + 1 - 1) : q[j].tid = q[i + 1].tid => q[j].end <= q[i + 1].start
    BY <1>4, <2>2 DEF Ordered
  <2>4. first.tid = rest[i].tid => first.end <= rest[i].start  BY <1>6, <2>2, <2>3
  <2>5. rest[i].start >= ends[rest[i].tid]
    <3>1. CASE first.tid = rest[i].tid  BY <1>7, <1>10, <2>2, <2>4, <3>1
    <3>2. CASE first.tid # rest[i].tid  BY <1>10, <2>2, <2>3, <3>2
    <3>3. QED  BY <3>1, <3>2
  <2>6. \A j \in 1 .. (i - 1) : rest[j].tid = rest[i].tid => rest[j].end <= rest[i].start
    <3> SUFFICES ASSUME NEW j \in 1 .. (i - 1), rest[j].tid = rest[i].tid
                 PROVE  rest[j].end <= rest[i].start
      OBVIOUS
    <3>1. j \in 1 .. Len(rest) /\ j + 1 \in 1 .. (i + 1 - 1)  BY <1>5, <2>2
    <3>2. rest[j] = q[j + 1]  BY <1>5, <3>1
    <3>3. QED  BY <2>2, <2>3, <3>1, <3>2
  <2>7. QED  BY <2>2, <2>3, <2>5, <2>6
<1>13. MapsOK(Maps)'
  <2>1. Shape(Maps)'  BY <1>1, <1>5, <1>9 DEF SchedInv, MapsOK, Shape, Maps
  <2>2. ASSUME NEW u \in DOMAIN task_states
        PROVE  /\ ends[u] <= task_states[u].since
               /\ \A i \in 1 .. Len(rest) : rest[i].tid = u => rest[i].end <= task_states[u].since
    <3>1. /\ u \in Tids /\ lastEnd[u] <= task_states[u].since
          /\ \A i \in 1 .. Len(q) : q[i].tid = u => q[i].end <= task_states[u].since
      BY <1>2 DEF SchedInv, MapsOK, Shape, Behind, Maps
    <3>2. ends[u] <= task_states[u].since
      <4>1. CASE u = first.tid  BY <1>5, <1>6, <1>10, <3>1, <4>1
      <4>2. CASE u # first.tid  BY <1>10, <3>1, <4>2
      <4>3. QED  BY <4>1, <4>2
    <3>3. QED  BY <1>5, <3>1, <3>2
  <2>3. (\A u \in DOMAIN Maps.states : Behind(Maps, u))'  BY <1>1, <1>9, <2>2 DEF Behind, Maps
  <2>4. QED  BY <1>9, <1>12, <2>1, <2>3 DEF MapsOK, Maps
<1>14. TrueInv' /\ WrongInv'  BY <1>1 DEF SchedInv, TrueInv, WrongInv
<1>15. TrackedInv'  BY <1>1 DEF SchedInv, TrackedInv, should_track_tgid
<1>16. QED  BY <1>11, <1>13, <1>14, <1>15 DEF SchedInv

-----------------------------------------------------------------------------
(* The theorems.                                                            *)

LEMMA SchedInit == Init => SchedInv
<1> SUFFICES ASSUME Init PROVE SchedInv  OBVIOUS
<1> USE DEF Init, SchedulerInit, SchedTraceIdle
<1>1. WorldOK
  <2>1. "none" \in Kinds \cup {"none"} /\ 0 \in Nat /\ 1 \in Nat /\ 0 <= 1 /\ 1 <= 1  OBVIOUS
  <2>2. QED  BY <2>1 DEF WorldOK, ThreadRecords
<1>2. DOMAIN task_states = {} /\ events = <<>> /\ wrong = {}  OBVIOUS
<1>3. MapsOK(Maps)
  <2>1. events \in Seq(Spans) /\ Len(events) = 0 /\ 1 .. Len(events) = {}  BY <1>2
  <2>2. QED  BY <1>2, <2>1 DEF MapsOK, Shape, Ordered, Maps
<1>4. TrueInv /\ WrongInv  BY <1>2 DEF TrueInv, WrongInv
<1>5. TrackedInv  BY <1>2 DEF TrackedInv
<1>6. QED  BY <1>1, <1>3, <1>4, <1>5 DEF SchedInv

LEMMA SchedNext == SchedInv /\ [Next]_vars => SchedInv'
<1> SUFFICES ASSUME SchedInv, [Next]_vars PROVE SchedInv'  OBVIOUS
<1>1. ASSUME NEW c \in CPUs, NEW next \in Tids \cup {Idle}, NEW reason \in Reasons,
             OnSwitch(c, next, reason)
      PROVE  SchedInv'
  BY <1>1, SwitchStep
<1>2. ASSUME NEW t \in Tids, OnWakeup(t) PROVE SchedInv'  BY <1>2, WakeupStep
<1>3. ASSUME NEW t \in Tids, OnExit(t) PROVE SchedInv'  BY <1>3, ExitStep
<1>4. ASSUME NEW t \in Tids, NEW c \in CPUs, OnSyscall(c, t) PROVE SchedInv'  BY <1>4, SyscallStep
<1>5. ASSUME NEW c \in CPUs, OnBoundary(c) PROVE SchedInv'
  BY <1>5, QuietStep DEF OnBoundary
<1>6. ASSUME OnTick PROVE SchedInv'  BY <1>6, TickStep
<1>7. ASSUME NEW p \in Processes, OnFilter(p) PROVE SchedInv'
  <2>1. CASE "schedtrace" \in attached /\ sched_filter(p)
    BY <1>7, <2>1, FilterStep DEF OnFilter
  <2>2. CASE UNCHANGED schedVars  BY <1>7, <2>2, QuietStep DEF OnFilter, world
  <2>3. QED  BY <1>7, <2>1, <2>2 DEF OnFilter
<1>8. ASSUME OnConsume PROVE SchedInv'
  <2>1. CASE sched_consume  BY <1>8, <2>1, ConsumeStep DEF OnConsume
  <2>2. CASE UNCHANGED schedVars  BY <1>8, <2>2, QuietStep DEF OnConsume, world
  <2>3. QED  BY <1>8, <2>1, <2>2 DEF OnConsume
<1>9. ASSUME OnPerf PROVE SchedInv'  BY <1>9, QuietStep DEF OnPerf, world
<1>10. CASE UNCHANGED vars  BY <1>10, QuietStep DEF vars, world
<1>11. QED  BY <1>1, <1>2, <1>3, <1>4, <1>5, <1>6, <1>7, <1>8, <1>9, <1>10 DEF Next

LEMMA SchedInvariant == Spec => []SchedInv
<1>1. QED  BY SchedInit, SchedNext, PTL DEF Spec

\* The spans that emit_span() of schedtrace.bpf.c puts in the ring buffer are, for
\* each thread, in the order of time and disjoint, also with those consumed before,
\* for every size of the LRU map and of the ring buffer.
THEOREM SpansAreDisjoint == Spec => []SpansDisjoint
<1>1. SchedInv => SpansDisjoint
  <2> SUFFICES ASSUME SchedInv PROVE SpansDisjoint  OBVIOUS
  <2>1. Ordered(events) /\ events \in Seq(Spans)  BY DEF SchedInv, MapsOK, Shape, Maps
  <2>2. DOMAIN events = 1 .. Len(events)  BY <2>1
  <2>3. QED  BY <2>1, <2>2 DEF Ordered, SpansDisjoint
<1>2. QED  BY <1>1, SchedInvariant, PTL

\* A span of schedtrace.bpf.c tells what its thread did from its start to its end,
\* except for a blocked span made from the entry that a dead thread has left.
THEOREM SpansAreTrue == Spec => []SpansTrue
<1>1. SchedInv => SpansTrue  BY DEF SchedInv, WrongInv, SpansTrue
<1>2. QED  BY <1>1, SchedInvariant, PTL

-----------------------------------------------------------------------------
(* The counters: the inductive invariant.                                   *)

Idx == DOMAIN counters

\* Neighbours of which the first counts cycles and the second instructions.
IpcIdx == {i \in Idx : /\ i \in Nat \ {0} /\ i + 1 \in Idx
                       /\ counters[i].name = "cpu-cycles"
                       /\ counters[i + 1].name = "cpu-instructions"}

\* The values w may be read after v: no counter goes back, and the instructions
\* of a pair in P went up by no more than its cycles.
Later(I, P, v, w) ==
    /\ \A i \in I : v[i] <= w[i]
    /\ \A i \in P : w[i + 1] - v[i + 1] <= w[i] - v[i]

\* The processors of which an event was consumed, and its values.
Seen == {c \in CPUs : \A i \in Idx : <<c, i>> \in DOMAIN previous_values}
PrevOf(c) == [i \in Idx |-> previous_values[<<c, i>>]]

PerfType ==
    /\ perf_phase \in {"new", "opening", "running", "failed"}
    /\ opened \subseteq CPUs \X Idx
    /\ perf_phase = "new" => /\ opened = {} /\ perf_events = <<>>
                             /\ DOMAIN previous_values = {}
    /\ perf_phase # "new" => hw \in [CPUs -> [Idx -> Nat]]
    /\ perf_events \in Seq([cpu : CPUs, values : [Idx -> Nat]])
    /\ previous_values \in [DOMAIN previous_values -> Nat]
    /\ DOMAIN previous_values \subseteq CPUs \X Idx
    /\ \A k \in DOMAIN previous_values, i \in Idx : <<k[1], i>> \in DOMAIN previous_values

\* A counter that is not open has counted nothing, and the cycles of a pair are
\* opened before its instructions.
PerfOpened ==
    \A c \in CPUs :
        /\ perf_phase # "new" => \A i \in Idx : <<c, i>> \notin opened => hw[c][i] = 0
        /\ \A i \in IpcIdx : <<c, i + 1>> \in opened => <<c, i>> \in opened

\* What was consumed, what is in the ring and what the counters hold now were
\* read one after the other.
PerfOrder ==
    /\ \A j \in DOMAIN perf_events :
          Later(Idx, IpcIdx, perf_events[j].values, hw[perf_events[j].cpu])
    /\ \A j, k \in DOMAIN perf_events :
          j < k /\ perf_events[j].cpu = perf_events[k].cpu
             => Later(Idx, IpcIdx, perf_events[j].values, perf_events[k].values)
    /\ \A c \in Seen :
          /\ Later(Idx, IpcIdx, PrevOf(c), hw[c])
          /\ \A j \in DOMAIN perf_events : perf_events[j].cpu = c
                => Later(Idx, IpcIdx, PrevOf(c), perf_events[j].values)

PerfShown ==
    /\ DOMAIN first_values = DOMAIN shown
    /\ DOMAIN shown = {k \in DOMAIN previous_values : ~counters[k[2]].derived_only}
    /\ \A k \in DOMAIN shown :
          /\ first_values[k] \in Nat /\ first_values[k] <= previous_values[k]
          /\ shown[k] = previous_values[k] - first_values[k]

PerfInv == PerfType /\ PerfOpened /\ PerfOrder /\ PerfShown /\ IpcNotOverstated

-----------------------------------------------------------------------------
(* Where expand_counters() puts the counters of an ipc.                     *)

\* Induction on the naturals, for a set of them: WFMin gives its least missing element.
LEMMA NatSetInduction ==
    ASSUME NEW P, 0 \in P, \A n \in Nat : n \in P => n + 1 \in P
    PROVE  Nat \subseteq P
<1> SUFFICES ASSUME Nat \ P # {} PROVE FALSE
  OBVIOUS
<1>1. PICK m \in Nat \ P : \A y \in Nat \ P : ~ (<<y, m>> \in OpToRel(<, Nat))
  <2>1. \A T : T \subseteq Nat /\ T # {} => \E x \in T : \A y \in T : ~ (<<y, x>> \in OpToRel(<, Nat))
    BY NatLessThanWellFounded, WFMin
  <2>. QED BY <2>1
<1>2. m \in Nat /\ m # 0
  BY <1>1
<1>3. m - 1 \in Nat /\ m - 1 < m /\ (m - 1) + 1 = m
  BY <1>2
<1>4. <<m - 1, m>> \in OpToRel(<, Nat)
  BY <1>2, <1>3 DEF OpToRel
<1>5. m - 1 \in P
  BY <1>1, <1>3, <1>4
<1>6. QED  BY <1>1, <1>2, <1>3, <1>5

\* g is the function with which FlattenSeq() joins ss.
Flattening(ss, n, g) == g = [i \in 1 .. n |-> IF i = 1 THEN ss[i] ELSE g[i - 1] \o ss[i]]

LEMMA FlatteningExists ==
    ASSUME NEW ss, NEW n \in Nat
    PROVE  \E g : Flattening(ss, n, g)
<1> DEFINE P == {m \in Nat : \E g : Flattening(ss, m, g)}
<1>1. 0 \in P
  <2>1. \E g : g = [i \in 1 .. 0 |-> 0]
    OBVIOUS
  <2>2. PICK g : g = [i \in 1 .. 0 |-> 0]
    BY <2>1
  <2>3. g = [i \in 1 .. 0 |-> IF i = 1 THEN ss[i] ELSE g[i - 1] \o ss[i]]
    BY <2>2
  <2>. QED BY <2>3 DEF Flattening
<1>2. ASSUME NEW m \in Nat, m \in P PROVE m + 1 \in P
  <2>1. PICK g : Flattening(ss, m, g)
    BY <1>2
  <2>2. PICK h : h = [i \in 1 .. m + 1 |-> IF i = 1 THEN ss[i] ELSE g[i - 1] \o ss[i]]
    OBVIOUS
  <2>3. \A i \in 1 .. m : h[i] = g[i]
    <3>1. \A i \in 1 .. m : g[i] = IF i = 1 THEN ss[i] ELSE g[i - 1] \o ss[i]
      BY <2>1 DEF Flattening
    <3>2. \A i \in 1 .. m : i \in 1 .. m + 1
      OBVIOUS
    <3>. QED BY <2>2, <3>1, <3>2
  <2>4. \A i \in 1 .. m + 1 : i # 1 => h[i - 1] = g[i - 1]
    <3>1. \A i \in 1 .. m + 1 : i # 1 => i - 1 \in 1 .. m
      OBVIOUS
    <3>. QED BY <2>3, <3>1
  <2>5. h = [i \in 1 .. m + 1 |-> IF i = 1 THEN ss[i] ELSE h[i - 1] \o ss[i]]
    BY <2>2, <2>4
  <2>6. \E k : Flattening(ss, m + 1, k)
    BY <2>5 DEF Flattening
  <2>. QED BY <2>6
<1> HIDE DEF P
<1>3. n \in P
  BY <1>1, <1>2, NatSetInduction
<1>. QED BY <1>3 DEF P

LEMMA FlattenUnfold ==
    ASSUME NEW ss, Len(ss) \in Nat, Len(ss) # 0
    PROVE  \E g : Flattening(ss, Len(ss), g) /\ FlattenSeq(ss) = g[Len(ss)]
<1>1. Flattening(ss, Len(ss), CHOOSE g : Flattening(ss, Len(ss), g))
  BY FlatteningExists
<1>2. FlattenSeq(ss) = (CHOOSE g : Flattening(ss, Len(ss), g))[Len(ss)]
  BY Zenon DEF FlattenSeq, Flattening
<1>. QED BY <1>1, <1>2

Counters == [name : STRING \cup {"cpu-cycles", "cpu-instructions"}, derived_only : BOOLEAN]

\* The derived counters of s up to its place n.
Derived(s, n) == {j \in 1 .. n : s[j].derived_only}

\* The derived counters of s come in pairs: the cycles at an odd one, the
\* instructions next to them.
PairedUp(s) ==
    /\ s \in Seq(Counters)
    /\ Cardinality(Derived(s, Len(s))) % 2 = 0
    /\ \A i \in 1 .. Len(s) :
          s[i].derived_only /\ Cardinality(Derived(s, i)) % 2 = 1
             => /\ i + 1 \in 1 .. Len(s)
                /\ s[i].name = "cpu-cycles" /\ s[i + 1].name = "cpu-instructions"

LEMMA DerivedFacts ==
    ASSUME NEW s \in Seq(Counters), NEW n \in 0 .. Len(s)
    PROVE  /\ IsFiniteSet(Derived(s, n)) /\ Cardinality(Derived(s, n)) \in Nat
           /\ \A t \in Seq(Counters) : n <= Len(t) /\ (\A j \in 1 .. n : t[j] = s[j])
                => Derived(t, n) = Derived(s, n)
           /\ n < Len(s) => Cardinality(Derived(s, n + 1))
                = Cardinality(Derived(s, n)) + (IF s[n + 1].derived_only THEN 1 ELSE 0)
<1>1. IsFiniteSet(Derived(s, n)) /\ Cardinality(Derived(s, n)) \in Nat
  <2>1. IsFiniteSet(1 .. n) /\ Derived(s, n) \subseteq 1 .. n
    BY FS_Interval DEF Derived
  <2>. QED BY <2>1, FS_Subset, FS_CardinalityType
<1>2. \A t \in Seq(Counters) : n <= Len(t) /\ (\A j \in 1 .. n : t[j] = s[j])
                => Derived(t, n) = Derived(s, n)
  BY DEF Derived
<1>3. ASSUME n < Len(s)
      PROVE  Cardinality(Derived(s, n + 1))
                = Cardinality(Derived(s, n)) + (IF s[n + 1].derived_only THEN 1 ELSE 0)
  <2>1. n + 1 \notin Derived(s, n)
    BY DEF Derived
  <2>2. CASE s[n + 1].derived_only
    <3>1. Derived(s, n + 1) = Derived(s, n) \cup {n + 1}
      BY <2>2 DEF Derived
    <3>. QED BY <3>1, <2>1, <2>2, <1>1, FS_AddElement
  <2>3. CASE ~s[n + 1].derived_only
    <3>1. Derived(s, n + 1) = Derived(s, n)
      BY <2>3 DEF Derived
    <3>. QED BY <3>1, <2>3, <1>1
  <2>. QED BY <2>2, <2>3
<1>. QED BY <1>1, <1>2, <1>3

LEMMA PlainPaired ==
    ASSUME NEW s, PairedUp(s), NEW x \in STRING
    PROVE  PairedUp(s \o <<Plain(x)>>)
<1>1. PICK t : t = s \o <<Plain(x)>>
  OBVIOUS
<1>2. s \in Seq(Counters) /\ Len(s) \in Nat
  BY DEF PairedUp
<1>3. /\ t \in Seq(Counters) /\ Len(t) = Len(s) + 1
      /\ \A j \in 1 .. Len(s) : t[j] = s[j]
      /\ t[Len(s) + 1].derived_only = FALSE
  BY <1>1, <1>2 DEF Plain, Counters
<1>4. ASSUME NEW n \in 0 .. Len(s) PROVE Derived(t, n) = Derived(s, n)
  <2>1. n <= Len(t) /\ \A j \in 1 .. n : t[j] = s[j]
    BY <1>2, <1>3
  <2>. QED BY <2>1, <1>2, <1>3 DEF Derived
<1>5. Cardinality(Derived(t, Len(t))) = Cardinality(Derived(s, Len(s)))
  BY <1>2, <1>3, <1>4, DerivedFacts
<1>. QED BY <1>1, <1>2, <1>3, <1>4, <1>5 DEF PairedUp

LEMMA IpcPaired ==
    ASSUME NEW s, PairedUp(s)
    PROVE  PairedUp(s \o <<ForIpc("cpu-cycles"), ForIpc("cpu-instructions")>>)
<1>1. PICK t : t = s \o <<ForIpc("cpu-cycles"), ForIpc("cpu-instructions")>>
  OBVIOUS
<1>2. s \in Seq(Counters) /\ Len(s) \in Nat
  BY DEF PairedUp
<1>3. /\ t \in Seq(Counters) /\ Len(t) = Len(s) + 2
      /\ \A j \in 1 .. Len(s) : t[j] = s[j]
      /\ t[Len(s) + 1].derived_only = TRUE /\ t[Len(s) + 1].name = "cpu-cycles"
      /\ t[Len(s) + 2].derived_only = TRUE /\ t[Len(s) + 2].name = "cpu-instructions"
  <2>0. PICK a, b : a = ForIpc("cpu-cycles") /\ b = ForIpc("cpu-instructions")
    OBVIOUS
  <2>1. /\ a \in Counters /\ a.derived_only = TRUE /\ a.name = "cpu-cycles"
        /\ b \in Counters /\ b.derived_only = TRUE /\ b.name = "cpu-instructions"
    <3>1. /\ a = [name |-> "cpu-cycles", derived_only |-> TRUE]
          /\ b = [name |-> "cpu-instructions", derived_only |-> TRUE]
      BY <2>0 DEF ForIpc
    <3>. QED BY <3>1 DEF Counters
  <2>2. t = s \o <<a, b>>
    BY <2>0, <1>1
  <2>3. /\ t \in Seq(Counters) /\ Len(t) = Len(s) + 2
        /\ \A j \in 1 .. Len(s) : t[j] = s[j]
        /\ t[Len(s) + 1] = a /\ t[Len(s) + 2] = b
    BY <2>1, <2>2, <1>2
  <2>. QED BY <2>1, <2>3
<1>4. ASSUME NEW n \in 0 .. Len(s) PROVE Derived(t, n) = Derived(s, n)
  <2>1. n <= Len(t) /\ \A j \in 1 .. n : t[j] = s[j]
    BY <1>2, <1>3
  <2>. QED BY <2>1, <1>2, <1>3 DEF Derived
<1>5. PICK d \in Nat : d = Cardinality(Derived(s, Len(s)))
  BY <1>2, DerivedFacts
<1>6. /\ Cardinality(Derived(t, Len(s) + 1)) = d + 1
      /\ Cardinality(Derived(t, Len(s) + 2)) = d + 2
  <2>1. /\ Cardinality(Derived(t, Len(s))) = d
        /\ Len(s) \in 0 .. Len(t) /\ Len(s) + 1 \in 0 .. Len(t)
        /\ Len(s) < Len(t) /\ Len(s) + 1 < Len(t) /\ (Len(s) + 1) + 1 = Len(s) + 2
    BY <1>2, <1>3, <1>4, <1>5
  <2>2. Cardinality(Derived(t, Len(s) + 1)) = d + 1
    BY <2>1, <1>3, DerivedFacts
  <2>3. Cardinality(Derived(t, (Len(s) + 1) + 1)) = (d + 1) + 1
    BY <2>1, <2>2, <1>3, DerivedFacts
  <2>. QED BY <2>1, <2>2, <2>3
<1>7. d % 2 = 0
  BY <1>5 DEF PairedUp
<1>8. (d + 2) % 2 = 0
  BY <1>7
<1>9. ASSUME NEW i \in 1 .. Len(t), t[i].derived_only, Cardinality(Derived(t, i)) % 2 = 1
      PROVE  /\ i + 1 \in 1 .. Len(t)
             /\ t[i].name = "cpu-cycles" /\ t[i + 1].name = "cpu-instructions"
  <2>1. CASE i \in 1 .. Len(s)
    BY <2>1, <1>2, <1>3, <1>4, <1>9 DEF PairedUp
  <2>2. CASE i = Len(s) + 1
    BY <2>2, <1>2, <1>3
  <2>3. CASE i = Len(s) + 2
    BY <2>3, <1>6, <1>8, <1>9
  <2>. QED BY <2>1, <2>2, <2>3, <1>2, <1>3
<1>10. Cardinality(Derived(t, Len(t))) % 2 = 0
  BY <1>3, <1>6, <1>8
<1>11. PairedUp(t)
  BY <1>3, <1>9, <1>10 DEF PairedUp
<1>. QED BY <1>1, <1>11

LEMMA ExpandPaired ==
    ASSUME NEW config \in Seq(STRING)
    PROVE  PairedUp(expand_counters(config))
<1>1. PICK ss : ss = [i \in DOMAIN config |->
                        IF config[i] = "ipc" THEN <<ForIpc("cpu-cycles"), ForIpc("cpu-instructions")>>
                        ELSE <<Plain(config[i])>>]
  OBVIOUS
<1>2. expand_counters(config) = FlattenSeq(ss)
  BY <1>1 DEF expand_counters
<1>3. PairedUp(<<>>)
  <2>1. Derived(<<>>, 0) = {}
    BY DEF Derived
  <2>2. Cardinality(Derived(<<>>, Len(<<>>))) = 0
    BY <2>1, FS_EmptySet
  <2>3. 0 % 2 = 0 /\ <<>> \in Seq(Counters) /\ 1 .. Len(<<>>) = {}
    OBVIOUS
  <2>. QED BY <2>2, <2>3 DEF PairedUp
<1>4. PICK n \in Nat : n = Len(config) /\ DOMAIN config = 1 .. n
  OBVIOUS
<1>5. Len(ss) = n
  BY <1>1, <1>4
<1>6. CASE n = 0
  <2>1. ss = <<>>
    BY <1>1, <1>4, <1>6
  <2>2. FlattenSeq(ss) = ss
    BY <1>5, <1>6 DEF FlattenSeq
  <2>. QED BY <2>1, <2>2, <1>2, <1>3
<1>7. CASE n # 0
  <2>1. PICK g : Flattening(ss, n, g) /\ FlattenSeq(ss) = g[n]
    BY <1>5, <1>7, FlattenUnfold
  <2>2. \A i \in 1 .. n : g[i] = IF i = 1 THEN ss[i] ELSE g[i - 1] \o ss[i]
    BY <2>1 DEF Flattening
  <2> DEFINE P == {m \in Nat : m \in 1 .. n => PairedUp(g[m])}
  <2>3. \A s, i : PairedUp(s) /\ i \in 1 .. n => PairedUp(s \o ss[i])
    <3> SUFFICES ASSUME NEW s, PairedUp(s), NEW i \in 1 .. n PROVE PairedUp(s \o ss[i])
      OBVIOUS
    <3>0. config[i] \in STRING
      BY <1>4
    <3>1. PICK x \in STRING : x = config[i]
      BY <3>0, Zenon
    <3>2. ss[i] = IF x = "ipc" THEN <<ForIpc("cpu-cycles"), ForIpc("cpu-instructions")>>
                  ELSE <<Plain(x)>>
      BY <3>1, <1>1, <1>4
    <3>. QED BY <3>2, PlainPaired, IpcPaired
  <2>4. 0 \in P
    OBVIOUS
  <2>5. ASSUME NEW m \in Nat, m \in P PROVE m + 1 \in P
    <3> SUFFICES ASSUME m + 1 \in 1 .. n PROVE PairedUp(g[m + 1])
      OBVIOUS
    <3>1. CASE m = 0
      <4>1. g[m + 1] = ss[1]
        BY <2>2, <3>1
      <4>2. <<>> \o ss[1] = ss[1]
        <5>1. ss[1] \in Seq(Counters)
          <6>0. 1 \in DOMAIN config /\ config[1] \in STRING
            BY <1>4, <1>7
          <6>1. /\ Plain(config[1]) \in Counters /\ ForIpc("cpu-cycles") \in Counters
                /\ ForIpc("cpu-instructions") \in Counters
            BY <6>0 DEF Plain, ForIpc, Counters
          <6>2. ss[1] = IF config[1] = "ipc" THEN <<ForIpc("cpu-cycles"), ForIpc("cpu-instructions")>>
                        ELSE <<Plain(config[1])>>
            BY <6>0, <1>1
          <6>. QED BY <6>1, <6>2
        <5>. QED BY <5>1
      <4>3. 1 \in 1 .. n
        BY <1>7
      <4>4. PairedUp(<<>> \o ss[1])
        BY <4>3, <2>3, <1>3
      <4>. QED BY <4>1, <4>2, <4>4
    <3>2. CASE m # 0
      <4>1. m \in 1 .. n /\ m + 1 # 1 /\ (m + 1) - 1 = m
        BY <3>2
      <4>2. g[m + 1] = g[m] \o ss[m + 1]
        BY <2>2, <4>1
      <4>. QED BY <4>1, <4>2, <2>3, <2>5
    <3>. QED BY <3>1, <3>2
  <2> HIDE DEF P
  <2>6. n \in P
    BY <2>4, <2>5, NatSetInduction
  <2>. QED BY <2>6, <1>2, <1>4, <1>7, <2>1 DEF P
<1>. QED BY <1>6, <1>7


LEMMA PairsAreIpc == ASSUME perf_config \in Seq(STRING) PROVE Pairs \subseteq IpcIdx
<1>1. PairedUp(counters)
  BY ExpandPaired DEF counters
<1> SUFFICES ASSUME NEW i \in Pairs PROVE i \in IpcIdx
  OBVIOUS
<1>2. /\ i \in 1 .. (Len(counters) - 1) /\ counters[i].derived_only
      /\ Cardinality(Derived(counters, i)) % 2 = 1
  BY DEF Pairs, Derived
<1>3. counters \in Seq(Counters) /\ Len(counters) \in Nat /\ Idx = 1 .. Len(counters)
  BY <1>1 DEF PairedUp, Idx
<1>4. i \in 1 .. Len(counters) /\ i \in Nat \ {0} /\ i + 1 \in Idx
  BY <1>2, <1>3
<1>5. counters[i].name = "cpu-cycles" /\ counters[i + 1].name = "cpu-instructions"
  BY <1>1, <1>2, <1>4 DEF PairedUp
<1>. QED BY <1>3, <1>4, <1>5 DEF IpcIdx

LEMMA IpcNames ==
    ASSUME perf_config \in Seq(STRING), NEW i \in Pairs
    PROVE  i \in IpcIdx /\ CyclesIdx(i) = i /\ InstructionsIdx(i) = i + 1
<1>1. i \in IpcIdx
  BY PairsAreIpc
<1>2. counters[i].name = "cpu-cycles"
  BY <1>1 DEF IpcIdx
<1>. QED BY <1>1, <1>2 DEF CyclesIdx, InstructionsIdx

-----------------------------------------------------------------------------
(* The counters: the steps.                                                 *)

LEMMA LaterFacts ==
    ASSUME NEW I, NEW P, \A i \in P : i \in I /\ i + 1 \in I,
           NEW v \in [I -> Nat]
    PROVE  /\ Later(I, P, v, v)
           /\ \A w, x \in [I -> Nat] : Later(I, P, v, w) /\ Later(I, P, w, x) => Later(I, P, v, x)
<1>1. Later(I, P, v, v)
  BY DEF Later
<1>2. ASSUME NEW w \in [I -> Nat], NEW x \in [I -> Nat], Later(I, P, v, w), Later(I, P, w, x)
      PROVE  Later(I, P, v, x)
  <2>1. \A i \in I : v[i] \in Nat /\ w[i] \in Nat /\ x[i] \in Nat
    OBVIOUS
  <2>2. \A i \in I : v[i] <= x[i]
    BY <1>2, <2>1 DEF Later
  <2>3. \A i \in P : x[i + 1] - v[i + 1] <= x[i] - v[i]
    BY <1>2, <2>1 DEF Later
  <2>. QED BY <2>2, <2>3 DEF Later
<1>. QED BY <1>1, <1>2

LEMMA IpcIdxFacts == \A i \in IpcIdx : i \in Idx /\ i + 1 \in Idx
  BY DEF IpcIdx

\* Nothing but perf_config determines the counters.
LEMMA CountersSame ==
    ASSUME UNCHANGED perf_config
    PROVE  counters' = counters /\ Idx' = Idx /\ IpcIdx' = IpcIdx /\ Pairs' = Pairs
<1>1. counters' = counters
  BY DEF counters
<1>2. Idx' = Idx
  BY <1>1 DEF Idx
<1>3. IpcIdx' = IpcIdx
  BY <1>1, <1>2 DEF IpcIdx
<1>4. Pairs' = Pairs
  BY <1>1 DEF Pairs
<1>. QED BY <1>1, <1>2, <1>3, <1>4

\* What is left when nothing is consumed: the values shown stay as they are.
LEMMA ShownSame ==
    ASSUME PerfShown, IpcNotOverstated,
           UNCHANGED <<perf_config, previous_values, shown, first_values, ipc_shown>>
    PROVE  /\ PerfShown' /\ IpcNotOverstated' /\ Seen' = Seen
           /\ \A c : PrevOf(c)' = PrevOf(c)
<1>1. counters' = counters /\ Idx' = Idx
  BY CountersSame
<1>2. PerfShown'
  BY <1>1 DEF PerfShown
<1>3. Seen' = Seen /\ \A c : PrevOf(c)' = PrevOf(c)
  BY <1>1 DEF Seen, PrevOf
<1>. QED BY <1>2, <1>3 DEF IpcNotOverstated

LEMMA PerfInit ==
    ASSUME PerfCounterIdle
    PROVE  PerfInv
<1>1. /\ perf_phase = "new" /\ opened = {} /\ perf_events = <<>> /\ ipc_shown = {}
      /\ DOMAIN previous_values = {} /\ DOMAIN shown = {} /\ DOMAIN first_values = {}
      /\ previous_values = [k \in {} |-> 0]
  BY DEF PerfCounterIdle
<1>2. PerfType
  BY <1>1 DEF PerfType
<1>3. PerfOpened
  BY <1>1 DEF PerfOpened
<1>4. DOMAIN perf_events = {}
  BY <1>1
<1>5. PerfOrder
  <2>1. ASSUME NEW c \in Seen PROVE Idx = {} /\ IpcIdx = {}
    BY <1>1 DEF Seen, IpcIdx
  <2>2. \A c \in Seen : Later(Idx, IpcIdx, PrevOf(c), hw[c])
    BY <2>1 DEF Later
  <2>. QED BY <1>4, <2>2 DEF PerfOrder
<1>6. PerfShown /\ IpcNotOverstated
  BY <1>1 DEF PerfShown, IpcNotOverstated
<1>. QED BY <1>2, <1>3, <1>5, <1>6 DEF PerfInv

LEMMA AttachPerf ==
    ASSUME PerfInv, perf_attach
    PROVE  PerfInv'
<1>1. PerfType /\ PerfOpened /\ PerfOrder /\ PerfShown /\ IpcNotOverstated
  BY DEF PerfInv
<1>2. /\ perf_phase = "new" /\ perf_phase' \in {"opening", "failed"}
      /\ hw' = [c \in CPUs |-> [i \in Idx |-> 0]]
      /\ UNCHANGED <<perf_config, opened, perf_events, previous_values, shown, first_values, ipc_shown>>
  BY DEF perf_attach, Idx
<1>3. Idx' = Idx /\ IpcIdx' = IpcIdx
  BY <1>2, CountersSame
<1>4. opened = {} /\ perf_events = <<>> /\ DOMAIN previous_values = {}
  BY <1>1, <1>2 DEF PerfType
<1>5. PerfType'
  BY <1>1, <1>2, <1>3, <1>4 DEF PerfType
<1>6. PerfOpened'
  BY <1>2, <1>3, <1>4 DEF PerfOpened
<1>7. PerfShown' /\ IpcNotOverstated' /\ Seen' = Seen
  BY <1>1, <1>2, ShownSame
<1>8. PerfOrder'
  <2>1. DOMAIN perf_events' = {}
    BY <1>2, <1>4
  <2>2. ASSUME NEW c \in Seen PROVE Idx = {} /\ IpcIdx = {}
    BY <1>4 DEF Seen, IpcIdx
  <2>3. \A c \in Seen' : Later(Idx, IpcIdx, PrevOf(c), hw[c])'
    BY <2>2, <1>3, <1>7 DEF Later
  <2>. QED BY <2>1, <2>3 DEF PerfOrder
<1>. QED BY <1>5, <1>6, <1>7, <1>8 DEF PerfInv

LEMMA OpenPerf ==
    ASSUME PerfInv, NEW c \in CPUs, perf_open(c)
    PROVE  PerfInv'
<1>1. PerfType /\ PerfOpened /\ PerfOrder /\ PerfShown /\ IpcNotOverstated
  BY DEF PerfInv
<1>2. PICK i \in Idx :
        /\ \A j \in 1 .. (i - 1) : \A d \in CPUs : <<d, j>> \in opened
        /\ \/ opened' = opened \cup {<<c, i>>} /\ UNCHANGED perf_phase
           \/ perf_phase' = "failed" /\ UNCHANGED opened
  BY DEF perf_open, Idx
<1>3. /\ perf_phase = "opening"
      /\ UNCHANGED <<perf_config, hw, perf_events, previous_values, shown, first_values, ipc_shown>>
  BY DEF perf_open
<1>4. Idx' = Idx /\ IpcIdx' = IpcIdx
  BY <1>3, CountersSame
<1>5. PerfShown' /\ IpcNotOverstated' /\ Seen' = Seen /\ \A d : PrevOf(d)' = PrevOf(d)
  BY <1>1, <1>3, ShownSame
<1>6. PerfType'
  BY <1>1, <1>2, <1>3, <1>4 DEF PerfType
<1>7. PerfOpened'
  <2>1. ASSUME NEW d \in CPUs, NEW k \in IpcIdx, <<d, k + 1>> \in opened'
        PROVE  <<d, k>> \in opened'
    <3>1. k \in Nat \ {0}
      BY DEF IpcIdx
    <3>2. CASE <<d, k + 1>> \in opened
      BY <3>2, <1>1, <1>2 DEF PerfOpened
    <3>3. CASE <<d, k + 1>> \notin opened
      <4>1. i = k + 1
        BY <3>3, <2>1, <1>2
      <4>2. k \in 1 .. (i - 1)
        BY <4>1, <3>1
      <4>. QED BY <4>2, <1>2
    <3>. QED BY <3>2, <3>3
  <2>2. \A d \in CPUs, k \in Idx : <<d, k>> \notin opened' => hw'[d][k] = 0
    BY <1>1, <1>2, <1>3 DEF PerfOpened
  <2>. QED BY <2>1, <2>2, <1>4 DEF PerfOpened
<1>8. PerfOrder'
  BY <1>1, <1>3, <1>4, <1>5 DEF PerfOrder
<1>. QED BY <1>5, <1>6, <1>7, <1>8 DEF PerfInv

LEMMA RunningPerf ==
    ASSUME PerfInv, perf_running
    PROVE  PerfInv'
<1>1. PerfType /\ PerfOpened /\ PerfOrder /\ PerfShown /\ IpcNotOverstated
  BY DEF PerfInv
<1>2. /\ perf_phase = "opening" /\ perf_phase' = "running"
      /\ UNCHANGED <<perf_config, opened, hw, perf_events, previous_values, shown, first_values,
                     ipc_shown>>
  BY DEF perf_running
<1>3. Idx' = Idx /\ IpcIdx' = IpcIdx
  BY <1>2, CountersSame
<1>4. PerfShown' /\ IpcNotOverstated' /\ Seen' = Seen /\ \A d : PrevOf(d)' = PrevOf(d)
  BY <1>1, <1>2, ShownSame
<1>5. PerfType' /\ PerfOpened'
  BY <1>1, <1>2, <1>3 DEF PerfType, PerfOpened
<1>6. PerfOrder'
  BY <1>1, <1>2, <1>3, <1>4 DEF PerfOrder
<1>. QED BY <1>4, <1>5, <1>6 DEF PerfInv


\* The readings of a state all lie before those of a later one.
LEMMA OrderExtends ==
    ASSUME PerfInv, perf_phase # "new", NEW h \in [CPUs -> [Idx -> Nat]],
           \A c \in CPUs : Later(Idx, IpcIdx, hw[c], h[c])
    PROVE  /\ \A j \in DOMAIN perf_events :
                Later(Idx, IpcIdx, perf_events[j].values, h[perf_events[j].cpu])
           /\ \A c \in Seen : Later(Idx, IpcIdx, PrevOf(c), h[c])
<1>1. PerfType /\ PerfOrder
  BY DEF PerfInv
<1>2. hw \in [CPUs -> [Idx -> Nat]]
  BY <1>1 DEF PerfType
<1>3. PICK I, P : I = Idx /\ P = IpcIdx
  OBVIOUS
<1>4. \A i \in P : i \in I /\ i + 1 \in I
  BY <1>3, IpcIdxFacts
<1>5. ASSUME NEW j \in DOMAIN perf_events
      PROVE  Later(I, P, perf_events[j].values, h[perf_events[j].cpu])
  <2>1. PICK c, v : c = perf_events[j].cpu /\ v = perf_events[j].values
    OBVIOUS
  <2>2. c \in CPUs /\ v \in [I -> Nat]
    <3>1. PICK R : R = [cpu : CPUs, values : [I -> Nat]]
      OBVIOUS
    <3>2. perf_events \in Seq(R)
      BY <3>1, <1>1, <1>3 DEF PerfType
    <3>3. perf_events[j] \in R
      BY <3>2
    <3>. QED BY <3>1, <3>3, <2>1
  <2>3. Later(I, P, v, hw[c]) /\ Later(I, P, hw[c], h[c])
    BY <1>1, <1>3, <2>1, <2>2 DEF PerfOrder
  <2>4. Later(I, P, v, h[c])
    BY <1>2, <1>3, <1>4, <2>2, <2>3, LaterFacts
  <2>. QED BY <2>1, <2>4
<1>6. ASSUME NEW c \in Seen PROVE Later(I, P, PrevOf(c), h[c])
  <2>1. PICK v : v = PrevOf(c)
    OBVIOUS
  <2>2. c \in CPUs /\ v \in [I -> Nat]
    BY <1>1, <1>3, <2>1 DEF PerfType, Seen, PrevOf
  <2>3. Later(I, P, v, hw[c]) /\ Later(I, P, hw[c], h[c])
    BY <1>1, <1>3, <2>1, <2>2 DEF PerfOrder
  <2>4. Later(I, P, v, h[c])
    BY <1>2, <1>3, <1>4, <2>2, <2>3, LaterFacts
  <2>. QED BY <2>1, <2>4
<1>. QED BY <1>3, <1>5, <1>6

LEMMA CountPerf ==
    ASSUME PerfInv, NEW c \in CPUs, Count(c)
    PROVE  PerfInv'
<1>1. PerfType /\ PerfOpened /\ PerfOrder /\ PerfShown /\ IpcNotOverstated
  BY DEF PerfInv
<1>2. /\ perf_phase # "new"
      /\ UNCHANGED <<perf_config, perf_phase, opened, perf_events, previous_values, shown,
                     first_values, ipc_shown>>
  BY DEF Count
<1>3. Idx' = Idx /\ IpcIdx' = IpcIdx
  BY <1>2, CountersSame
<1>4. PICK retired, other \in 0 .. 1 :
        hw' = [hw EXCEPT ![c] = [i \in DOMAIN counters |->
                     IF <<c, i>> \notin opened THEN @[i]
                     ELSE @[i] + (CASE counters[i].name = "cpu-cycles" -> 1
                                    [] counters[i].name = "cpu-instructions" -> retired
                                    [] OTHER -> other)]]
  BY DEF Count
<1>5. hw \in [CPUs -> [Idx -> Nat]]
  BY <1>1, <1>2 DEF PerfType
<1> DEFINE up(i) == IF <<c, i>> \notin opened THEN 0
                    ELSE CASE counters[i].name = "cpu-cycles" -> 1
                           [] counters[i].name = "cpu-instructions" -> retired
                           [] OTHER -> other
<1>6. \A i \in Idx : up(i) \in 0 .. 1
  OBVIOUS
<1> HIDE DEF up
<1>7. PICK h : h = hw'
  OBVIOUS
<1>8. /\ h \in [CPUs -> [Idx -> Nat]]
      /\ \A d \in CPUs : d # c => h[d] = hw[d]
      /\ \A i \in Idx : h[c][i] = hw[c][i] + up(i)
  <2>1. PICK row : row = [i \in Idx |-> IF <<c, i>> \notin opened THEN hw[c][i]
                     ELSE hw[c][i] + (CASE counters[i].name = "cpu-cycles" -> 1
                                    [] counters[i].name = "cpu-instructions" -> retired
                                    [] OTHER -> other)]
    OBVIOUS
  <2>2. h = [hw EXCEPT ![c] = row]
    BY <1>4, <1>7, <2>1 DEF Idx
  <2>3. \A i \in Idx : row[i] = hw[c][i] + up(i)
    BY <2>1, <1>5 DEF up
  <2>4. row \in [Idx -> Nat]
    <3>1. \A i \in Idx : row[i] \in Nat
      BY <2>3, <1>5, <1>6
    <3>2. row = [i \in Idx |-> row[i]]
      BY <2>1
    <3>. QED BY <3>1, <3>2
  <2>. QED BY <2>2, <2>3, <2>4, <1>5
<1>9. \A i \in IpcIdx : up(i + 1) <= up(i)
  <2> TAKE i \in IpcIdx
  <2>1. i \in Idx /\ i + 1 \in Idx /\ counters[i].name = "cpu-cycles"
    BY DEF IpcIdx
  <2>2. <<c, i + 1>> \in opened => <<c, i>> \in opened
    BY <1>1 DEF PerfOpened
  <2>3. up(i + 1) \in 0 .. 1 /\ up(i) \in 0 .. 1
    BY <2>1, <1>6
  <2>4. <<c, i>> \in opened => up(i) = 1
    BY <2>1 DEF up
  <2>5. <<c, i + 1>> \notin opened => up(i + 1) = 0
    BY DEF up
  <2>. QED BY <2>2, <2>3, <2>4, <2>5
<1>10. \A d \in CPUs : Later(Idx, IpcIdx, hw[d], h[d])
  <2>1. \A d \in CPUs, i \in Idx : hw[d][i] \in Nat /\ h[d][i] \in Nat
    BY <1>5, <1>8
  <2>2. \A d \in CPUs, i \in Idx : hw[d][i] <= h[d][i]
    BY <1>6, <1>8, <2>1
  <2>3. ASSUME NEW d \in CPUs, NEW i \in IpcIdx
        PROVE  h[d][i + 1] - hw[d][i + 1] <= h[d][i] - hw[d][i]
    <3>1. i \in Idx /\ i + 1 \in Idx
      BY IpcIdxFacts
    <3>2. CASE d = c
      BY <3>1, <3>2, <2>1, <1>6, <1>8, <1>9
    <3>3. CASE d # c
      BY <3>1, <3>3, <2>1, <1>8
    <3>. QED BY <3>2, <3>3
  <2>. QED BY <2>2, <2>3 DEF Later
<1>11. PerfShown' /\ IpcNotOverstated' /\ Seen' = Seen /\ \A d : PrevOf(d)' = PrevOf(d)
  BY <1>1, <1>2, ShownSame
<1>12. PerfType'
  BY <1>1, <1>2, <1>3, <1>7, <1>8 DEF PerfType
<1>13. PerfOpened'
  <2>1. \A d \in CPUs, i \in Idx : <<d, i>> \notin opened => h[d][i] = 0
    <3>1. \A i \in Idx : <<c, i>> \notin opened => up(i) = 0
      BY DEF up
    <3>. QED BY <3>1, <1>1, <1>2, <1>8 DEF PerfOpened
  <2>. QED BY <2>1, <1>1, <1>2, <1>3, <1>7 DEF PerfOpened
<1>14. PerfOrder'
  <2>1. /\ \A j \in DOMAIN perf_events :
              Later(Idx, IpcIdx, perf_events[j].values, h[perf_events[j].cpu])
        /\ \A d \in Seen : Later(Idx, IpcIdx, PrevOf(d), h[d])
    BY <1>2, <1>8, <1>10, OrderExtends
  <2>. QED BY <2>1, <1>1, <1>2, <1>3, <1>7, <1>11 DEF PerfOrder
<1>. QED BY <1>11, <1>12, <1>13, <1>14 DEF PerfInv

LEMMA TimerPerf ==
    ASSUME PerfInv, NEW c \in CPUs, perfcounter_timer(c)
    PROVE  PerfInv'
<1>1. PerfType /\ PerfOpened /\ PerfOrder /\ PerfShown /\ IpcNotOverstated
  BY DEF PerfInv
<1>2. /\ perf_phase # "new"
      /\ UNCHANGED <<perf_config, perf_phase, opened, hw, previous_values, shown, first_values,
                     ipc_shown>>
  BY DEF perfcounter_timer
<1>3. Idx' = Idx /\ IpcIdx' = IpcIdx
  BY <1>2, CountersSame
<1>4. hw \in [CPUs -> [Idx -> Nat]]
  BY <1>1, <1>2 DEF PerfType
<1>5. PICK v : v = [i \in Idx |-> IF <<c, i>> \in opened THEN hw[c][i] ELSE 0]
  OBVIOUS
<1>6. v = hw[c]
  <2>1. \A i \in Idx : v[i] = hw[c][i]
    BY <1>1, <1>2, <1>5 DEF PerfOpened
  <2>2. hw[c] \in [Idx -> Nat]
    BY <1>4
  <2>. QED BY <2>1, <2>2, <1>5
<1>7. PICK e : e = [cpu |-> c, values |-> v]
  OBVIOUS
<1>8. e.cpu = c /\ e.values = hw[c] /\ e \in [cpu : CPUs, values : [Idx -> Nat]]
  BY <1>4, <1>6, <1>7
<1>9. perf_events' = Append(perf_events, e)
  BY <1>5, <1>7 DEF perfcounter_timer, Idx
<1>10. /\ perf_events \in Seq([cpu : CPUs, values : [Idx -> Nat]])
       /\ Len(perf_events) \in Nat /\ DOMAIN perf_events = 1 .. Len(perf_events)
  BY <1>1 DEF PerfType
<1>11. PICK n \in Nat : n = Len(perf_events)
  BY <1>10
<1>12. /\ perf_events' \in Seq([cpu : CPUs, values : [Idx -> Nat]])
       /\ DOMAIN perf_events' = 1 .. n + 1 /\ perf_events'[n + 1] = e
       /\ \A j \in 1 .. n : perf_events'[j] = perf_events[j]
  BY <1>8, <1>9, <1>10, <1>11
<1>13. PerfShown' /\ IpcNotOverstated' /\ Seen' = Seen /\ \A d : PrevOf(d)' = PrevOf(d)
  BY <1>1, <1>2, ShownSame
<1>14. PerfType'
  BY <1>1, <1>2, <1>3, <1>12 DEF PerfType
<1>15. PerfOpened'
  BY <1>1, <1>2, <1>3 DEF PerfOpened
<1>16. PerfOrder'
  <2>1. Later(Idx, IpcIdx, e.values, hw[e.cpu])
    BY <1>4, <1>8, IpcIdxFacts, LaterFacts
  <2>2. ASSUME NEW j \in 1 .. n + 1
        PROVE  Later(Idx, IpcIdx, perf_events'[j].values, hw[perf_events'[j].cpu])
    <3>1. CASE j = n + 1
      BY <3>1, <2>1, <1>12
    <3>2. CASE j \in 1 .. n
      BY <3>2, <1>1, <1>10, <1>11, <1>12 DEF PerfOrder
    <3>. QED BY <3>1, <3>2
  <2>3. ASSUME NEW j \in 1 .. n + 1, NEW k \in 1 .. n + 1, j < k,
               perf_events'[j].cpu = perf_events'[k].cpu
        PROVE  Later(Idx, IpcIdx, perf_events'[j].values, perf_events'[k].values)
    <3>0. j \in 1 .. n
      BY <2>3
    <3>1. j \in 1 .. n /\ perf_events'[j] = perf_events[j]
      BY <3>0, <1>12
    <3>2. CASE k = n + 1
      <4>1. Later(Idx, IpcIdx, perf_events[j].values, hw[perf_events[j].cpu])
        BY <3>1, <1>1, <1>10, <1>11 DEF PerfOrder
      <4>. QED BY <4>1, <3>1, <3>2, <2>3, <1>8, <1>12
    <3>3. CASE k \in 1 .. n
      BY <3>1, <3>3, <2>3, <1>1, <1>10, <1>11, <1>12 DEF PerfOrder
    <3>. QED BY <3>2, <3>3
  <2>4. ASSUME NEW d \in Seen
        PROVE  /\ Later(Idx, IpcIdx, PrevOf(d), hw[d])
               /\ \A j \in 1 .. n + 1 : perf_events'[j].cpu = d
                     => Later(Idx, IpcIdx, PrevOf(d), perf_events'[j].values)
    <3>1. Later(Idx, IpcIdx, PrevOf(d), hw[d])
      BY <1>1 DEF PerfOrder
    <3>2. ASSUME NEW j \in 1 .. n + 1, perf_events'[j].cpu = d
          PROVE  Later(Idx, IpcIdx, PrevOf(d), perf_events'[j].values)
      <4>1. CASE j = n + 1
        BY <4>1, <3>1, <3>2, <1>8, <1>12
      <4>2. CASE j \in 1 .. n
        BY <4>2, <3>2, <1>1, <1>10, <1>11, <1>12 DEF PerfOrder
      <4>. QED BY <4>1, <4>2
    <3>. QED BY <3>1, <3>2
  <2>. QED BY <2>2, <2>3, <2>4, <1>2, <1>3, <1>12, <1>13 DEF PerfOrder
<1>. QED BY <1>13, <1>14, <1>15, <1>16 DEF PerfInv


LEMMA ConsumePerf ==
    ASSUME PerfInv, perf_consume, perf_config \in Seq(STRING)
    PROVE  PerfInv'
<1>1. PerfType /\ PerfOpened /\ PerfOrder /\ PerfShown /\ IpcNotOverstated
  BY DEF PerfInv
<1>2. /\ perf_phase = "running" /\ perf_events # <<>>
      /\ perf_events' = Tail(perf_events)
      /\ UNCHANGED <<perf_config, perf_phase, opened, hw>>
  BY DEF perf_consume
<1>3. /\ counters' = counters /\ Idx' = Idx /\ IpcIdx' = IpcIdx /\ Pairs' = Pairs
  BY <1>2, CountersSame
<1>4. hw \in [CPUs -> [Idx -> Nat]]
  BY <1>1, <1>2 DEF PerfType
<1>5. PICK e : e = Head(perf_events)
  OBVIOUS
<1>6. /\ process_regular_counters(e) /\ process_derived_counters(e) /\ update_previous_values(e)
      /\ first_values' = [k \in DOMAIN first_values \cup Regular(e) |->
                  IF k \in DOMAIN first_values THEN first_values[k] ELSE e.values[k[2]]]
  BY <1>5 DEF perf_consume
<1>7. perf_events \in Seq([cpu : CPUs, values : [Idx -> Nat]])
  <2>1. PerfType
    BY <1>1, ZenonT(60)
  <2>. QED BY <2>1, Zenon DEF PerfType
<1>8. PICK n \in Nat : Len(perf_events) = n + 1
  <2>1. Len(perf_events) \in Nat /\ Len(perf_events) # 0
    BY <1>2, <1>7
  <2>2. Len(perf_events) - 1 \in Nat /\ Len(perf_events) = (Len(perf_events) - 1) + 1
    BY <2>1
  <2>. QED BY <2>2
<1>9. /\ e = perf_events[1] /\ e \in [cpu : CPUs, values : [Idx -> Nat]]
      /\ DOMAIN perf_events = 1 .. n + 1
      /\ perf_events' \in Seq([cpu : CPUs, values : [Idx -> Nat]])
      /\ DOMAIN perf_events' = 1 .. n
      /\ \A j \in 1 .. n : perf_events'[j] = perf_events[j + 1] /\ j + 1 \in 1 .. n + 1
  <2>1. PICK R : R = [cpu : CPUs, values : [Idx -> Nat]]
    OBVIOUS
  <2>2. perf_events \in Seq(R)
    BY <2>1, <1>7
  <2>3. /\ e = perf_events[1] /\ e \in R
        /\ DOMAIN perf_events = 1 .. n + 1
        /\ perf_events' \in Seq(R) /\ Len(perf_events') = n
    BY <2>2, <1>2, <1>5, <1>8
  <2>4. \A j \in 1 .. n : perf_events'[j] = perf_events[j + 1] /\ j + 1 \in 1 .. n + 1
    BY <2>2, <1>2, <1>8
  <2>. QED BY <2>1, <2>3, <2>4
<1>10. PICK c, v : c = e.cpu /\ v = e.values /\ c \in CPUs /\ v \in [Idx -> Nat]
  BY <1>9
<1>11. /\ previous_values \in [DOMAIN previous_values -> Nat]
       /\ DOMAIN previous_values \subseteq CPUs \X Idx
       /\ \A k \in DOMAIN previous_values, i \in Idx : <<k[1], i>> \in DOMAIN previous_values
  BY <1>1 DEF PerfType
<1>12. previous_values' = [k \in DOMAIN previous_values \cup ({c} \X Idx) |->
                             IF k[1] = c THEN v[k[2]] ELSE previous_values[k]]
  BY <1>6, <1>10 DEF update_previous_values, Idx
<1>13. /\ DOMAIN previous_values' = DOMAIN previous_values \cup ({c} \X Idx)
       /\ \A i \in Idx : previous_values'[<<c, i>>] = v[i]
       /\ \A d \in CPUs, i \in Idx : d # c =>
            /\ <<d, i>> \in DOMAIN previous_values' <=> <<d, i>> \in DOMAIN previous_values
            /\ <<d, i>> \in DOMAIN previous_values => previous_values'[<<d, i>>] = previous_values[<<d, i>>]
  BY <1>12
<1>14. PerfType'
  <2>1. \A k \in DOMAIN previous_values' : previous_values'[k] \in Nat /\ k \in CPUs \X Idx
    <3> SUFFICES ASSUME NEW k \in DOMAIN previous_values'
                 PROVE  previous_values'[k] \in Nat /\ k \in CPUs \X Idx
      OBVIOUS
    <3>1. k \in CPUs \X Idx
      BY <1>10, <1>11, <1>13
    <3>2. k[1] \in CPUs /\ k[2] \in Idx /\ k = <<k[1], k[2]>>
      BY <3>1
    <3>3. CASE k[1] = c
      BY <3>1, <3>2, <3>3, <1>10, <1>13
    <3>4. CASE k[1] # c
      <4>1. k \in DOMAIN previous_values
        BY <3>2, <3>4, <1>13
      <4>2. previous_values[k] \in Nat
        BY <4>1, <1>11
      <4>. QED BY <3>1, <3>2, <3>4, <4>1, <4>2, <1>13
    <3>. QED BY <3>3, <3>4
  <2>2. previous_values' \in [DOMAIN previous_values' -> Nat]
    <3>1. previous_values' = [k \in DOMAIN previous_values' |-> previous_values'[k]]
      BY <1>12
    <3>. QED BY <2>1, <3>1
  <2>3. DOMAIN previous_values' \subseteq CPUs \X Idx
    BY <2>1
  <2>4. \A k \in DOMAIN previous_values', i \in Idx : <<k[1], i>> \in DOMAIN previous_values'
    BY <1>11, <1>13
  <2>. QED BY <2>2, <2>3, <2>4, <1>1, <1>2, <1>3, <1>4, <1>9 DEF PerfType
<1>15. PerfOpened'
  BY <1>1, <1>2, <1>3 DEF PerfOpened
\* The increment of a counter, and how the two of a pair compare.
<1>16. \A i \in Idx :
         /\ delta(e, i) \in Nat
         /\ <<c, i>> \in DOMAIN previous_values => /\ delta(e, i) = v[i] - previous_values[<<c, i>>]
                                                  /\ previous_values[<<c, i>>] \in Nat
                                                  /\ previous_values[<<c, i>>] <= v[i]
                                                  /\ c \in Seen
         /\ <<c, i>> \notin DOMAIN previous_values => delta(e, i) = 0
  <2> TAKE i \in Idx
  <2>1. CASE <<c, i>> \notin DOMAIN previous_values
    <3>1. delta(e, i) = 0
      BY <2>1, <1>10 DEF delta
    <3>. QED BY <3>1, <2>1
  <2>2. CASE <<c, i>> \in DOMAIN previous_values
    <3>1. c \in Seen
      <4>1. \A j \in Idx : <<c, j>> \in DOMAIN previous_values
        BY <2>2, <1>11
      <4>. QED BY <4>1, <1>10 DEF Seen
    <3>2. Later(Idx, IpcIdx, PrevOf(c), v)
      <4>1. 1 \in DOMAIN perf_events /\ perf_events[1].cpu = c /\ perf_events[1].values = v
        BY <1>9, <1>10
      <4>. QED BY <3>1, <4>1, <1>1 DEF PerfOrder
    <3>3. previous_values[<<c, i>>] <= v[i]
      BY <3>2 DEF Later, PrevOf
    <3>4. previous_values[<<c, i>>] \in Nat /\ v[i] \in Nat
      BY <2>2, <1>10, <1>11
    <3>5. delta(e, i) = v[i] - previous_values[<<c, i>>]
      BY <2>2, <3>3, <3>4, <1>10 DEF delta
    <3>. QED BY <2>2, <3>1, <3>3, <3>4, <3>5
  <2>. QED BY <2>1, <2>2
<1>17. \A i \in IpcIdx : delta(e, i + 1) <= delta(e, i)
  <2> TAKE i \in IpcIdx
  <2>1. i \in Idx /\ i + 1 \in Idx
    BY IpcIdxFacts
  <2>2. CASE <<c, i>> \notin DOMAIN previous_values
    <3>1. <<c, i + 1>> \notin DOMAIN previous_values
      BY <2>1, <2>2, <1>11
    <3>. QED BY <2>1, <2>2, <3>1, <1>16
  <2>3. CASE <<c, i>> \in DOMAIN previous_values
    <3>1. <<c, i + 1>> \in DOMAIN previous_values
      BY <2>1, <2>3, <1>11
    <3>2. Later(Idx, IpcIdx, PrevOf(c), v)
      <4>1. 1 \in DOMAIN perf_events /\ perf_events[1].cpu = c /\ perf_events[1].values = v
        BY <1>9, <1>10
      <4>2. c \in Seen
        BY <2>1, <2>3, <1>16
      <4>. QED BY <4>1, <4>2, <1>1 DEF PerfOrder
    <3>3. v[i + 1] - PrevOf(c)[i + 1] <= v[i] - PrevOf(c)[i]
      BY <3>2 DEF Later
    <3>. QED BY <3>1, <3>3, <2>1, <2>3, <1>16 DEF PrevOf
  <2>. QED BY <2>2, <2>3
<1>18. IpcNotOverstated'
  <2>1. \A i \in Pairs : delta(e, InstructionsIdx(i)) <= delta(e, CyclesIdx(i))
    <3> TAKE i \in Pairs
    <3>1. i \in IpcIdx /\ CyclesIdx(i) = i /\ InstructionsIdx(i) = i + 1
      BY IpcNames
    <3>. QED BY <3>1, <1>17
  <2>2. ipc_shown' = ipc_shown \cup
          {[instructions |-> delta(e, InstructionsIdx(i)), cycles |-> delta(e, CyclesIdx(i))] : i \in Pairs}
    BY <1>6 DEF process_derived_counters
  <2>3. ASSUME NEW q \in ipc_shown' PROVE q.instructions <= q.cycles
    <3>1. CASE q \in ipc_shown
      BY <3>1, <1>1 DEF IpcNotOverstated
    <3>2. CASE q \notin ipc_shown
      <4>1. PICK i \in Pairs : q = [instructions |-> delta(e, InstructionsIdx(i)), cycles |-> delta(e, CyclesIdx(i))]
        BY <2>2, <3>2
      <4>. QED BY <4>1, <2>1
    <3>. QED BY <3>1, <3>2
  <2>. QED BY <2>3 DEF IpcNotOverstated
<1>19. PerfOrder'
  <2>1. \A j \in 1 .. n : Later(Idx, IpcIdx, perf_events'[j].values, hw[perf_events'[j].cpu])
    BY <1>1, <1>9 DEF PerfOrder
  <2>2. ASSUME NEW j \in 1 .. n, NEW k \in 1 .. n, j < k, perf_events'[j].cpu = perf_events'[k].cpu
        PROVE  Later(Idx, IpcIdx, perf_events'[j].values, perf_events'[k].values)
    <3>1. j + 1 < k + 1 /\ j + 1 \in 1 .. n + 1 /\ k + 1 \in 1 .. n + 1
      BY <2>2
    <3>2. perf_events'[j] = perf_events[j + 1] /\ perf_events'[k] = perf_events[k + 1]
      BY <1>9
    <3>. QED BY <2>2, <3>1, <3>2, <1>1, <1>9, ZenonT(60) DEF PerfOrder
  <2>3. ASSUME NEW d \in Seen', d # c
        PROVE  d \in Seen /\ PrevOf(d)' = PrevOf(d)
    <3>1. d \in CPUs /\ \A i \in Idx : <<d, i>> \in DOMAIN previous_values'
      BY <1>3 DEF Seen
    <3>2. \A i \in Idx : /\ <<d, i>> \in DOMAIN previous_values
                         /\ previous_values'[<<d, i>>] = previous_values[<<d, i>>]
      BY <3>1, <2>3, <1>13
    <3>3. d \in Seen
      BY <3>1, <3>2 DEF Seen
    <3>. QED BY <3>2, <3>3, <1>3 DEF PrevOf
  <2>4. PrevOf(c)' = v
    <3>1. PrevOf(c)' = [i \in Idx |-> previous_values'[<<c, i>>]]
      BY <1>3 DEF PrevOf
    <3>2. PrevOf(c)' = [i \in Idx |-> v[i]]
      BY <3>1, <1>13
    <3>. QED BY <3>2, <1>10
  <2>5. ASSUME NEW d \in Seen'
        PROVE  /\ Later(Idx, IpcIdx, PrevOf(d)', hw[d])
               /\ \A j \in 1 .. n : perf_events'[j].cpu = d
                     => Later(Idx, IpcIdx, PrevOf(d)', perf_events'[j].values)
    <3>1. CASE d = c
      <4>1. Later(Idx, IpcIdx, v, hw[c])
        <5>1. 1 \in DOMAIN perf_events
          BY <1>9
        <5>. QED BY <5>1, <1>1, <1>9, <1>10 DEF PerfOrder
      <4>2. ASSUME NEW j \in 1 .. n, perf_events'[j].cpu = c
            PROVE  Later(Idx, IpcIdx, v, perf_events'[j].values)
        <5>1. 1 \in 1 .. n + 1 /\ j + 1 \in 1 .. n + 1 /\ 1 < j + 1
          OBVIOUS
        <5>2. perf_events'[j] = perf_events[j + 1]
          BY <1>9
        <5>3. perf_events[1].cpu = perf_events[j + 1].cpu
          BY <5>2, <4>2, <1>9, <1>10
        <5>. QED BY <5>1, <5>2, <5>3, <1>1, <1>9, <1>10 DEF PerfOrder
      <4>. QED BY <3>1, <4>1, <4>2, <2>4
    <3>2. CASE d # c
      <4>1. d \in Seen /\ PrevOf(d)' = PrevOf(d)
        BY <3>2, <2>3
      <4>2. /\ Later(Idx, IpcIdx, PrevOf(d), hw[d])
            /\ \A j \in DOMAIN perf_events : perf_events[j].cpu = d
                  => Later(Idx, IpcIdx, PrevOf(d), perf_events[j].values)
        BY <4>1, <1>1, Zenon DEF PerfOrder
      <4>3. \A j \in 1 .. n : j + 1 \in DOMAIN perf_events /\ perf_events'[j] = perf_events[j + 1]
        BY <1>9
      <4>. QED BY <4>1, <4>2, <4>3
    <3>. QED BY <3>1, <3>2
  <2>. QED BY <2>1, <2>2, <2>5, <1>2, <1>3, <1>9 DEF PerfOrder
<1>20. PerfShown'
  <2>1. /\ DOMAIN first_values = DOMAIN shown
        /\ DOMAIN shown = {k \in DOMAIN previous_values : ~counters[k[2]].derived_only}
        /\ \A k \in DOMAIN shown :
              /\ first_values[k] \in Nat /\ first_values[k] <= previous_values[k]
              /\ shown[k] = previous_values[k] - first_values[k]
    BY <1>1 DEF PerfShown
  <2>2. PICK R : R = Regular(e) /\ R = {c} \X {i \in Idx : ~counters[i].derived_only}
    BY <1>10 DEF Regular, Idx
  <2>3. shown' = [k \in DOMAIN shown \cup R |->
                   (IF k \in DOMAIN shown THEN shown[k] ELSE 0) + (IF k[1] = c THEN delta(e, k[2]) ELSE 0)]
    BY <1>6, <1>10, <2>2 DEF process_regular_counters
  <2>4. first_values' = [k \in DOMAIN shown \cup R |->
                  IF k \in DOMAIN shown THEN first_values[k] ELSE v[k[2]]]
    BY <1>6, <1>10, <2>1, <2>2
  <2>5. DOMAIN shown' = DOMAIN shown \cup R /\ DOMAIN first_values' = DOMAIN shown \cup R
    BY <2>3, <2>4
  <2>6. DOMAIN shown' = {k \in DOMAIN previous_values' : ~counters[k[2]].derived_only}
    <3>1. {k \in {c} \X Idx : ~counters[k[2]].derived_only} = R
      BY <2>2
    <3>. QED BY <3>1, <2>1, <2>5, <1>13
  <2>7. ASSUME NEW k \in DOMAIN shown \cup R
        PROVE  /\ first_values'[k] \in Nat /\ first_values'[k] <= previous_values'[k]
               /\ shown'[k] = previous_values'[k] - first_values'[k]
    <3>1. k \in CPUs \X Idx
      BY <2>1, <2>2, <1>10, <1>11
    <3>2. PICK d \in CPUs, i \in Idx : k = <<d, i>> /\ k[1] = d /\ k[2] = i
      BY <3>1
    <3>3. /\ shown'[k] = (IF k \in DOMAIN shown THEN shown[k] ELSE 0) + (IF d = c THEN delta(e, i) ELSE 0)
          /\ first_values'[k] = IF k \in DOMAIN shown THEN first_values[k] ELSE v[i]
      BY <2>3, <2>4, <3>2
    <3>4. v[i] \in Nat
      BY <1>10
    <3>5. CASE k \in DOMAIN shown /\ d = c
      <4>1. <<c, i>> \in DOMAIN previous_values
        BY <3>2, <3>5, <2>1
      <4>2. previous_values'[k] = v[i]
        BY <3>2, <3>5, <1>13
      <4>. QED BY <4>1, <4>2, <3>2, <3>3, <3>4, <3>5, <2>1, <1>16
    <3>6. CASE k \in DOMAIN shown /\ d # c
      <4>1. <<d, i>> \in DOMAIN previous_values
        BY <3>2, <3>6, <2>1
      <4>2. previous_values'[k] = previous_values[k] /\ previous_values[k] \in Nat
        BY <3>2, <3>6, <4>1, <1>11, <1>13
      <4>. QED BY <4>2, <3>3, <3>6, <2>1
    <3>7. CASE k \notin DOMAIN shown
      <4>1. d = c /\ k \in R
        BY <3>2, <3>7, <2>2
      <4>2. <<c, i>> \notin DOMAIN previous_values
        BY <4>1, <3>2, <3>7, <2>1, <2>2
      <4>3. previous_values'[k] = v[i]
        BY <4>1, <3>2, <1>13
      <4>4. delta(e, i) = 0
        BY <4>2, <1>16
      <4>5. shown'[k] = 0 /\ first_values'[k] = v[i]
        BY <4>1, <4>4, <3>3, <3>7
      <4>. QED BY <4>3, <4>5, <3>4
    <3>. QED BY <3>5, <3>6, <3>7
  <2>. QED BY <2>5, <2>6, <2>7, <1>3 DEF PerfShown
<1>. QED BY <1>14, <1>15, <1>18, <1>19, <1>20 DEF PerfInv


LEMMA UntouchedPerf ==
    ASSUME PerfInv, UNCHANGED perfVars
    PROVE  PerfInv'
<1>1. PerfType /\ PerfOpened /\ PerfOrder /\ PerfShown /\ IpcNotOverstated
  BY DEF PerfInv
<1>2. UNCHANGED <<perf_config, perf_phase, opened, hw, perf_events, previous_values, shown,
                  first_values, ipc_shown>>
  BY DEF perfVars
<1>3. Idx' = Idx /\ IpcIdx' = IpcIdx
  BY <1>2, CountersSame
<1>4. PerfShown' /\ IpcNotOverstated' /\ Seen' = Seen /\ \A d : PrevOf(d)' = PrevOf(d)
  BY <1>1, <1>2, ShownSame
<1>5. PerfType' /\ PerfOpened'
  BY <1>1, <1>2, <1>3 DEF PerfType, PerfOpened
<1>6. PerfOrder'
  BY <1>1, <1>2, <1>3, <1>4 DEF PerfOrder
<1>. QED BY <1>4, <1>5, <1>6 DEF PerfInv

PerfSafe == PerfInv /\ perf_config \in Seq(STRING)

LEMMA PerfNext == PerfSafe /\ [Next]_vars => PerfSafe'
<1> SUFFICES ASSUME PerfSafe, [Next]_vars PROVE PerfSafe'
  OBVIOUS
<1>1. PerfInv /\ perf_config \in Seq(STRING)
  BY DEF PerfSafe
<1>2. CASE UNCHANGED perfVars
  BY <1>1, <1>2, UntouchedPerf DEF PerfSafe, perfVars
<1>3. CASE OnPerf
  <2>1. PerfCounterNext
    BY <1>3 DEF OnPerf
  <2>2. UNCHANGED perf_config
    BY <2>1 DEF PerfCounterNext, perf_attach, perf_running, perf_consume, perf_open, Count,
                perfcounter_timer
  <2>3. CASE perf_attach
    BY <2>2, <2>3, <1>1, AttachPerf DEF PerfSafe
  <2>4. CASE perf_running
    BY <2>2, <2>4, <1>1, RunningPerf DEF PerfSafe
  <2>5. CASE perf_consume
    BY <2>2, <2>5, <1>1, ConsumePerf DEF PerfSafe
  <2>6. ASSUME NEW c \in CPUs, perf_open(c) \/ Count(c) \/ perfcounter_timer(c)
        PROVE  PerfSafe'
    BY <2>2, <2>6, <1>1, OpenPerf, CountPerf, TimerPerf DEF PerfSafe
  <2>. QED BY <2>1, <2>3, <2>4, <2>5, <2>6 DEF PerfCounterNext
<1>. QED BY <1>2, <1>3 DEF Next, vars

LEMMA PerfInvariant == Spec => []PerfSafe
<1>1. Init => PerfSafe
  <2> SUFFICES ASSUME Init PROVE PerfSafe
    OBVIOUS
  <2>1. PerfInv
    BY PerfInit DEF Init
  <2>2. perf_config \in PerfConfigs \/ perf_config = <<>>
    BY DEF Init
  <2>3. <<>> \in Seq(STRING)
    OBVIOUS
  <2>. QED BY <2>1, <2>2, <2>3, PerfCounterConstants DEF PerfSafe
<1>. QED BY <1>1, PerfNext, PTL DEF Spec

\* The increments that perfcounter.rs writes add up to what the counter went up by
\* between the first and the last event that came through, for any list of
\* counters, whatever events the ring loses and whenever the timers fire.
THEOREM PerfIncrements == Spec => []IncrementsAddUp
<1>1. PerfSafe => IncrementsAddUp
  <2> SUFFICES ASSUME PerfSafe, NEW k \in DOMAIN shown
               PROVE  /\ shown[k] = previous_values[k] - first_values[k]
                      /\ previous_values[k] <= hw[k[1]][k[2]]
    BY DEF IncrementsAddUp
  <2>1. PerfType /\ PerfOrder /\ PerfShown
    BY DEF PerfSafe, PerfInv
  <2>2. k \in DOMAIN previous_values /\ shown[k] = previous_values[k] - first_values[k]
    BY <2>1 DEF PerfShown
  <2>3. PICK c \in CPUs, i \in Idx : k = <<c, i>> /\ k[1] = c /\ k[2] = i
    BY <2>1, <2>2 DEF PerfType
  <2>4. c \in Seen
    <3>1. \A j \in Idx : <<k[1], j>> \in DOMAIN previous_values
      BY <2>1, <2>2 DEF PerfType
    <3>. QED BY <3>1, <2>3 DEF Seen
  <2>5. Later(Idx, IpcIdx, PrevOf(c), hw[c])
    BY <2>1, <2>4 DEF PerfOrder
  <2>6. previous_values[<<c, i>>] <= hw[c][i]
    BY <2>5 DEF Later, PrevOf
  <2>. QED BY <2>2, <2>3, <2>6
<1>. QED BY <1>1, PerfInvariant, PTL

\* No quotient of instructions and cycles exceeds what the processor can retire,
\* also when a timer fires between the opening of the two counters, for any list
\* of counters: expand_counters() puts the cycles of an ipc before its instructions.
THEOREM PerfRatios == Spec => []IpcNotOverstated
<1>1. PerfSafe => IpcNotOverstated
  BY DEF PerfSafe, PerfInv
<1>. QED BY <1>1, PerfInvariant, PTL

-----------------------------------------------------------------------------
(* The processor time: the inductive invariant.                             *)

CpuRecords == [tid : Tids \cup {Idle}, tgid : Processes \cup {NoTgid}, start : Nat,
               kstart : Nat, kacc : Nat, in_kernel : BOOLEAN]
CpuEvents == [tid : Tids \cup {Idle}, tgid : Processes \cup {NoTgid}, start : Nat, end : Nat,
              kernel : Nat, boundary : BOOLEAN]

\* A thread on a processor is running, and on no other.
CpuWorld ==
    \A c \in CPUs : cpu[c] \in Tids =>
        thread[cpu[c]].state = "running" /\ \A d \in CPUs : cpu[d] = cpu[c] => d = c

\* The time in the kernel lies within the slice that is open.
StateOK(s, n) ==
    /\ s \in CpuRecords /\ s.start <= n /\ s.kstart <= n
    /\ s.tid # Idle => s.start # 0
    /\ s.tgid \in {NoTgid, Tgid(s.tid)}
    /\ s.start + s.kacc <= IF s.in_kernel /\ s.kstart > 0 THEN s.kstart ELSE n

EventOK(e, n) ==
    /\ e \in CpuEvents /\ e.start <= e.end /\ e.end <= n
    /\ e.tid # Idle => e.start # 0
    /\ e.kernel <= e.end - e.start

\* No thread has an open slice on two processors.
StatesOK(st, n) ==
    /\ DOMAIN st = CPUs
    /\ \A c \in CPUs : StateOK(st[c], n)
    /\ \A c, d \in CPUs : st[c].tid = st[d].tid /\ st[c].tid # Idle => c = d

\* The slices of a thread in the ring follow one another, and the open one them.
QueueOK(st, q, n) ==
    /\ q \in Seq(CpuEvents)
    /\ \A j \in DOMAIN q : EventOK(q[j], n)
    /\ \A j, k \in DOMAIN q : j < k /\ q[j].tid = q[k].tid /\ q[j].tid # Idle
                                 => q[j].end <= q[k].start
    /\ \A j \in DOMAIN q, c \in CPUs : q[j].tid = st[c].tid /\ q[j].tid # Idle
                                          => q[j].end <= st[c].start

\* What was added up for a thread since the last report lies between its min and
\* the slices still to come.
StatsOK(ts, mx, st, q, n) ==
    /\ mx \in Nat /\ mx <= n
    /\ DOMAIN ts \subseteq Tids
    /\ \A t \in DOMAIN ts :
          /\ ts[t] \in [cpu : Nat, kernel : Nat, min : Nat]
          /\ ts[t].kernel <= ts[t].cpu
          /\ ts[t].min + ts[t].cpu <= mx
          /\ ts[t].cpu > 0 =>
               /\ \A j \in DOMAIN q : q[j].tid = t => ts[t].min + ts[t].cpu <= q[j].start
               /\ \A c \in CPUs : st[c].tid = t => ts[t].min + ts[t].cpu <= st[c].start

\* Each processor's record is of the thread that runs there.
AttachedInv ==
    /\ now > 0
    /\ \A c \in CPUs : cpu_states[c].tid = IF "cpuutil" \in attached THEN cpu[c] ELSE Idle
    /\ "cpuutil" \notin attached => cpu_events = <<>>
    /\ total \in [Tids -> Nat] /\ ran \in [Tids -> Nat] /\ cpu_tgids \subseteq Processes


-----------------------------------------------------------------------------
(* Counting the units of time in the ring buffer.                           *)

Timed(e, n) == e.start \in Nat /\ e.end \in Nat /\ e.start <= e.end /\ e.end <= n

RingUnits(q, n, t) ==
    {u \in (DOMAIN q) \X (0 .. n) :
        /\ q[u[1]].tid = t /\ q[u[1]].tgid # NoTgid
        /\ q[u[1]].start <= u[2] /\ u[2] < q[u[1]].end}

\* The units of the event e, when it is the k-th, and how many they are.
EventUnits(k, e, t) == IF e.tid = t /\ e.tgid # NoTgid THEN {k} \X (e.start .. (e.end - 1)) ELSE {}
Worth(e, t) == IF e.tid = t /\ e.tgid # NoTgid THEN e.end - e.start ELSE 0

LEMMA EventWorth ==
    ASSUME NEW e, NEW n \in Nat, Timed(e, n), NEW t, NEW k
    PROVE  /\ IsFiniteSet(EventUnits(k, e, t)) /\ Cardinality(EventUnits(k, e, t)) = Worth(e, t)
           /\ Worth(e, t) \in Nat
<1>1. PICK a \in Nat, b \in Nat : a = e.start /\ b = e.end /\ a <= b
  BY DEF Timed
<1>2. CASE ~(e.tid = t /\ e.tgid # NoTgid)
  BY <1>2, FS_EmptySet DEF EventUnits, Worth
<1>3. CASE e.tid = t /\ e.tgid # NoTgid
  <2>1. a \in Int /\ b - 1 \in Int
    BY <1>1
  <2>2. IsFiniteSet(a .. (b - 1)) /\ Cardinality(a .. (b - 1)) = b - a
    <3>1. /\ IsFiniteSet(a .. (b - 1))
          /\ Cardinality(a .. (b - 1)) = IF a > b - 1 THEN 0 ELSE (b - 1) - a + 1
      BY <2>1, FS_Interval
    <3>. QED BY <3>1, <1>1
  <2>3. IsFiniteSet({k}) /\ Cardinality({k}) = 1
    BY FS_Singleton
  <2>4. PICK I : I = a .. (b - 1) /\ IsFiniteSet(I) /\ Cardinality(I) = b - a
    BY <2>2
  <2>5. IsFiniteSet({k} \X I) /\ Cardinality({k} \X I) = Cardinality({k}) * Cardinality(I)
    BY <2>3, <2>4, FS_Product
  <2>6. EventUnits(k, e, t) = {k} \X I /\ Worth(e, t) = b - a
    BY <1>1, <1>3, <2>4 DEF EventUnits, Worth
  <2>. QED BY <1>1, <2>3, <2>4, <2>5, <2>6
<1>. QED BY <1>2, <1>3

LEMMA RingFinite ==
    ASSUME NEW R, NEW q \in Seq(R), NEW n \in Nat, NEW t
    PROVE  IsFiniteSet(RingUnits(q, n, t)) /\ Cardinality(RingUnits(q, n, t)) \in Nat
<1>1. Len(q) \in Nat /\ DOMAIN q = 1 .. Len(q)
  OBVIOUS
<1>2. IsFiniteSet(1 .. Len(q)) /\ IsFiniteSet(0 .. n)
  BY <1>1, FS_Interval
<1>3. IsFiniteSet((DOMAIN q) \X (0 .. n))
  BY <1>1, <1>2, FS_Product
<1>4. RingUnits(q, n, t) \subseteq (DOMAIN q) \X (0 .. n)
  BY DEF RingUnits
<1>. QED BY <1>3, <1>4, FS_Subset, FS_CardinalityType

LEMMA RingAppend ==
    ASSUME NEW R, NEW q \in Seq(R), NEW e \in R, NEW n \in Nat, NEW t, Timed(e, n)
    PROVE  Cardinality(RingUnits(Append(q, e), n, t)) = Cardinality(RingUnits(q, n, t)) + Worth(e, t)
<1>0. PICK k \in Nat : k = Len(q) + 1
  OBVIOUS
<1>1. PICK p : p = Append(q, e) /\ k = Len(q) + 1
  BY <1>0
<1>2. /\ p \in Seq(R) /\ DOMAIN p = 1 .. k /\ DOMAIN q = 1 .. (k - 1) /\ p[k] = e
      /\ \A j \in 1 .. (k - 1) : p[j] = q[j]
  BY <1>1
<1>3. PICK A, B, C : A = RingUnits(q, n, t) /\ B = EventUnits(k, e, t) /\ C = RingUnits(p, n, t)
  OBVIOUS
<1>4. C = A \cup B
  <2>1. ASSUME NEW u \in C PROVE u \in A \cup B
    <3>1. PICK j \in 1 .. k, x \in 0 .. n : u = <<j, x>> /\ u[1] = j /\ u[2] = x
      BY <1>2, <1>3 DEF RingUnits
    <3>2. p[j].tid = t /\ p[j].tgid # NoTgid /\ p[j].start <= x /\ x < p[j].end
      BY <3>1, <1>3 DEF RingUnits
    <3>3. CASE j = k
      <4>1. e.tid = t /\ e.tgid # NoTgid /\ x \in e.start .. (e.end - 1)
        BY <3>1, <3>2, <3>3, <1>2 DEF Timed
      <4>. QED BY <4>1, <3>1, <3>3, <1>3 DEF EventUnits
    <3>4. CASE j # k
      <4>1. j \in 1 .. (k - 1) /\ p[j] = q[j]
        BY <3>1, <3>4, <1>2
      <4>. QED BY <4>1, <3>1, <3>2, <1>2, <1>3 DEF RingUnits
    <3>. QED BY <3>3, <3>4
  <2>2. ASSUME NEW u \in A PROVE u \in C
    <3>1. PICK j \in 1 .. (k - 1), x \in 0 .. n : u = <<j, x>> /\ u[1] = j /\ u[2] = x
      BY <1>2, <1>3 DEF RingUnits
    <3>2. q[j].tid = t /\ q[j].tgid # NoTgid /\ q[j].start <= x /\ x < q[j].end
      BY <3>1, <1>3 DEF RingUnits
    <3>3. j \in DOMAIN p /\ p[j] = q[j]
      BY <1>2, <1>1
    <3>. QED BY <3>1, <3>2, <3>3, <1>3 DEF RingUnits
  <2>3. ASSUME NEW u \in B PROVE u \in C
    <3>1. e.tid = t /\ e.tgid # NoTgid /\ u \in {k} \X (e.start .. (e.end - 1))
      BY <1>3 DEF EventUnits
    <3>2. PICK x \in e.start .. (e.end - 1) : u = <<k, x>> /\ u[1] = k /\ u[2] = x
      BY <3>1
    <3>3. x \in 0 .. n /\ e.start <= x /\ x < e.end
      BY <3>2 DEF Timed
    <3>4. k \in DOMAIN p
      BY <1>1, <1>2
    <3>. QED BY <3>1, <3>2, <3>3, <3>4, <1>2, <1>3 DEF RingUnits
  <2>. QED BY <2>1, <2>2, <2>3
<1>5. A \cap B = {}
  <2>1. ASSUME NEW u \in A, u \in B PROVE FALSE
    <3>1. u[1] \in 1 .. (k - 1)
      BY <1>2, <1>3 DEF RingUnits
    <3>2. u[1] = k
      BY <2>1, <1>3 DEF EventUnits
    <3>. QED BY <3>1, <3>2
  <2>. QED BY <2>1
<1>6. IsFiniteSet(A) /\ Cardinality(A) \in Nat
  BY <1>3, RingFinite
<1>7. IsFiniteSet(B) /\ Cardinality(B) = Worth(e, t) /\ Worth(e, t) \in Nat
  BY <1>3, EventWorth
<1>8. Cardinality(A \cup B) = Cardinality(A) + Cardinality(B) - Cardinality({})
  BY <1>5, <1>6, <1>7, FS_Union
<1>9. Cardinality({}) = 0
  BY FS_EmptySet
<1>. QED BY <1>1, <1>3, <1>4, <1>6, <1>7, <1>8, <1>9

\* Moving the places of the units moves nothing out of the count.
LEMMA ShiftedUnits ==
    ASSUME NEW n \in Nat, NEW S \in SUBSET ((Nat \ {0}) \X (0 .. n)), IsFiniteSet(S)
    PROVE  /\ IsFiniteSet({<<u[1] + 1, u[2]>> : u \in S})
           /\ Cardinality({<<u[1] + 1, u[2]>> : u \in S}) = Cardinality(S)
<1>1. PICK T : T = {<<u[1] + 1, u[2]>> : u \in S}
  OBVIOUS
<1>2. PICK f : f = [u \in S |-> <<u[1] + 1, u[2]>>]
  OBVIOUS
<1>3. \A u \in S : f[u] = <<u[1] + 1, u[2]>> /\ f[u] \in T
  BY <1>1, <1>2
<1>4. f \in [S -> T]
  BY <1>2, <1>3
<1>5. \A a, b \in S : f[a] = f[b] => a = b
  <2> SUFFICES ASSUME NEW a \in S, NEW b \in S, f[a] = f[b] PROVE a = b
    OBVIOUS
  <2>1. PICK i \in Nat, x \in 0 .. n : a = <<i, x>> /\ a[1] = i /\ a[2] = x
    OBVIOUS
  <2>2. PICK j \in Nat, y \in 0 .. n : b = <<j, y>> /\ b[1] = j /\ b[2] = y
    OBVIOUS
  <2>3. f[a][1] = i + 1 /\ f[a][2] = x /\ f[b][1] = j + 1 /\ f[b][2] = y
    BY <2>1, <2>2, <1>3
  <2>4. i + 1 = j + 1 /\ x = y
    BY <2>3
  <2>. QED BY <2>1, <2>2, <2>4
<1>6. \A v \in T : \E u \in S : f[u] = v
  BY <1>1, <1>3
<1>7. f \in Bijection(S, T)
  BY <1>4, <1>5, <1>6 DEF Bijection, Injection, Surjection, IsInjective
<1>8. ExistsBijection(S, T)
  BY <1>7 DEF ExistsBijection
<1>. QED BY <1>1, <1>8, FS_Bijection

LEMMA RingTail ==
    ASSUME NEW R, NEW q \in Seq(R), q # <<>>, NEW n \in Nat, NEW t, Timed(Head(q), n)
    PROVE  Cardinality(RingUnits(q, n, t)) = Cardinality(RingUnits(Tail(q), n, t)) + Worth(Head(q), t)
<1>0. PICK m \in Nat : Len(q) = m + 1
  <2>1. Len(q) \in Nat /\ Len(q) # 0
    OBVIOUS
  <2>2. Len(q) - 1 \in Nat /\ Len(q) = (Len(q) - 1) + 1
    BY <2>1
  <2>. QED BY <2>2
<1>1. PICK p, e : p = Tail(q) /\ e = Head(q)
  OBVIOUS
<1>2. /\ p \in Seq(R) /\ DOMAIN q = 1 .. (m + 1) /\ DOMAIN p = 1 .. m /\ q[1] = e
      /\ \A j \in 1 .. m : p[j] = q[j + 1]
  BY <1>0, <1>1
<1>3. PICK A, B, C : A = RingUnits(p, n, t) /\ B = EventUnits(1, e, t) /\ C = RingUnits(q, n, t)
  OBVIOUS
<1>4. PICK D : D = {<<u[1] + 1, u[2]>> : u \in A}
  OBVIOUS
<1>5. A \in SUBSET ((Nat \ {0}) \X (0 .. n))
  BY <1>2, <1>3 DEF RingUnits
<1>6. IsFiniteSet(A) /\ Cardinality(A) \in Nat
  BY <1>2, <1>3, RingFinite
<1>7. IsFiniteSet(D) /\ Cardinality(D) = Cardinality(A)
  BY <1>4, <1>5, <1>6, ShiftedUnits
<1>8. C = D \cup B
  <2>1. ASSUME NEW u \in C PROVE u \in D \cup B
    <3>1. PICK j \in 1 .. (m + 1), x \in 0 .. n : u = <<j, x>> /\ u[1] = j /\ u[2] = x
      BY <1>2, <1>3 DEF RingUnits
    <3>2. q[j].tid = t /\ q[j].tgid # NoTgid /\ q[j].start <= x /\ x < q[j].end
      BY <3>1, <1>3 DEF RingUnits
    <3>3. CASE j = 1
      <4>1. e.tid = t /\ e.tgid # NoTgid /\ x \in e.start .. (e.end - 1)
        BY <3>1, <3>2, <3>3, <1>1, <1>2 DEF Timed
      <4>. QED BY <4>1, <3>1, <3>3, <1>3 DEF EventUnits
    <3>4. CASE j # 1
      <4>1. PICK i \in 1 .. m : j = i + 1
        <5>1. j - 1 \in 1 .. m /\ j = (j - 1) + 1
          BY <3>4
        <5>. QED BY <5>1
      <4>2. p[i] = q[j] /\ i \in DOMAIN p
        BY <4>1, <1>2
      <4>3. PICK w : w = <<i, x>>
        OBVIOUS
      <4>. w[1] = i /\ w[2] = x
        BY <4>3
      <4>4. w \in A
        BY <4>2, <4>3, <3>2, <1>3 DEF RingUnits
      <4>5. u = <<w[1] + 1, w[2]>>
        BY <4>1, <4>3, <3>1
      <4>. QED BY <4>4, <4>5, <1>4
    <3>. QED BY <3>3, <3>4
  <2>2. ASSUME NEW u \in D PROVE u \in C
    <3>1. PICK w \in A : u = <<w[1] + 1, w[2]>>
      BY <1>4
    <3>2. PICK i \in 1 .. m, x \in 0 .. n : w = <<i, x>> /\ w[1] = i /\ w[2] = x
      BY <1>2, <1>3 DEF RingUnits
    <3>3. p[i].tid = t /\ p[i].tgid # NoTgid /\ p[i].start <= x /\ x < p[i].end
      BY <3>1, <3>2, <1>3 DEF RingUnits
    <3>4. i + 1 \in DOMAIN q /\ q[i + 1] = p[i]
      BY <1>2
    <3>5. u = <<i + 1, x>> /\ u[1] = i + 1 /\ u[2] = x
      BY <3>1, <3>2
    <3>. QED BY <3>3, <3>4, <3>5, <1>3 DEF RingUnits
  <2>3. ASSUME NEW u \in B PROVE u \in C
    <3>1. e.tid = t /\ e.tgid # NoTgid /\ u \in {1} \X (e.start .. (e.end - 1))
      BY <1>3 DEF EventUnits
    <3>2. PICK x \in e.start .. (e.end - 1) : u = <<1, x>> /\ u[1] = 1 /\ u[2] = x
      BY <3>1
    <3>3. x \in 0 .. n /\ e.start <= x /\ x < e.end
      BY <3>2, <1>1 DEF Timed
    <3>4. 1 \in DOMAIN q
      BY <1>2
    <3>. QED BY <3>1, <3>2, <3>3, <3>4, <1>2, <1>3 DEF RingUnits
  <2>. QED BY <2>1, <2>2, <2>3
<1>9. D \cap B = {}
  <2>1. ASSUME NEW u \in D, u \in B PROVE FALSE
    <3>1. PICK w \in A : u = <<w[1] + 1, w[2]>>
      BY <1>4
    <3>2. w[1] \in Nat \ {0} /\ u[1] = w[1] + 1
      BY <3>1, <1>5
    <3>3. u[1] = 1
      BY <2>1, <1>3 DEF EventUnits
    <3>. QED BY <3>2, <3>3
  <2>. QED BY <2>1
<1>10. IsFiniteSet(B) /\ Cardinality(B) = Worth(e, t) /\ Worth(e, t) \in Nat
  BY <1>1, <1>3, EventWorth
<1>11. Cardinality(D \cup B) = Cardinality(D) + Cardinality(B) - Cardinality({})
  BY <1>7, <1>9, <1>10, FS_Union
<1>12. Cardinality({}) = 0
  BY FS_EmptySet
<1>. QED BY <1>1, <1>3, <1>6, <1>7, <1>8, <1>10, <1>11, <1>12, SMTT(60)


-----------------------------------------------------------------------------
(* Counting the units of time in the open slices.                           *)

SliceUnits(st, n, t) ==
    {u \in CPUs \X (0 .. n) : st[u[1]].tid = t /\ st[u[1]].start <= u[2] /\ u[2] < n}

LEMMA OpenSlice ==
    ASSUME NEW st, NEW n \in Nat, NEW t, NEW c \in CPUs, st[c].tid = t,
           \A d \in CPUs : st[d].tid = t => d = c,
           st[c].start \in Nat, st[c].start <= n
    PROVE  Cardinality(SliceUnits(st, n, t)) = n - st[c].start
<1>1. PICK a \in Nat : a = st[c].start /\ a <= n
  OBVIOUS
<1>2. PICK I : I = a .. (n - 1)
  OBVIOUS
<1>3. IsFiniteSet(I) /\ Cardinality(I) = n - a
  <2>1. a \in Int /\ n - 1 \in Int
    BY <1>1
  <2>2. /\ IsFiniteSet(a .. (n - 1))
        /\ Cardinality(a .. (n - 1)) = IF a > n - 1 THEN 0 ELSE (n - 1) - a + 1
    BY <2>1, FS_Interval
  <2>. QED BY <2>2, <1>1, <1>2
<1>4. IsFiniteSet({c}) /\ Cardinality({c}) = 1
  BY FS_Singleton
<1>5. Cardinality({c} \X I) = Cardinality({c}) * Cardinality(I)
  BY <1>3, <1>4, FS_Product
<1>6. SliceUnits(st, n, t) = {c} \X I
  <2>1. ASSUME NEW u \in SliceUnits(st, n, t) PROVE u \in {c} \X I
    <3>1. PICK d \in CPUs, x \in 0 .. n : u = <<d, x>> /\ st[d].tid = t /\ st[d].start <= x /\ x < n
      BY DEF SliceUnits
    <3>2. d = c
      BY <3>1
    <3>. QED BY <3>1, <3>2, <1>1, <1>2
  <2>2. ASSUME NEW u \in {c} \X I PROVE u \in SliceUnits(st, n, t)
    <3>1. PICK x \in I : u = <<c, x>> /\ u[1] = c /\ u[2] = x
      OBVIOUS
    <3>2. x \in 0 .. n /\ a <= x /\ x < n
      BY <3>1, <1>2
    <3>. QED BY <3>1, <3>2, <1>1 DEF SliceUnits
  <2>. QED BY <2>1, <2>2
<1>. QED BY <1>1, <1>3, <1>4, <1>5, <1>6

LEMMA NoSlice ==
    ASSUME NEW st, NEW n \in Nat, NEW t, \A d \in CPUs : st[d].tid # t
    PROVE  Cardinality(SliceUnits(st, n, t)) = 0
<1>1. SliceUnits(st, n, t) = {}
  BY DEF SliceUnits
<1>. QED BY <1>1, FS_EmptySet

-----------------------------------------------------------------------------
(* A slice is closed on processor c, by a switch or a boundary.             *)

Slices(st, q, nst, nq, n, c, e) ==
    /\ c \in CPUs /\ DOMAIN nst = CPUs /\ StateOK(nst[c], n) /\ nst[c].start = n
    /\ \A d \in CPUs : d # c => nst[d] = st[d] /\ (nst[c].tid # Idle => st[d].tid # nst[c].tid)
    /\ EventOK(e, n) /\ e.tid = st[c].tid /\ e.start = st[c].start /\ e.end = n
    /\ nq = q \/ nq = Append(q, e)

LEMMA SlicesOrder ==
    ASSUME NEW st, NEW q, NEW nst, NEW nq, NEW n \in Nat, NEW c, NEW e, NEW ts, NEW mx,
           Slices(st, q, nst, nq, n, c, e), StatesOK(st, n), QueueOK(st, q, n),
           StatsOK(ts, mx, st, q, n)
    PROVE  StatesOK(nst, n) /\ QueueOK(nst, nq, n) /\ StatsOK(ts, mx, nst, nq, n)
<1>1. /\ c \in CPUs /\ DOMAIN nst = CPUs /\ StateOK(nst[c], n) /\ nst[c].start = n
      /\ \A d \in CPUs : d # c => nst[d] = st[d] /\ (nst[c].tid # Idle => st[d].tid # nst[c].tid)
      /\ EventOK(e, n) /\ e.tid = st[c].tid /\ e.start = st[c].start /\ e.end = n
      /\ nq = q \/ nq = Append(q, e)
  BY DEF Slices
<1>2. /\ \A d \in CPUs : StateOK(st[d], n)
      /\ \A a, b \in CPUs : st[a].tid = st[b].tid /\ st[a].tid # Idle => a = b
  BY DEF StatesOK
<1>3. StatesOK(nst, n)
  BY <1>1, <1>2 DEF StatesOK
<1>4. /\ q \in Seq(CpuEvents) /\ e \in CpuEvents
      /\ \A j \in DOMAIN q : EventOK(q[j], n)
      /\ \A j, k \in DOMAIN q : j < k /\ q[j].tid = q[k].tid /\ q[j].tid # Idle
                                   => q[j].end <= q[k].start
      /\ \A j \in DOMAIN q, d \in CPUs : q[j].tid = st[d].tid /\ q[j].tid # Idle
                                            => q[j].end <= st[d].start
  BY <1>1 DEF QueueOK, EventOK
<1>5. \A j \in DOMAIN q : q[j].end <= n
  BY <1>4 DEF EventOK
\* A place of the new ring is one of the old ring, or that of the event.
<1>6. PICK m \in Nat : m = Len(q)
  BY <1>4
<1>7. /\ nq \in Seq(CpuEvents) /\ DOMAIN q = 1 .. m
      /\ \A j \in DOMAIN nq : (j \in 1 .. m /\ nq[j] = q[j]) \/ (j = m + 1 /\ nq[j] = e)
  <2>1. CASE nq = q
    BY <2>1, <1>4, <1>6
  <2>2. CASE nq = Append(q, e)
    <3>1. PICK R : R = CpuEvents
      OBVIOUS
    <3>2. q \in Seq(R) /\ e \in R
      BY <3>1, <1>4
    <3>3. /\ nq \in Seq(R) /\ DOMAIN nq = 1 .. m + 1 /\ DOMAIN q = 1 .. m
          /\ nq[m + 1] = e /\ \A j \in 1 .. m : nq[j] = q[j]
      BY <2>2, <3>2, <1>6
    <3>4. \A j \in 1 .. m + 1 : j \in 1 .. m \/ j = m + 1
      OBVIOUS
    <3>. QED BY <3>1, <3>3, <3>4
  <2>. QED BY <2>1, <2>2, <1>1
<1>8. QueueOK(nst, nq, n)
  <2>1. \A j \in DOMAIN nq : EventOK(nq[j], n)
    BY <1>1, <1>4, <1>7
  <2>2. ASSUME NEW j \in DOMAIN nq, NEW k \in DOMAIN nq, j < k, nq[j].tid = nq[k].tid, nq[j].tid # Idle
        PROVE  nq[j].end <= nq[k].start
    <3>1. j \in 1 .. m /\ nq[j] = q[j]
      BY <2>2, <1>6, <1>7
    <3>2. CASE k \in 1 .. m /\ nq[k] = q[k]
      BY <3>1, <3>2, <2>2, <1>4, <1>7
    <3>3. CASE k = m + 1 /\ nq[k] = e
      BY <3>1, <3>3, <2>2, <1>1, <1>4, <1>7
    <3>. QED BY <3>2, <3>3, <1>7
  <2>3. ASSUME NEW j \in DOMAIN nq, NEW d \in CPUs, nq[j].tid = nst[d].tid, nq[j].tid # Idle
        PROVE  nq[j].end <= nst[d].start
    <3>1. nq[j].end <= n
      BY <2>1 DEF EventOK
    <3>2. CASE d = c
      BY <3>1, <3>2, <1>1
    <3>3. CASE d # c
      <4>1. nst[d] = st[d]
        BY <3>3, <1>1
      <4>2. CASE j \in 1 .. m /\ nq[j] = q[j]
        BY <4>1, <4>2, <2>3, <1>4, <1>7
      <4>3. CASE j = m + 1 /\ nq[j] = e
        BY <4>1, <4>3, <3>3, <2>3, <1>1, <1>2
      <4>. QED BY <4>2, <4>3, <1>7
    <3>. QED BY <3>2, <3>3
  <2>. QED BY <2>1, <2>2, <2>3, <1>7 DEF QueueOK
<1>9. StatsOK(ts, mx, nst, nq, n)
  <2>1. mx \in Nat /\ mx <= n /\ DOMAIN ts \subseteq Tids
    BY DEF StatsOK
  <2>2. ASSUME NEW t \in DOMAIN ts
        PROVE  /\ ts[t] \in [cpu : Nat, kernel : Nat, min : Nat]
               /\ ts[t].kernel <= ts[t].cpu
               /\ ts[t].min + ts[t].cpu <= mx
               /\ ts[t].cpu > 0 =>
                    /\ \A j \in DOMAIN nq : nq[j].tid = t => ts[t].min + ts[t].cpu <= nq[j].start
                    /\ \A d \in CPUs : nst[d].tid = t => ts[t].min + ts[t].cpu <= nst[d].start
    <3>1. /\ ts[t] \in [cpu : Nat, kernel : Nat, min : Nat]
          /\ ts[t].kernel <= ts[t].cpu
          /\ ts[t].min + ts[t].cpu <= mx
          /\ ts[t].cpu > 0 =>
               /\ \A j \in DOMAIN q : q[j].tid = t => ts[t].min + ts[t].cpu <= q[j].start
               /\ \A d \in CPUs : st[d].tid = t => ts[t].min + ts[t].cpu <= st[d].start
      BY DEF StatsOK
    <3>2. PICK w \in Nat : w = ts[t].min + ts[t].cpu
      BY <3>1
    <3>3. ASSUME ts[t].cpu > 0, NEW j \in DOMAIN nq, nq[j].tid = t PROVE w <= nq[j].start
      <4>1. CASE j \in 1 .. m /\ nq[j] = q[j]
        BY <4>1, <3>1, <3>2, <3>3, <1>7
      <4>2. CASE j = m + 1 /\ nq[j] = e
        BY <4>2, <3>1, <3>2, <3>3, <1>1
      <4>. QED BY <4>1, <4>2, <1>7
    <3>4. ASSUME ts[t].cpu > 0, NEW d \in CPUs, nst[d].tid = t PROVE w <= nst[d].start
      <4>1. CASE d = c
        BY <4>1, <3>1, <3>2, <2>1, <1>1
      <4>2. CASE d # c
        BY <4>2, <3>1, <3>2, <3>4, <1>1
      <4>. QED BY <4>1, <4>2
    <3>. QED BY <3>1, <3>2, <3>3, <3>4
  <2>. QED BY <2>1, <2>2 DEF StatsOK
<1>. QED BY <1>3, <1>8, <1>9


Units(st, q, n, t) == Cardinality(RingUnits(q, n, t)) + Cardinality(SliceUnits(st, n, t))

\* The units of the slice that is open for t, if there is one.
LEMMA SliceCases ==
    ASSUME NEW st, NEW n \in Nat, StatesOK(st, n), NEW t \in Tids
    PROVE  /\ \A c \in CPUs : st[c].tid = t
                => Cardinality(SliceUnits(st, n, t)) = n - st[c].start
           /\ (\A c \in CPUs : st[c].tid # t) => Cardinality(SliceUnits(st, n, t)) = 0
           /\ Cardinality(SliceUnits(st, n, t)) \in Nat
<1>1. t # Idle
  BY SchedulerConstants
<1>2. \A c \in CPUs : st[c].start \in Nat /\ st[c].start <= n
  BY DEF StatesOK, StateOK, CpuRecords
<1>3. \A c \in CPUs : st[c].tid = t => \A d \in CPUs : st[d].tid = t => d = c
  BY <1>1 DEF StatesOK
<1>4. \A c \in CPUs : st[c].tid = t => Cardinality(SliceUnits(st, n, t)) = n - st[c].start
  BY <1>2, <1>3, OpenSlice
<1>5. (\A c \in CPUs : st[c].tid # t) => Cardinality(SliceUnits(st, n, t)) = 0
  BY NoSlice
<1>6. Cardinality(SliceUnits(st, n, t)) \in Nat
  <2>1. CASE \E c \in CPUs : st[c].tid = t
    <3>1. PICK c \in CPUs : st[c].tid = t
      BY <2>1
    <3>. QED BY <3>1, <1>2, <1>4
  <2>2. CASE ~\E c \in CPUs : st[c].tid = t
    BY <2>2, <1>5
  <2>. QED BY <2>1, <2>2
<1>. QED BY <1>4, <1>5, <1>6

LEMMA UnitsType ==
    ASSUME NEW st, NEW q \in Seq(CpuEvents), NEW n \in Nat, StatesOK(st, n), NEW t \in Tids
    PROVE  /\ Units(st, q, n, t) \in Nat
           /\ Cardinality(RingUnits(q, n, t)) \in Nat /\ Cardinality(SliceUnits(st, n, t)) \in Nat
<1>1. Cardinality(RingUnits(q, n, t)) \in Nat
  BY RingFinite
<1>2. Cardinality(SliceUnits(st, n, t)) \in Nat
  BY SliceCases
<1>. QED BY <1>1, <1>2 DEF Units

\* Closing a slice moves its units into the ring, or loses them.
LEMMA SlicesTime ==
    ASSUME NEW st, NEW q, NEW nst, NEW nq, NEW n \in Nat, NEW c, NEW e,
           Slices(st, q, nst, nq, n, c, e), StatesOK(st, n), StatesOK(nst, n), q \in Seq(CpuEvents),
           NEW t \in Tids
    PROVE  /\ Units(nst, nq, n, t) <= Units(st, q, n, t)
           /\ t # e.tid \/ (nq = Append(q, e) /\ e.tgid # NoTgid)
                => Units(nst, nq, n, t) = Units(st, q, n, t)
<1>1. /\ c \in CPUs /\ nst[c].start = n
      /\ \A d \in CPUs : d # c => nst[d] = st[d] /\ (nst[c].tid # Idle => st[d].tid # nst[c].tid)
      /\ EventOK(e, n) /\ e.tid = st[c].tid /\ e.start = st[c].start /\ e.end = n
      /\ nq = q \/ nq = Append(q, e)
  BY DEF Slices
<1>2. e \in CpuEvents /\ Timed(e, n) /\ e.start \in Nat /\ e.start <= n
  BY <1>1 DEF EventOK, CpuEvents, Timed
<1>3. PICK r0 \in Nat : r0 = Cardinality(RingUnits(q, n, t))
  BY RingFinite
<1>4. PICK s0 \in Nat : s0 = Cardinality(SliceUnits(st, n, t))
  BY SliceCases
<1>5. PICK s1 \in Nat : s1 = Cardinality(SliceUnits(nst, n, t))
  BY SliceCases
<1>6. PICK w \in Nat : w = Worth(e, t)
  BY <1>2, EventWorth
<1>7. PICK r1 : r1 = Cardinality(RingUnits(nq, n, t))
  OBVIOUS
<1>8. /\ nq = q => r1 = r0
      /\ nq = Append(q, e) => r1 = r0 + w
      /\ nq = q \/ nq = Append(q, e)
  <2>1. Cardinality(RingUnits(Append(q, e), n, t)) = r0 + w
    BY <1>2, <1>3, <1>6, RingAppend
  <2>. QED BY <2>1, <1>1, <1>3, <1>7
<1>9. t # Idle
  BY SchedulerConstants
<1>10. s1 = IF t = st[c].tid THEN 0 ELSE s0
  <2>1. CASE nst[c].tid = t
    <3>1. s1 = n - n
      BY <2>1, <1>1, <1>5, SliceCases
    <3>2. t # st[c].tid => s0 = 0
      <4>1. \A d \in CPUs : d # c => st[d].tid # t
        BY <2>1, <1>1, <1>9
      <4>. QED BY <4>1, <1>4, SliceCases
    <3>. QED BY <3>1, <3>2
  <2>2. CASE nst[c].tid # t /\ t = st[c].tid
    <3>1. \A d \in CPUs : nst[d].tid # t
      BY <2>2, <1>1, <1>9 DEF StatesOK
    <3>. QED BY <3>1, <2>2, <1>5, SliceCases
  <2>3. CASE nst[c].tid # t /\ t # st[c].tid
    <3>1. \A d \in CPUs : nst[d].tid = t <=> st[d].tid = t
      BY <2>3, <1>1
    <3>2. \A d \in CPUs : st[d].tid = t => nst[d] = st[d]
      BY <2>3, <1>1
    <3>3. CASE \E d \in CPUs : st[d].tid = t
      <4>1. PICK d \in CPUs : st[d].tid = t
        BY <3>3
      <4>2. s0 = n - st[d].start /\ s1 = n - nst[d].start
        BY <4>1, <3>1, <1>4, <1>5, SliceCases
      <4>. QED BY <4>1, <4>2, <3>2, <2>3
    <3>4. CASE ~\E d \in CPUs : st[d].tid = t
      <4>1. s0 = 0 /\ s1 = 0
        BY <3>1, <3>4, <1>4, <1>5, SliceCases
      <4>. QED BY <4>1, <2>3
    <3>. QED BY <3>3, <3>4
  <2>. QED BY <2>1, <2>2, <2>3
<1>11. t = st[c].tid => s0 = n - e.start
  BY <1>1, <1>4, SliceCases
<1>12. w = IF t = st[c].tid /\ e.tgid # NoTgid THEN n - e.start ELSE 0
  BY <1>1, <1>6 DEF Worth
<1>13. Units(st, q, n, t) = r0 + s0 /\ Units(nst, nq, n, t) = r1 + s1
  BY <1>3, <1>4, <1>5, <1>7 DEF Units
<1>14. /\ r1 + s1 <= r0 + s0
       /\ t # e.tid \/ (nq = Append(q, e) /\ e.tgid # NoTgid) => r1 + s1 = r0 + s0
  <2>1. CASE t = st[c].tid
    <3>1. s1 = 0 /\ s0 = n - e.start /\ t = e.tid
      BY <2>1, <1>1, <1>10, <1>11
    <3>2. w = 0 \/ w = s0
      BY <2>1, <3>1, <1>12
    <3>3. e.tgid # NoTgid => w = s0
      BY <2>1, <3>1, <1>12
    <3>. QED BY <3>1, <3>2, <3>3, <1>8
  <2>2. CASE t # st[c].tid
    <3>1. s1 = s0 /\ w = 0
      BY <2>2, <1>10, <1>12
    <3>. QED BY <3>1, <1>8
  <2>. QED BY <2>1, <2>2
<1>. QED BY <1>13, <1>14

-----------------------------------------------------------------------------
(* The clock advances.                                                      *)

LEMMA TickOrder ==
    ASSUME NEW st, NEW q, NEW n \in Nat, NEW ts, NEW mx,
           StatesOK(st, n), QueueOK(st, q, n), StatsOK(ts, mx, st, q, n)
    PROVE  StatesOK(st, n + 1) /\ QueueOK(st, q, n + 1) /\ StatsOK(ts, mx, st, q, n + 1)
<1>1. \A s : StateOK(s, n) => StateOK(s, n + 1)
  <2> SUFFICES ASSUME NEW s, StateOK(s, n) PROVE StateOK(s, n + 1)
    OBVIOUS
  <2>1. s.start \in Nat /\ s.kstart \in Nat /\ s.kacc \in Nat
    BY DEF StateOK, CpuRecords
  <2>. QED BY <2>1 DEF StateOK
<1>2. \A e : EventOK(e, n) => EventOK(e, n + 1)
  <2> SUFFICES ASSUME NEW e, EventOK(e, n) PROVE EventOK(e, n + 1)
    OBVIOUS
  <2>1. e.start \in Nat /\ e.end \in Nat
    BY DEF EventOK, CpuEvents
  <2>. QED BY <2>1 DEF EventOK
<1>3. StatesOK(st, n + 1)
  BY <1>1 DEF StatesOK
<1>4. QueueOK(st, q, n + 1)
  BY <1>2 DEF QueueOK
<1>5. mx \in Nat /\ mx <= n + 1
  BY DEF StatsOK
<1>6. StatsOK(ts, mx, st, q, n + 1)
  BY <1>5 DEF StatsOK
<1>. QED BY <1>3, <1>4, <1>6

LEMMA TickTime ==
    ASSUME NEW st, NEW q, NEW n \in Nat, StatesOK(st, n), QueueOK(st, q, n), NEW t \in Tids
    PROVE  Units(st, q, n + 1, t)
             = Units(st, q, n, t) + (IF \E c \in CPUs : st[c].tid = t THEN 1 ELSE 0)
<1>1. StatesOK(st, n + 1)
  <2>1. \A s : StateOK(s, n) => StateOK(s, n + 1)
    <3> SUFFICES ASSUME NEW s, StateOK(s, n) PROVE StateOK(s, n + 1)
      OBVIOUS
    <3>1. s.start \in Nat /\ s.kstart \in Nat /\ s.kacc \in Nat
      BY DEF StateOK, CpuRecords
    <3>. QED BY <3>1 DEF StateOK
  <2>. QED BY <2>1 DEF StatesOK
<1>2. RingUnits(q, n + 1, t) = RingUnits(q, n, t)
  <2>1. \A j \in DOMAIN q : q[j].end \in Nat /\ q[j].end <= n
    BY DEF QueueOK, EventOK, CpuEvents
  <2>2. ASSUME NEW u \in RingUnits(q, n + 1, t) PROVE u \in RingUnits(q, n, t)
    <3>1. PICK j \in DOMAIN q, x \in 0 .. n + 1 : u = <<j, x>> /\ u[1] = j /\ u[2] = x
      BY DEF RingUnits
    <3>2. x \in 0 .. n
      BY <2>1, <3>1 DEF RingUnits
    <3>. QED BY <3>1, <3>2 DEF RingUnits
  <2>3. ASSUME NEW u \in RingUnits(q, n, t) PROVE u \in RingUnits(q, n + 1, t)
    BY DEF RingUnits
  <2>. QED BY <2>2, <2>3
<1>3. PICK r0 \in Nat : r0 = Cardinality(RingUnits(q, n, t))
  BY RingFinite DEF QueueOK
<1>4. PICK s0 \in Nat : s0 = Cardinality(SliceUnits(st, n, t))
  BY SliceCases
<1>5. PICK s1 \in Nat : s1 = Cardinality(SliceUnits(st, n + 1, t))
  <2>1. n + 1 \in Nat
    OBVIOUS
  <2>. QED BY <2>1, <1>1, SliceCases
<1>6. s1 = s0 + (IF \E c \in CPUs : st[c].tid = t THEN 1 ELSE 0)
  <2>0. n + 1 \in Nat
    OBVIOUS
  <2>1. CASE \E c \in CPUs : st[c].tid = t
    <3>1. PICK c \in CPUs : st[c].tid = t
      BY <2>1
    <3>2. s0 = n - st[c].start /\ s1 = (n + 1) - st[c].start
      BY <3>1, <2>0, <1>1, <1>4, <1>5, SliceCases
    <3>3. st[c].start \in Nat
      BY DEF StatesOK, StateOK, CpuRecords
    <3>. QED BY <2>1, <3>2, <3>3
  <2>2. CASE ~\E c \in CPUs : st[c].tid = t
    <3>1. s0 = 0 /\ s1 = 0
      BY <2>0, <2>2, <1>1, <1>4, <1>5, SliceCases
    <3>. QED BY <3>1, <2>2
  <2>. QED BY <2>1, <2>2
<1>7. Units(st, q, n, t) = r0 + s0 /\ Units(st, q, n + 1, t) = r0 + s1
  BY <1>2, <1>3, <1>4, <1>5 DEF Units
<1>. QED BY <1>6, <1>7

-----------------------------------------------------------------------------
(* A system call changes only the time in the kernel.                       *)

Inside(st, nst, n, c) ==
    /\ c \in CPUs /\ DOMAIN nst = CPUs /\ StateOK(nst[c], n)
    /\ nst[c].tid = st[c].tid /\ nst[c].start = st[c].start
    /\ \A d \in CPUs : d # c => nst[d] = st[d]

LEMMA InsideOrder ==
    ASSUME NEW st, NEW q, NEW nst, NEW n \in Nat, NEW c, NEW ts, NEW mx,
           Inside(st, nst, n, c), StatesOK(st, n), QueueOK(st, q, n), StatsOK(ts, mx, st, q, n)
    PROVE  /\ StatesOK(nst, n) /\ QueueOK(nst, q, n) /\ StatsOK(ts, mx, nst, q, n)
           /\ \A t : SliceUnits(nst, n, t) = SliceUnits(st, n, t)
<1>1. /\ DOMAIN nst = CPUs
      /\ \A d \in CPUs : StateOK(nst[d], n) /\ nst[d].tid = st[d].tid /\ nst[d].start = st[d].start
  BY DEF Inside, StatesOK
<1>2. StatesOK(nst, n)
  BY <1>1 DEF StatesOK
<1>3. QueueOK(nst, q, n)
  BY <1>1 DEF QueueOK
<1>4. StatsOK(ts, mx, nst, q, n)
  BY <1>1 DEF StatsOK
<1>5. \A t : SliceUnits(nst, n, t) = SliceUnits(st, n, t)
  BY <1>1 DEF SliceUnits
<1>. QED BY <1>2, <1>3, <1>4, <1>5

-----------------------------------------------------------------------------
(* The consumer takes the oldest event.                                     *)

LEMMA MinMaxOfTwo ==
    ASSUME NEW a \in Nat, NEW b \in Nat
    PROVE  /\ Min({a, b}) = IF a <= b THEN a ELSE b
           /\ Max({a, b}) = IF a <= b THEN b ELSE a
<1>1. \E x \in {a, b} : \A y \in {a, b} : x <= y
  OBVIOUS
<1>2. Min({a, b}) \in {a, b} /\ \A y \in {a, b} : Min({a, b}) <= y
  BY <1>1 DEF Min
<1>3. \E x \in {a, b} : \A y \in {a, b} : x >= y
  OBVIOUS
<1>4. Max({a, b}) \in {a, b} /\ \A y \in {a, b} : Max({a, b}) >= y
  BY <1>3 DEF Max
<1>. QED BY <1>2, <1>4

StatCpu(ts, t) == IF t \in DOMAIN ts THEN ts[t].cpu ELSE 0

\* The queue without its oldest event.
LEMMA QueueTail ==
    ASSUME NEW st, NEW q, NEW n \in Nat, q # <<>>, QueueOK(st, q, n)
    PROVE  /\ QueueOK(st, Tail(q), n) /\ EventOK(Head(q), n)
           /\ Head(q).tid # Idle =>
                /\ \A j \in DOMAIN Tail(q) : Tail(q)[j].tid = Head(q).tid
                                                => Head(q).end <= Tail(q)[j].start
                /\ \A c \in CPUs : st[c].tid = Head(q).tid => Head(q).end <= st[c].start
<1>1. q \in Seq(CpuEvents)
  BY DEF QueueOK
<1>2. PICK p, m : p = Tail(q) /\ m = Len(q)
  OBVIOUS
<1>3. PICK R : R = CpuEvents
  OBVIOUS
<1>4. q \in Seq(R)
  BY <1>1, <1>3
<1>5. /\ p \in Seq(R) /\ m \in Nat /\ m > 0 /\ DOMAIN q = 1 .. m /\ DOMAIN p = 1 .. (m - 1)
      /\ \A j \in 1 .. (m - 1) : p[j] = q[j + 1]
      /\ Head(q) = q[1]
  BY <1>2, <1>4
<1>6. \A j \in DOMAIN p : j + 1 \in DOMAIN q /\ p[j] = q[j + 1] /\ j \in Nat /\ j > 0
  BY <1>5
<1>7. 1 \in DOMAIN q
  BY <1>5
<1>8. QueueOK(st, p, n)
  <2>1. p \in Seq(CpuEvents)
    BY <1>5, <1>3
  <2>2. \A j \in DOMAIN p : EventOK(p[j], n)
    BY <1>6 DEF QueueOK
  <2>3. \A j, k \in DOMAIN p : j < k /\ p[j].tid = p[k].tid /\ p[j].tid # Idle
                                 => p[j].end <= p[k].start
    <3> SUFFICES ASSUME NEW j \in DOMAIN p, NEW k \in DOMAIN p, j < k, p[j].tid = p[k].tid, p[j].tid # Idle
                 PROVE  p[j].end <= p[k].start
      OBVIOUS
    <3>1. j + 1 < k + 1
      BY <1>6
    <3>. QED BY <3>1, <1>6 DEF QueueOK
  <2>4. \A j \in DOMAIN p, c \in CPUs : p[j].tid = st[c].tid /\ p[j].tid # Idle
                                          => p[j].end <= st[c].start
    BY <1>6 DEF QueueOK
  <2>. QED BY <2>1, <2>2, <2>3, <2>4 DEF QueueOK
<1>9. EventOK(q[1], n)
  BY <1>7 DEF QueueOK
<1>10. ASSUME q[1].tid # Idle, NEW j \in DOMAIN p, p[j].tid = q[1].tid
       PROVE  q[1].end <= p[j].start
  <2>1. 1 < j + 1
    BY <1>6
  <2>. QED BY <2>1, <1>6, <1>7, <1>10 DEF QueueOK
<1>11. ASSUME q[1].tid # Idle, NEW c \in CPUs, st[c].tid = q[1].tid
       PROVE  q[1].end <= st[c].start
  BY <1>7, <1>11 DEF QueueOK
<1>. QED BY <1>2, <1>5, <1>8, <1>9, <1>10, <1>11


\* Adding an event up keeps the statistics before the slices still to come.
LEMMA AddStats ==
    ASSUME NEW st, NEW q, NEW n \in Nat, NEW ts, NEW mx, q # <<>>, StatesOK(st, n),
           QueueOK(st, q, n), StatsOK(ts, mx, st, q, n)
    PROVE  /\ StatsOK(Add(ts, Head(q)), Max({mx, Head(q).end}), st, Tail(q), n)
           /\ \A t \in Tids : StatCpu(Add(ts, Head(q)), t) = StatCpu(ts, t) + Worth(Head(q), t)
<1>1. PICK e, p : e = Head(q) /\ p = Tail(q)
  OBVIOUS
<1>2. PICK nts, nmx : nts = Add(ts, e) /\ nmx = Max({mx, e.end})
  OBVIOUS
<1>3. /\ QueueOK(st, p, n) /\ EventOK(e, n)
      /\ e.tid # Idle =>
           /\ \A j \in DOMAIN p : p[j].tid = e.tid => e.end <= p[j].start
           /\ \A c \in CPUs : st[c].tid = e.tid => e.end <= st[c].start
  BY <1>1, QueueTail
<1>4. /\ e.start \in Nat /\ e.end \in Nat /\ e.kernel \in Nat /\ e.start <= e.end /\ e.end <= n
      /\ e.kernel <= e.end - e.start /\ e.tid \in Tids \cup {Idle}
      /\ e.tid # Idle => e.start # 0
  BY <1>3 DEF EventOK, CpuEvents
<1>5. mx \in Nat /\ mx <= n /\ DOMAIN ts \subseteq Tids
  BY DEF StatsOK
<1>6. nmx \in Nat /\ nmx <= n /\ mx <= nmx /\ e.end <= nmx
  <2>1. PICK b \in Nat : b = e.end
    BY <1>4
  <2>2. nmx = IF mx <= b THEN b ELSE mx
    BY <2>1, <1>2, <1>5, MinMaxOfTwo
  <2>. QED BY <2>1, <2>2, <1>4, <1>5
<1>7. \A j \in DOMAIN p : j + 1 \in DOMAIN q /\ p[j] = q[j + 1]
  <2>1. PICK R : R = CpuEvents /\ q \in Seq(R)
    BY DEF QueueOK
  <2>. QED BY <2>1, <1>1
<1>8. 1 \in DOMAIN q /\ q[1] = e
  <2>1. PICK R : R = CpuEvents /\ q \in Seq(R)
    BY DEF QueueOK
  <2>. QED BY <2>1, <1>1
\* A thread whose statistics the event does not touch.
<1>9. ASSUME NEW t \in DOMAIN ts
      PROVE  /\ ts[t] \in [cpu : Nat, kernel : Nat, min : Nat]
             /\ ts[t].kernel <= ts[t].cpu /\ ts[t].min + ts[t].cpu <= nmx
             /\ ts[t].cpu > 0 =>
                  /\ \A j \in DOMAIN p : p[j].tid = t => ts[t].min + ts[t].cpu <= p[j].start
                  /\ \A c \in CPUs : st[c].tid = t => ts[t].min + ts[t].cpu <= st[c].start
                  /\ e.tid = t => ts[t].min + ts[t].cpu <= e.start
  <2>1. /\ ts[t] \in [cpu : Nat, kernel : Nat, min : Nat]
        /\ ts[t].kernel <= ts[t].cpu /\ ts[t].min + ts[t].cpu <= mx
    BY DEF StatsOK
  <2>2. ts[t].cpu > 0 =>
                  /\ \A j \in DOMAIN q : q[j].tid = t => ts[t].min + ts[t].cpu <= q[j].start
                  /\ \A c \in CPUs : st[c].tid = t => ts[t].min + ts[t].cpu <= st[c].start
    BY DEF StatsOK
  <2>3. ts[t].min + ts[t].cpu <= nmx
    BY <2>1, <1>5, <1>6
  <2>. QED BY <2>1, <2>2, <2>3, <1>7, <1>8
<1>10. CASE e.tgid = NoTgid \/ e.tid = Idle \/ e.start = 0
  <2>1. nts = ts
    BY <1>2, <1>10 DEF Add
  <2>2. \A t \in Tids : Worth(e, t) = 0
    <3>1. e.tgid = NoTgid \/ e.tid = Idle
      BY <1>4, <1>10
    <3>. QED BY <3>1, SchedulerConstants DEF Worth
  <2>3. \A t \in Tids : StatCpu(ts, t) \in Nat
    BY <1>9 DEF StatCpu
  <2>4. StatsOK(nts, nmx, st, p, n)
    BY <2>1, <1>5, <1>6, <1>9 DEF StatsOK
  <2>. QED BY <1>1, <1>2, <2>1, <2>2, <2>3, <2>4
<1>11. CASE ~(e.tgid = NoTgid \/ e.tid = Idle \/ e.start = 0)
  <2>1. PICK old : old = IF e.tid \in DOMAIN ts THEN ts[e.tid]
                         ELSE [cpu |-> 0, kernel |-> 0, min |-> e.start]
    OBVIOUS
  <2>2. /\ old \in [cpu : Nat, kernel : Nat, min : Nat] /\ old.kernel <= old.cpu
        /\ old.cpu > 0 => old.min + old.cpu <= e.start
    BY <2>1, <1>4, <1>9
  <2>3. PICK r : r = [cpu |-> old.cpu + (e.end - e.start), kernel |-> old.kernel + e.kernel,
                      min |-> Min({old.min, e.start})]
    OBVIOUS
  <2>4. PICK oc \in Nat, ok \in Nat, om \in Nat : oc = old.cpu /\ ok = old.kernel /\ om = old.min
    BY <2>2
  <2>5. r.min \in Nat /\ r.min <= om /\ r.min <= e.start
    BY <2>3, <2>4, <1>4, MinMaxOfTwo, SMTT(60)
  <2>6. r.min = Min({om, e.start}) /\ (om <= e.start => r.min = om)
    BY <2>3, <2>4, <1>4, MinMaxOfTwo
  <2>7. /\ r \in [cpu : Nat, kernel : Nat, min : Nat]
        /\ r.cpu = oc + (e.end - e.start) /\ r.kernel = ok + e.kernel
    <3>1. r.cpu = oc + (e.end - e.start) /\ r.kernel = ok + e.kernel
      BY <2>3, <2>4
    <3>2. r.cpu \in Nat /\ r.kernel \in Nat
      BY <3>1, <1>4
    <3>3. r = [cpu |-> r.cpu, kernel |-> r.kernel, min |-> r.min]
      BY <2>3
    <3>. QED BY <3>1, <3>2, <3>3, <2>5
  <2>8. r.kernel <= r.cpu
    BY <2>2, <2>4, <2>7, <1>4
  <2>9. r.min + r.cpu <= e.end
    <3>1. CASE oc = 0
      BY <3>1, <2>5, <2>7, <1>4
    <3>2. CASE oc > 0
      <4>1. om + oc <= e.start
        BY <3>2, <2>2, <2>4
      <4>. QED BY <4>1, <2>5, <2>7, <1>4, SMTT(60)
    <3>. QED BY <3>1, <3>2
  <2>10. nts = [t \in DOMAIN ts \cup {e.tid} |-> IF t # e.tid THEN ts[t] ELSE r]
    BY <1>2, <1>11, <2>1, <2>3 DEF Add
  <2>11. e.tid \in Tids
    BY <1>4, <1>11
  <2>12. DOMAIN nts = DOMAIN ts \cup {e.tid} /\ DOMAIN nts \subseteq Tids
    BY <2>10, <2>11, <1>5
  <2>13. nts[e.tid] = r /\ \A t \in DOMAIN nts : t # e.tid => nts[t] = ts[t] /\ t \in DOMAIN ts
    BY <2>10, <2>12
  <2>14. ASSUME NEW t \in DOMAIN nts
         PROVE  /\ nts[t] \in [cpu : Nat, kernel : Nat, min : Nat]
                /\ nts[t].kernel <= nts[t].cpu /\ nts[t].min + nts[t].cpu <= nmx
                /\ nts[t].cpu > 0 =>
                    /\ \A j \in DOMAIN p : p[j].tid = t => nts[t].min + nts[t].cpu <= p[j].start
                    /\ \A c \in CPUs : st[c].tid = t => nts[t].min + nts[t].cpu <= st[c].start
    <3>1. CASE t # e.tid
      BY <3>1, <2>13, <1>9
    <3>2. CASE t = e.tid
      <4>1. r.min + r.cpu <= nmx
        BY <2>9, <2>5, <2>7, <1>6, <1>4
      <4>2. \A j \in DOMAIN p : p[j].tid = e.tid => r.min + r.cpu <= p[j].start
        <5> SUFFICES ASSUME NEW j \in DOMAIN p, p[j].tid = e.tid PROVE r.min + r.cpu <= p[j].start
          OBVIOUS
        <5>1. p[j].start \in Nat
          BY <1>3 DEF QueueOK, EventOK, CpuEvents
        <5>2. e.end <= p[j].start
          BY <1>3, <1>11
        <5>. QED BY <5>1, <5>2, <2>9, <2>5, <2>7, <1>4, SMTT(60)
      <4>3. \A c \in CPUs : st[c].tid = e.tid => r.min + r.cpu <= st[c].start
        <5> SUFFICES ASSUME NEW c \in CPUs, st[c].tid = e.tid PROVE r.min + r.cpu <= st[c].start
          OBVIOUS
        <5>2. e.end <= st[c].start
          BY <1>3, <1>11
        <5>3. st[c].start \in Nat
          BY DEF StatesOK, StateOK, CpuRecords
        <5>. QED BY <5>2, <5>3, <2>9, <2>5, <2>7, <1>4, SMTT(60)
      <4>. QED BY <3>2, <4>1, <4>2, <4>3, <2>7, <2>8, <2>13
    <3>. QED BY <3>1, <3>2
  <2>15. StatsOK(nts, nmx, st, p, n)
    BY <2>12, <2>14, <1>6 DEF StatsOK
  <2>16. \A t \in Tids : StatCpu(nts, t) = StatCpu(ts, t) + Worth(e, t)
    <3> SUFFICES ASSUME NEW t \in Tids PROVE StatCpu(nts, t) = StatCpu(ts, t) + Worth(e, t)
      OBVIOUS
    <3>1. CASE t # e.tid
      <4>1. StatCpu(nts, t) = StatCpu(ts, t) /\ StatCpu(ts, t) \in Nat
        BY <3>1, <2>12, <2>13, <1>9 DEF StatCpu
      <4>. QED BY <3>1, <4>1 DEF Worth
    <3>2. CASE t = e.tid
      <4>1. StatCpu(nts, t) = r.cpu /\ StatCpu(ts, t) = oc
        BY <3>2, <2>1, <2>4, <2>12, <2>13 DEF StatCpu
      <4>2. Worth(e, t) = e.end - e.start
        BY <3>2, <1>11 DEF Worth
      <4>. QED BY <4>1, <4>2, <2>7
    <3>. QED BY <3>1, <3>2
  <2>. QED BY <1>1, <1>2, <2>15, <2>16
<1>. QED BY <1>10, <1>11

\* The report starts every thread anew at the time it was made.
IsFresh(fresh, ts, mx) == fresh = [t \in DOMAIN ts |-> [cpu |-> 0, kernel |-> 0, min |-> mx]]

LEMMA RoundStats ==
    ASSUME NEW st, NEW q, NEW n \in Nat, NEW ts, NEW mx, StatsOK(ts, mx, st, q, n),
           NEW fresh, IsFresh(fresh, ts, mx)
    PROVE  /\ StatsOK(fresh, mx, st, q, n)
           /\ \A t \in Tids : StatCpu(fresh, t) = 0
           /\ \A t \in Tids : StatCpu(ts, t) \in Nat
           /\ \A t \in DOMAIN ts : ts[t].cpu <= mx - ts[t].min /\ ts[t].kernel <= ts[t].cpu
<1>2. mx \in Nat /\ mx <= n /\ DOMAIN ts \subseteq Tids
  BY DEF StatsOK
<1>3. DOMAIN fresh = DOMAIN ts /\ \A t \in DOMAIN fresh : fresh[t] = [cpu |-> 0, kernel |-> 0, min |-> mx]
  BY DEF IsFresh
<1>4. \A t \in DOMAIN fresh : /\ fresh[t] \in [cpu : Nat, kernel : Nat, min : Nat]
                              /\ fresh[t].cpu = 0 /\ fresh[t].kernel = 0 /\ fresh[t].min = mx
  BY <1>2, <1>3
<1>5. StatsOK(fresh, mx, st, q, n)
  BY <1>2, <1>3, <1>4 DEF StatsOK
<1>6. \A t \in Tids : StatCpu(fresh, t) = 0
  BY <1>4 DEF StatCpu
<1>7. \A t \in DOMAIN ts : /\ ts[t].cpu \in Nat /\ ts[t].min \in Nat
                           /\ ts[t].min + ts[t].cpu <= mx /\ ts[t].kernel <= ts[t].cpu
  BY DEF StatsOK
<1>8. \A t \in DOMAIN ts : ts[t].cpu <= mx - ts[t].min /\ ts[t].kernel <= ts[t].cpu
  BY <1>2, <1>7
<1>9. \A t \in Tids : StatCpu(ts, t) \in Nat
  BY <1>7 DEF StatCpu
<1>. QED BY <1>5, <1>6, <1>8, <1>9

-----------------------------------------------------------------------------
(* The books: what the module has, what it lost, and the time that passed.  *)

Acc(tot, ts, st, q, n, t) ==
    tot[t] + (IF t \in DOMAIN ts THEN ts[t].cpu ELSE 0)
           + Cardinality(RingUnits(q, n, t)) + Cardinality(SliceUnits(st, n, t))

Exact(tot, ts, st, q, n, rn, ls, tg) ==
    \A t \in Tids :
        /\ Acc(tot, ts, st, q, n, t) <= rn[t]
        /\ t \notin ls /\ TgidOf[t] \in tg => Acc(tot, ts, st, q, n, t) = rn[t]

Books(tot, ts, mx, st, q, n, rn, ls, tg) ==
    /\ tot \in [Tids -> Nat] /\ rn \in [Tids -> Nat] /\ n \in Nat
    /\ StatesOK(st, n) /\ QueueOK(st, q, n) /\ StatsOK(ts, mx, st, q, n)
    /\ Exact(tot, ts, st, q, n, rn, ls, tg)

LEMMA AccParts ==
    ASSUME NEW tot \in [Tids -> Nat], NEW ts, NEW mx, NEW st, NEW q, NEW n \in Nat,
           StatesOK(st, n), QueueOK(st, q, n), StatsOK(ts, mx, st, q, n), NEW t \in Tids
    PROVE  /\ tot[t] \in Nat /\ StatCpu(ts, t) \in Nat /\ Units(st, q, n, t) \in Nat
           /\ Acc(tot, ts, st, q, n, t) = tot[t] + StatCpu(ts, t) + Units(st, q, n, t)
<1>1. q \in Seq(CpuEvents)
  BY DEF QueueOK
<1>2. PICK a \in Nat, b \in Nat : /\ a = Cardinality(RingUnits(q, n, t))
                                  /\ b = Cardinality(SliceUnits(st, n, t))
  BY <1>1, UnitsType
<1>3. StatCpu(ts, t) \in Nat
  BY DEF StatsOK, StatCpu
<1>4. Units(st, q, n, t) = a + b
  BY <1>2 DEF Units
<1>5. Acc(tot, ts, st, q, n, t) = tot[t] + StatCpu(ts, t) + a + b
  BY <1>2 DEF Acc, StatCpu
<1>6. PICK x \in Nat, y \in Nat : x = tot[t] /\ y = StatCpu(ts, t)
  BY <1>3
<1>. QED BY <1>4, <1>5, <1>6

\* The slice of a processor is closed.
LEMMA SlicesBooks ==
    ASSUME NEW tot, NEW ts, NEW mx, NEW st, NEW q, NEW n, NEW rn, NEW ls, NEW tg,
           Books(tot, ts, mx, st, q, n, rn, ls, tg),
           NEW nst, NEW nq, NEW nls, NEW c, NEW e,
           Slices(st, q, nst, nq, n, c, e), ls \subseteq nls,
           \A t \in Tids : t = e.tid => \/ nq = Append(q, e) /\ e.tgid # NoTgid
                                        \/ t \in nls \/ TgidOf[t] \notin tg
    PROVE  Books(tot, ts, mx, nst, nq, n, rn, nls, tg)
<1>1. /\ tot \in [Tids -> Nat] /\ rn \in [Tids -> Nat] /\ n \in Nat
      /\ StatesOK(st, n) /\ QueueOK(st, q, n) /\ StatsOK(ts, mx, st, q, n)
      /\ Exact(tot, ts, st, q, n, rn, ls, tg)
  BY DEF Books
<1>2. StatesOK(nst, n) /\ QueueOK(nst, nq, n) /\ StatsOK(ts, mx, nst, nq, n)
  BY <1>1, SlicesOrder
<1>3. ASSUME NEW t \in Tids
      PROVE  /\ Acc(tot, ts, nst, nq, n, t) <= rn[t]
             /\ t \notin nls /\ TgidOf[t] \in tg => Acc(tot, ts, nst, nq, n, t) = rn[t]
  <2>1. q \in Seq(CpuEvents)
    BY <1>1 DEF QueueOK
  <2>2. PICK a \in Nat, u \in Nat :
           /\ a = tot[t] + StatCpu(ts, t) /\ u = Units(st, q, n, t)
           /\ Acc(tot, ts, st, q, n, t) = a + u
    BY <1>1, AccParts, SMTT(60)
  <2>3. PICK v \in Nat : v = Units(nst, nq, n, t) /\ Acc(tot, ts, nst, nq, n, t) = a + v
    BY <1>1, <1>2, <2>2, AccParts, SMTT(60)
  <2>4. v <= u /\ (t # e.tid \/ (nq = Append(q, e) /\ e.tgid # NoTgid) => v = u)
    <3>1. /\ Units(nst, nq, n, t) <= Units(st, q, n, t)
          /\ t # e.tid \/ (nq = Append(q, e) /\ e.tgid # NoTgid)
                => Units(nst, nq, n, t) = Units(st, q, n, t)
      BY <1>1, <1>2, <2>1, SlicesTime, SMTT(60)
    <3>. QED BY <3>1, <2>2, <2>3
  <2>5. PICK m \in Nat : m = rn[t]
    BY <1>1
  <2>6. a + u <= m /\ (t \notin ls /\ TgidOf[t] \in tg => a + u = m)
    BY <1>1, <2>2, <2>5 DEF Exact
  <2>7. a + v <= m
    BY <2>4, <2>6
  <2>8. t \notin nls /\ TgidOf[t] \in tg => v = u /\ a + u = m
    BY <2>4, <2>6
  <2>. QED BY <2>3, <2>5, <2>7, <2>8
<1>. QED BY <1>1, <1>2, <1>3 DEF Books, Exact

\* A system call.
LEMMA InsideBooks ==
    ASSUME NEW tot, NEW ts, NEW mx, NEW st, NEW q, NEW n, NEW rn, NEW ls, NEW tg,
           Books(tot, ts, mx, st, q, n, rn, ls, tg), NEW nst, NEW c, Inside(st, nst, n, c)
    PROVE  Books(tot, ts, mx, nst, q, n, rn, ls, tg)
<1>1. /\ tot \in [Tids -> Nat] /\ rn \in [Tids -> Nat] /\ n \in Nat
      /\ StatesOK(st, n) /\ QueueOK(st, q, n) /\ StatsOK(ts, mx, st, q, n)
      /\ Exact(tot, ts, st, q, n, rn, ls, tg)
  BY DEF Books
<1>2. /\ StatesOK(nst, n) /\ QueueOK(nst, q, n) /\ StatsOK(ts, mx, nst, q, n)
      /\ \A t : SliceUnits(nst, n, t) = SliceUnits(st, n, t)
  BY <1>1, InsideOrder
<1>3. \A t \in Tids : Acc(tot, ts, nst, q, n, t) = Acc(tot, ts, st, q, n, t)
  BY <1>2 DEF Acc
<1>. QED BY <1>1, <1>2, <1>3 DEF Books, Exact

\* A unit of time passes.
LEMMA TickBooks ==
    ASSUME NEW tot, NEW ts, NEW mx, NEW st, NEW q, NEW n, NEW rn, NEW ls, NEW tg,
           Books(tot, ts, mx, st, q, n, rn, ls, tg)
    PROVE  Books(tot, ts, mx, st, q, n + 1,
                 [t \in Tids |-> IF \E c \in CPUs : st[c].tid = t THEN rn[t] + 1 ELSE rn[t]], ls, tg)
<1>1. /\ tot \in [Tids -> Nat] /\ rn \in [Tids -> Nat] /\ n \in Nat
      /\ StatesOK(st, n) /\ QueueOK(st, q, n) /\ StatsOK(ts, mx, st, q, n)
      /\ Exact(tot, ts, st, q, n, rn, ls, tg)
  BY DEF Books
<1>2. PICK nrn : nrn = [t \in Tids |-> IF \E c \in CPUs : st[c].tid = t THEN rn[t] + 1 ELSE rn[t]]
  OBVIOUS
<1>3. nrn \in [Tids -> Nat] /\ n + 1 \in Nat
  BY <1>1, <1>2
<1>4. StatesOK(st, n + 1) /\ QueueOK(st, q, n + 1) /\ StatsOK(ts, mx, st, q, n + 1)
  BY <1>1, TickOrder
<1>5. PICK k \in Nat : k = n + 1
  BY <1>1
<1>6. ASSUME NEW t \in Tids
      PROVE  /\ Acc(tot, ts, st, q, k, t) <= nrn[t]
             /\ t \notin ls /\ TgidOf[t] \in tg => Acc(tot, ts, st, q, k, t) = nrn[t]
  <2>1. PICK g \in Nat : g = IF \E c \in CPUs : st[c].tid = t THEN 1 ELSE 0
    OBVIOUS
  <2>2. PICK a \in Nat, u \in Nat :
           /\ a = tot[t] + StatCpu(ts, t) /\ u = Units(st, q, n, t)
           /\ Acc(tot, ts, st, q, n, t) = a + u
    BY <1>1, AccParts
  <2>3. PICK v \in Nat : v = Units(st, q, k, t) /\ Acc(tot, ts, st, q, k, t) = a + v
    BY <1>1, <1>4, <1>5, <2>2, AccParts
  <2>4. v = u + g
    BY <1>1, <1>5, <2>1, <2>2, <2>3, TickTime
  <2>5. PICK m \in Nat : m = rn[t]
    BY <1>1
  <2>6. nrn[t] = m + g
    BY <1>2, <2>1, <2>5
  <2>7. a + u <= m /\ (t \notin ls /\ TgidOf[t] \in tg => a + u = m)
    BY <1>1, <2>2, <2>5 DEF Exact
  <2>. QED BY <2>3, <2>4, <2>6, <2>7
<1>. QED BY <1>1, <1>2, <1>3, <1>4, <1>5, <1>6 DEF Books, Exact

\* The consumer takes an event, and reports at the end of a round.
LEMMA TakeBooks ==
    ASSUME NEW tot, NEW ts, NEW mx, NEW st, NEW q, NEW n, NEW rn, NEW ls, NEW tg, q # <<>>,
           Books(tot, ts, mx, st, q, n, rn, ls, tg)
    PROVE  /\ Books(tot, Add(ts, Head(q)), Max({mx, Head(q).end}), st, Tail(q), n, rn, ls, tg)
           /\ StatsOK(Add(ts, Head(q)), Max({mx, Head(q).end}), st, Tail(q), n)
<1>1. /\ tot \in [Tids -> Nat] /\ rn \in [Tids -> Nat] /\ n \in Nat
      /\ StatesOK(st, n) /\ QueueOK(st, q, n) /\ StatsOK(ts, mx, st, q, n)
      /\ Exact(tot, ts, st, q, n, rn, ls, tg)
  BY DEF Books
<1>2. PICK e, p, nts, nmx : e = Head(q) /\ p = Tail(q) /\ nts = Add(ts, e) /\ nmx = Max({mx, e.end})
  OBVIOUS
<1>3. QueueOK(st, p, n) /\ EventOK(e, n)
  BY <1>1, <1>2, QueueTail
<1>4. /\ StatsOK(nts, nmx, st, p, n)
      /\ \A t \in Tids : StatCpu(nts, t) = StatCpu(ts, t) + Worth(e, t)
  BY <1>1, <1>2, AddStats
<1>5. Timed(e, n)
  BY <1>3 DEF EventOK, CpuEvents, Timed
<1>6. ASSUME NEW t \in Tids PROVE Acc(tot, nts, st, p, n, t) = Acc(tot, ts, st, q, n, t)
  <2>1. PICK a \in Nat, s \in Nat, u \in Nat :
           /\ a = tot[t] /\ s = StatCpu(ts, t) /\ u = Units(st, q, n, t)
           /\ Acc(tot, ts, st, q, n, t) = a + s + u
    BY <1>1, AccParts
  <2>2. PICK x \in Nat, v \in Nat :
           /\ x = StatCpu(nts, t) /\ v = Units(st, p, n, t)
           /\ Acc(tot, nts, st, p, n, t) = a + x + v
    <3>1. /\ StatCpu(nts, t) \in Nat /\ Units(st, p, n, t) \in Nat
          /\ Acc(tot, nts, st, p, n, t) = tot[t] + StatCpu(nts, t) + Units(st, p, n, t)
      <4>1. QueueOK(st, p, n) /\ StatsOK(nts, nmx, st, p, n)
        BY <1>3, <1>4
      <4>. QED BY <1>1, <4>1, AccParts
    <3>. QED BY <3>1, <2>1
  <2>3. PICK w \in Nat : w = Worth(e, t)
    BY <1>1, <1>5, EventWorth
  <2>4. q \in Seq(CpuEvents) /\ p \in Seq(CpuEvents)
    BY <1>1, <1>3 DEF QueueOK
  <2>5. Cardinality(RingUnits(q, n, t)) = Cardinality(RingUnits(p, n, t)) + w
    BY <1>1, <1>2, <1>5, <2>3, <2>4, RingTail
  <2>6. PICK r \in Nat, k \in Nat : /\ r = Cardinality(RingUnits(p, n, t))
                                    /\ k = Cardinality(SliceUnits(st, n, t))
    BY <1>1, <2>4, UnitsType
  <2>7. u = (r + w) + k /\ v = r + k
    BY <2>1, <2>2, <2>5, <2>6 DEF Units
  <2>8. x = s + w
    BY <1>4, <2>1, <2>2, <2>3
  <2>. QED BY <2>1, <2>2, <2>7, <2>8
<1>7. Exact(tot, nts, st, p, n, rn, ls, tg)
  BY <1>1, <1>6 DEF Exact
<1>. QED BY <1>1, <1>2, <1>3, <1>4, <1>7 DEF Books

LEMMA RoundBooks ==
    ASSUME NEW tot, NEW ts, NEW mx, NEW st, NEW q, NEW n, NEW rn, NEW ls, NEW tg,
           Books(tot, ts, mx, st, q, n, rn, ls, tg), NEW fresh, IsFresh(fresh, ts, mx)
    PROVE  Books([t \in Tids |-> tot[t] + (IF t \in DOMAIN ts THEN ts[t].cpu ELSE 0)],
                 fresh, mx, st, q, n, rn, ls, tg)
<1>1. /\ tot \in [Tids -> Nat] /\ rn \in [Tids -> Nat] /\ n \in Nat
      /\ StatesOK(st, n) /\ QueueOK(st, q, n) /\ StatsOK(ts, mx, st, q, n)
      /\ Exact(tot, ts, st, q, n, rn, ls, tg)
  BY DEF Books
<1>2. PICK ntot : ntot = [t \in Tids |-> tot[t] + (IF t \in DOMAIN ts THEN ts[t].cpu ELSE 0)]
  OBVIOUS
<1>3. /\ StatsOK(fresh, mx, st, q, n) /\ \A t \in Tids : StatCpu(fresh, t) = 0
      /\ \A t \in Tids : StatCpu(ts, t) \in Nat
  <2>1. n \in Nat /\ StatsOK(ts, mx, st, q, n) /\ IsFresh(fresh, ts, mx)
    BY <1>1
  <2>2. StatsOK(fresh, mx, st, q, n)
    BY <2>1, RoundStats
  <2>3. \A t \in Tids : StatCpu(fresh, t) = 0
    BY <2>1, RoundStats
  <2>4. \A t \in Tids : StatCpu(ts, t) \in Nat
    BY <2>1, RoundStats
  <2>. QED BY <2>2, <2>3, <2>4
<1>4. ntot = [t \in Tids |-> tot[t] + StatCpu(ts, t)]
  BY <1>2 DEF StatCpu
<1>5. ntot \in [Tids -> Nat]
  BY <1>1, <1>3, <1>4
<1>6. ASSUME NEW t \in Tids PROVE Acc(ntot, fresh, st, q, n, t) = Acc(tot, ts, st, q, n, t)
  <2>1. PICK a \in Nat, s \in Nat, u \in Nat :
           /\ a = tot[t] /\ s = StatCpu(ts, t) /\ u = Units(st, q, n, t)
           /\ Acc(tot, ts, st, q, n, t) = a + s + u
    BY <1>1, AccParts
  <2>2. Acc(ntot, fresh, st, q, n, t) = ntot[t] + StatCpu(fresh, t) + Units(st, q, n, t)
    BY <1>1, <1>3, <1>5, AccParts
  <2>3. ntot[t] = a + s /\ StatCpu(fresh, t) = 0
    BY <1>3, <1>4, <2>1
  <2>. QED BY <2>1, <2>2, <2>3
<1>7. Exact(ntot, fresh, st, q, n, rn, ls, tg)
  BY <1>1, <1>6 DEF Exact
<1>. QED BY <1>1, <1>2, <1>3, <1>5, <1>7 DEF Books

-----------------------------------------------------------------------------
(* The steps.                                                               *)

CpuBooks ==
    Books(total, thread_stats, max_timestamp, cpu_states, cpu_events, now, ran, lost, cpu_tgids)

CpuUtilInv == CpuWorld /\ AttachedInv /\ CpuBooks /\ PercentBounded

LEMMA CpuWorldStep == WorldOK /\ CpuWorld /\ [Next]_vars => CpuWorld'
<1> SUFFICES ASSUME WorldOK, CpuWorld, [Next]_vars PROVE CpuWorld'
  OBVIOUS
<1> USE SchedulerConstants
<1>1. /\ cpu \in [CPUs -> Tids \cup {Idle}] /\ thread \in [Tids -> ThreadRecords]
      /\ \A t \in Tids : thread[t] \in ThreadRecords
  BY DEF WorldOK
<1>2. ASSUME cpu' = cpu, DOMAIN thread' = Tids,
             \A t \in Tids : thread[t].state = "running" => (thread'[t]).state = "running"
      PROVE  CpuWorld'
  BY <1>1, <1>2 DEF CpuWorld
<1>3. ASSUME NEW c \in CPUs, NEW next \in Tids \cup {Idle}, NEW reason \in Reasons,
             Switch(c, next, reason)
      PROVE  CpuWorld'
  <2>1. PICK prev : prev = cpu[c]
    OBVIOUS
  <2>2. /\ prev # next /\ (next # Idle => thread[next].state = "runnable")
        /\ cpu' = [cpu EXCEPT ![c] = next]
        /\ thread' = [t \in Tids |-> CASE t = prev -> Leaves(thread[t], reason)
                                       [] t = next -> Enters(thread[t])
                                       [] OTHER -> thread[t]]
    BY <1>3, <2>1 DEF Switch
  <2>3. next \in Tids => (thread'[next]).state = "running"
    <3> SUFFICES ASSUME next \in Tids PROVE (thread'[next]).state = "running"
      OBVIOUS
    <3>1. thread'[next] = Enters(thread[next])
      BY <2>2
    <3>2. thread[next] \in ThreadRecords
      BY <1>1
    <3>. QED BY <3>1, <3>2 DEF Enters, ThreadRecords
  <2>4. \A t \in Tids : t # prev /\ t # next => thread'[t] = thread[t]
    BY <2>2
  <2>5. \A d \in CPUs : cpu'[d] = IF d = c THEN next ELSE cpu[d]
    BY <1>1, <2>2
  <2>6. \A d \in CPUs : cpu[d] \in Tids => thread[cpu[d]].state = "running" /\ cpu[d] # next
    BY <2>2 DEF CpuWorld
  <2>7. \A d \in CPUs : d # c /\ cpu[d] \in Tids => cpu[d] # prev
    BY <2>1 DEF CpuWorld
  <2>8. ASSUME NEW d \in CPUs, cpu'[d] \in Tids
        PROVE  /\ (thread'[cpu'[d]]).state = "running"
               /\ \A e \in CPUs : cpu'[e] = cpu'[d] => e = d
    <3>1. CASE d = c
      <4>1. cpu'[d] = next /\ next \in Tids
        BY <3>1, <2>5, <2>8
      <4>. QED BY <4>1, <3>1, <2>3, <2>5, <2>6
    <3>2. CASE d # c
      <4>1. cpu'[d] = cpu[d] /\ cpu[d] \in Tids /\ cpu[d] # next /\ cpu[d] # prev
        BY <3>2, <2>5, <2>6, <2>7, <2>8
      <4>2. (thread'[cpu'[d]]).state = "running"
        BY <4>1, <2>4, <2>6
      <4>3. \A e \in CPUs : cpu'[e] = cpu'[d] => e = d
        BY <4>1, <2>5 DEF CpuWorld
      <4>. QED BY <4>2, <4>3
    <3>. QED BY <3>1, <3>2
  <2>. QED BY <2>8 DEF CpuWorld
<1>4. ASSUME NEW t \in Tids, Wakeup(t) \/ WakeupNew(t) PROVE CpuWorld'
  <2>1. cpu' = cpu
    BY <1>4 DEF Wakeup, WakeupNew
  <2>2. thread' = thread \/ (thread' = Goes(t, "runnable") /\ thread[t].state # "running")
    BY <1>4 DEF Wakeup, WakeupNew
  <2>3. DOMAIN thread' = Tids /\ \A u \in Tids : u # t => thread'[u] = thread[u]
    BY <1>1, <2>2 DEF Goes
  <2>. QED BY <1>2, <2>1, <2>2, <2>3
<1>5. ASSUME NEW t \in Tids, ProcessExit(t) \/ SysEnter(t) \/ SysExit(t) PROVE CpuWorld'
  <2>1. cpu' = cpu
    BY <1>5 DEF ProcessExit, SysEnter, SysExit
  <2>2. \/ thread' = [thread EXCEPT ![t].exiting = TRUE]
        \/ thread' = [thread EXCEPT ![t].syscall = TRUE]
        \/ thread' = [thread EXCEPT ![t].syscall = FALSE]
    BY <1>5 DEF ProcessExit, SysEnter, SysExit
  <2>3. DOMAIN thread' = Tids /\ \A u \in Tids : (thread'[u]).state = thread[u].state
    BY <1>1, <2>2 DEF ThreadRecords
  <2>. QED BY <1>2, <2>1, <2>3
<1>6. ASSUME UNCHANGED <<cpu, thread>> PROVE CpuWorld'
  BY <1>6 DEF CpuWorld
<1>7. CASE UNCHANGED vars
  BY <1>6, <1>7 DEF vars, world
<1>8. CASE OnPerf
  BY <1>6, <1>8 DEF OnPerf, world
<1>9. CASE OnTick \/ (\E c \in CPUs : OnBoundary(c)) \/ (\E p \in Processes : OnFilter(p)) \/ OnConsume
  BY <1>6, <1>9 DEF OnTick, Tick, OnBoundary, OnFilter, OnConsume, world
<1>10. CASE \E c \in CPUs, next \in Tids \cup {Idle}, reason \in Reasons : OnSwitch(c, next, reason)
  BY <1>3, <1>10 DEF OnSwitch
<1>11. CASE \E t \in Tids : OnWakeup(t) \/ OnExit(t) \/ \E c \in CPUs : OnSyscall(c, t)
  BY <1>4, <1>5, <1>11 DEF OnWakeup, OnExit, OnSyscall
<1>. QED BY <1>7, <1>8, <1>9, <1>10, <1>11 DEF Next

\* The event of a slice, and what the filter let through.
LEMMA ClosedEvent ==
    ASSUME NEW s, NEW n \in Nat, NEW tgid \in {NoTgid, Tgid(s.tid)}, NEW b \in BOOLEAN, StateOK(s, n),
           NEW e, e = [tid |-> s.tid, tgid |-> tgid, start |-> s.start, end |-> n,
                       kernel |-> s.kacc + (IF s.in_kernel /\ s.kstart > 0 THEN n - s.kstart ELSE 0),
                       boundary |-> b]
    PROVE  EventOK(e, n) /\ e.tid = s.tid /\ e.tgid = tgid /\ e.start = s.start /\ e.end = n
<1>1. /\ s.tid \in Tids \cup {Idle} /\ s.start \in Nat /\ s.kstart \in Nat /\ s.kacc \in Nat
      /\ s.start <= n /\ s.kstart <= n /\ (s.tid # Idle => s.start # 0)
      /\ s.start + s.kacc <= IF s.in_kernel /\ s.kstart > 0 THEN s.kstart ELSE n
  BY DEF StateOK, CpuRecords
<1>2. tgid \in Processes \cup {NoTgid}
  BY <1>1 DEF Tgid, Processes
<1>3. PICK k : k = s.kacc + (IF s.in_kernel /\ s.kstart > 0 THEN n - s.kstart ELSE 0)
  OBVIOUS
<1>4. k \in Nat /\ k <= n - s.start
  BY <1>1, <1>3
<1>5. e = [tid |-> s.tid, tgid |-> tgid, start |-> s.start, end |-> n, kernel |-> k, boundary |-> b]
  BY <1>3
<1>6. e \in CpuEvents
  BY <1>1, <1>2, <1>4, <1>5 DEF CpuEvents
<1>. QED BY <1>1, <1>4, <1>5, <1>6 DEF EventOK

LEMMA TgidFacts ==
    \A t \in Tids : Tgid(t) = TgidOf[t] /\ Tgid(t) # NoTgid /\ TgidOf[t] \in Processes
<1>1. \A t \in Tids : t # Idle
  BY SchedulerConstants
<1>2. \A t \in Tids : TgidOf[t] \in Processes
  BY DEF Processes
<1>3. NoTgid \notin Processes
  BY CpuUtilConstants DEF NoTgid
<1>. QED BY <1>1, <1>2, <1>3 DEF Tgid


\* What the steps take from the invariant.
LEMMA CpuFacts ==
    ASSUME CpuUtilInv
    PROVE  /\ now \in Nat /\ now > 0 /\ DOMAIN cpu_states = CPUs
           /\ \A c \in CPUs : StateOK(cpu_states[c], now)
           /\ \A c, d \in CPUs : cpu_states[c].tid = cpu_states[d].tid /\ cpu_states[c].tid # Idle => c = d
           /\ cpu_tgids \subseteq Processes
BY DEF CpuUtilInv, CpuBooks, Books, StatesOK, AttachedInv

LEMMA CpuSwitchStep ==
    ASSUME CpuUtilInv, WorldOK, NEW c \in CPUs, NEW next \in Tids \cup {Idle}, NEW reason \in Reasons,
           OnSwitch(c, next, reason)
    PROVE  CpuBooks' /\ AttachedInv' /\ PercentBounded'
<1>1. /\ cpu' = [cpu EXCEPT ![c] = next] /\ now' = now /\ attached' = attached
      /\ (next # Idle => thread[next].state = "runnable")
  BY DEF OnSwitch, Switch
<1>2. cpu \in [CPUs -> Tids \cup {Idle}]
  BY DEF WorldOK
<1>3. CASE "cpuutil" \notin attached
  <2>1. UNCHANGED cpuVars
    BY <1>3 DEF OnSwitch
  <2>. QED BY <1>1, <1>3, <2>1 DEF CpuUtilInv, CpuBooks, AttachedInv, PercentBounded, cpuVars
<1>4. CASE "cpuutil" \in attached
  <2>1. PICK prev : prev = cpu[c]
    OBVIOUS
  <2>2. cpu_sched_switch(c, prev, next) /\ UNCHANGED CpuRest
    BY <1>4, <2>1 DEF OnSwitch
  <2>0. PICK n \in Nat : n = now /\ n > 0
    BY CpuFacts
  <2>3. PICK s, st : s = cpu_states[c] /\ st = cpu_states /\ n = now /\ n > 0
    BY <2>0
  <2>4. StateOK(s, n) /\ DOMAIN st = CPUs
    BY <2>3, CpuFacts
  <2>5. s.tid = prev /\ prev \in Tids \cup {Idle} /\ \A d \in CPUs : st[d].tid = cpu[d]
    BY <1>2, <1>4, <2>1, <2>3 DEF CpuUtilInv, AttachedInv
  <2>6. PICK e : e = [tid |-> s.tid, tgid |-> Tgid(prev), start |-> s.start, end |-> n,
                      kernel |-> s.kacc + (IF s.in_kernel /\ s.kstart > 0 THEN n - s.kstart ELSE 0),
                      boundary |-> FALSE]
    OBVIOUS
  <2>7. EventOK(e, n) /\ e.tid = prev /\ e.tgid = Tgid(prev) /\ e.start = s.start /\ e.end = n
    BY <2>4, <2>5, <2>6, ClosedEvent
  <2>8. PICK nst, nq, nls : nst = cpu_states' /\ nq = cpu_events' /\ nls = lost'
    OBVIOUS
  <2>9. PICK z, r : z = ZeroState /\ r = [z EXCEPT !.tid = next, !.start = n]
    OBVIOUS
  <2>10. nst = [st EXCEPT ![c] = r]
    BY <2>2, <2>3, <2>8, <2>9 DEF cpu_sched_switch
  <2>11. DOMAIN nst = CPUs /\ nst[c] = r /\ \A d \in CPUs : d # c => nst[d] = st[d]
    BY <2>4, <2>10
  <2>12. StateOK(r, n) /\ r.start = n /\ r.tid = next
    <3>1. /\ z \in CpuRecords /\ z.tgid = NoTgid /\ z.kstart = 0 /\ z.kacc = 0
      BY <2>9 DEF ZeroState, CpuRecords
    <3>2. /\ r \in CpuRecords /\ r.tid = next /\ r.start = n
          /\ r.tgid = NoTgid /\ r.kstart = 0 /\ r.kacc = 0
      BY <3>1, <2>9 DEF CpuRecords
    <3>. QED BY <3>2, <2>3 DEF StateOK
  <2>13. \A d \in CPUs : d # c => (next # Idle => st[d].tid # next)
    BY <1>1, <2>5 DEF CpuUtilInv, CpuWorld
  <2>14. /\ prev # Idle /\ cpu_should_track(Tgid(prev)) =>
              \/ nq = Append(cpu_events, e) /\ nls = lost
              \/ nq = cpu_events /\ nls = lost \cup {prev}
         /\ ~(prev # Idle /\ cpu_should_track(Tgid(prev))) => nq = cpu_events /\ nls = lost
    <3>1. PICK y : y = [cpu_states[c] EXCEPT !.tgid = Tgid(prev)]
      OBVIOUS
    <3>2. /\ y.tid = prev /\ y.tgid = Tgid(prev) /\ y.start = s.start /\ y.kacc = s.kacc
          /\ y.kstart = s.kstart /\ y.in_kernel = s.in_kernel
      BY <3>1, <2>3, <2>4, <2>5 DEF StateOK, CpuRecords
    <3>3. IF prev # Idle /\ cpu_should_track(Tgid(prev))
            THEN submit_cpu_event(y, FALSE) ELSE UNCHANGED <<cpu_events, lost>>
      BY <2>2, <3>1, <3>2 DEF cpu_sched_switch
    <3>4. submit_cpu_event(y, FALSE) => \/ nq = Append(cpu_events, e) /\ nls = lost
                                        \/ nq = cpu_events /\ nls = lost \cup {prev}
      BY <3>2, <2>3, <2>5, <2>6, <2>8 DEF submit_cpu_event
    <3>. QED BY <3>3, <3>4, <2>8
  <2>15. Slices(st, cpu_events, nst, nq, n, c, e)
    BY <2>3, <2>5, <2>7, <2>11, <2>12, <2>13, <2>14 DEF Slices
  <2>16. \A t \in Tids : t = e.tid => \/ nq = Append(cpu_events, e) /\ e.tgid # NoTgid
                                      \/ t \in nls \/ TgidOf[t] \notin cpu_tgids
    <3> SUFFICES ASSUME prev \in Tids
                 PROVE  \/ nq = Append(cpu_events, e) /\ e.tgid # NoTgid
                        \/ prev \in nls \/ TgidOf[prev] \notin cpu_tgids
      BY <2>7
    <3>1. prev # Idle /\ Tgid(prev) = TgidOf[prev] /\ Tgid(prev) # NoTgid
      BY SchedulerConstants, TgidFacts
    <3>2. CASE cpu_should_track(Tgid(prev))
      BY <3>1, <3>2, <2>7, <2>14
    <3>3. CASE ~cpu_should_track(Tgid(prev))
      BY <3>1, <3>3 DEF cpu_should_track
    <3>. QED BY <3>2, <3>3
  <2>17. Books(total, thread_stats, max_timestamp, st, cpu_events, n, ran, lost, cpu_tgids)
    BY <2>3 DEF CpuUtilInv, CpuBooks
  <2>18. lost \subseteq nls
    BY <2>14
  <2>19. Books(total, thread_stats, max_timestamp, nst, nq, n, ran, nls, cpu_tgids)
    BY <2>15, <2>16, <2>17, <2>18, SlicesBooks
  <2>20. CpuBooks'
    BY <2>19, <2>2, <2>3, <2>8, <1>1 DEF CpuBooks, CpuRest
  <2>21. \A d \in CPUs : (cpu_states'[d]).tid = cpu'[d]
    BY <1>1, <1>2, <2>5, <2>8, <2>11, <2>12
  <2>22. AttachedInv'
    BY <1>1, <1>4, <2>2, <2>21 DEF CpuUtilInv, AttachedInv, CpuRest
  <2>23. PercentBounded'
    BY <2>2 DEF CpuUtilInv, PercentBounded, CpuRest
  <2>. QED BY <2>20, <2>22, <2>23
<1>. QED BY <1>3, <1>4

LEMMA CpuBoundaryStep ==
    ASSUME CpuUtilInv, WorldOK, NEW c \in CPUs, OnBoundary(c)
    PROVE  CpuBooks' /\ AttachedInv' /\ PercentBounded'
<1>1. /\ UNCHANGED <<now, cpu, attached>> /\ UNCHANGED CpuRest /\ "cpuutil" \in attached
      /\ handle_boundary_event(c)
  BY DEF OnBoundary
<1>2. cpu \in [CPUs -> Tids \cup {Idle}]
  BY DEF WorldOK
<1>0. PICK n \in Nat : n = now /\ n > 0
  BY CpuFacts
<1>3. PICK s, st, prev : s = cpu_states[c] /\ st = cpu_states /\ n = now /\ n > 0 /\ prev = cpu[c]
  BY <1>0
<1>4. /\ StateOK(s, n) /\ DOMAIN st = CPUs /\ s.tgid \in {NoTgid, Tgid(s.tid)}
      /\ s \in CpuRecords
  BY <1>3, CpuFacts DEF StateOK
<1>5. s.tid = prev /\ prev \in Tids \cup {Idle} /\ \A d \in CPUs : st[d].tid = cpu[d]
  BY <1>1, <1>2, <1>3 DEF CpuUtilInv, AttachedInv
<1>6. PICK tgid : tgid = IF cpu_should_track(Tgid(prev)) THEN Tgid(prev) ELSE s.tgid
  OBVIOUS
<1>7. tgid \in {NoTgid, Tgid(s.tid)}
  BY <1>4, <1>5, <1>6
<1>8. PICK e : e = [tid |-> s.tid, tgid |-> tgid, start |-> s.start, end |-> n,
                    kernel |-> s.kacc + (IF s.in_kernel /\ s.kstart > 0 THEN n - s.kstart ELSE 0),
                    boundary |-> TRUE]
  OBVIOUS
<1>9. EventOK(e, n) /\ e.tid = prev /\ e.tgid = tgid /\ e.start = s.start /\ e.end = n
  <2>1. EventOK(e, n) /\ e.tid = s.tid /\ e.tgid = tgid /\ e.start = s.start /\ e.end = n
    BY <1>4, <1>7, <1>8, ClosedEvent
  <2>. QED BY <2>1, <1>5
<1>10. PICK nst, nq, nls : nst = cpu_states' /\ nq = cpu_events' /\ nls = lost'
  OBVIOUS
<1>11. PICK z : z = [cpu_states[c] EXCEPT !.tgid = tgid]
  OBVIOUS
<1>12. /\ z.tid = prev /\ z.tgid = tgid /\ z.start = s.start /\ z.kacc = s.kacc
       /\ z.kstart = s.kstart /\ z.in_kernel = s.in_kernel
       /\ z = [tid |-> prev, tgid |-> tgid, start |-> s.start, kstart |-> s.kstart, kacc |-> s.kacc,
               in_kernel |-> s.in_kernel]
  BY <1>3, <1>4, <1>5, <1>11 DEF CpuRecords
<1>13. PICK r : r = [z EXCEPT !.start = now, !.kacc = 0, !.kstart = IF z.in_kernel THEN now ELSE @]
  OBVIOUS
<1>14. [cpu_states[c] EXCEPT !.tgid = IF cpu_should_track(Tgid(cpu[c])) THEN Tgid(cpu[c]) ELSE @] = z
  BY <1>3, <1>4, <1>6, <1>11 DEF CpuRecords
<1>15. submit_cpu_event(z, TRUE) /\ cpu_states' = [cpu_states EXCEPT ![c] = r]
  BY <1>1, <1>13, <1>14 DEF handle_boundary_event
<1>16. r = [tid |-> prev, tgid |-> tgid, start |-> n, kstart |-> IF s.in_kernel THEN n ELSE s.kstart,
            kacc |-> 0, in_kernel |-> s.in_kernel]
  BY <1>3, <1>12, <1>13
<1>17. StateOK(r, n) /\ r.start = n /\ r.tid = prev
  <2>1. PICK k \in Nat : k = (IF s.in_kernel THEN n ELSE s.kstart) /\ k <= n
    BY <1>4 DEF StateOK, CpuRecords
  <2>2. r = [tid |-> prev, tgid |-> tgid, start |-> n, kstart |-> k, kacc |-> 0, in_kernel |-> s.in_kernel]
    BY <1>16, <2>1
  <2>3. tgid \in Processes \cup {NoTgid} /\ s.in_kernel \in BOOLEAN
    BY <1>4, <1>5, <1>7 DEF CpuRecords, Tgid, Processes
  <2>4. r \in CpuRecords
    BY <2>1, <2>2, <2>3, <1>5 DEF CpuRecords
  <2>5. r.in_kernel /\ r.kstart > 0 => r.kstart = n
    BY <2>1, <2>2
  <2>. QED BY <2>1, <2>2, <2>4, <2>5, <1>3, <1>5, <1>7 DEF StateOK
<1>18. DOMAIN nst = CPUs /\ nst[c] = r /\ \A d \in CPUs : d # c => nst[d] = st[d]
  BY <1>3, <1>4, <1>10, <1>15
<1>19. \A d \in CPUs : d # c => (prev # Idle => st[d].tid # prev)
  BY <1>3, <1>5, CpuFacts
<1>20. \/ nq = Append(cpu_events, e) /\ nls = lost
       \/ nq = cpu_events /\ nls = lost \cup {prev}
  BY <1>3, <1>5, <1>8, <1>10, <1>12, <1>15 DEF submit_cpu_event
<1>21. Slices(st, cpu_events, nst, nq, n, c, e)
  BY <1>3, <1>5, <1>9, <1>17, <1>18, <1>19, <1>20 DEF Slices
<1>22. \A t \in Tids : t = e.tid => \/ nq = Append(cpu_events, e) /\ e.tgid # NoTgid
                                    \/ t \in nls \/ TgidOf[t] \notin cpu_tgids
  <2> SUFFICES ASSUME prev \in Tids, TgidOf[prev] \in cpu_tgids
               PROVE  tgid # NoTgid
    BY <1>9, <1>20
  <2>. QED BY <1>6, TgidFacts DEF cpu_should_track
<1>23. Books(total, thread_stats, max_timestamp, st, cpu_events, n, ran, lost, cpu_tgids)
  BY <1>3 DEF CpuUtilInv, CpuBooks
<1>24. lost \subseteq nls
  BY <1>20
<1>25. Books(total, thread_stats, max_timestamp, nst, nq, n, ran, nls, cpu_tgids)
  BY <1>21, <1>22, <1>23, <1>24, SlicesBooks
<1>26. CpuBooks'
  BY <1>25, <1>1, <1>3, <1>10 DEF CpuBooks, CpuRest
<1>27. \A d \in CPUs : (cpu_states'[d]).tid = cpu[d]
  BY <1>3, <1>5, <1>10, <1>17, <1>18
<1>28. AttachedInv'
  BY <1>1, <1>27 DEF CpuUtilInv, AttachedInv, CpuRest
<1>29. PercentBounded'
  BY <1>1 DEF CpuUtilInv, PercentBounded, CpuRest
<1>. QED BY <1>26, <1>28, <1>29


LEMMA CpuSyscallStep ==
    ASSUME CpuUtilInv, WorldOK, NEW c \in CPUs, NEW t \in Tids, OnSyscall(c, t)
    PROVE  CpuBooks' /\ AttachedInv' /\ PercentBounded'
<1>1. /\ UNCHANGED <<now, cpu, attached, cpu_events, lost>> /\ UNCHANGED CpuRest /\ cpu[c] = t
      /\ "cpuutil" \in attached /\ (handle_sys_enter(c, t) \/ handle_sys_exit(c, t))
  BY DEF OnSyscall, SysEnter, SysExit
<1>2. PICK n \in Nat : n = now /\ n > 0
  BY CpuFacts
<1>3. PICK s, st, nst : s = cpu_states[c] /\ st = cpu_states /\ nst = cpu_states'
  OBVIOUS
<1>4. StateOK(s, n) /\ DOMAIN st = CPUs /\ s \in CpuRecords
  BY <1>2, <1>3, CpuFacts DEF StateOK
<1>5. \A d \in CPUs : st[d].tid = cpu[d]
  BY <1>1, <1>3 DEF CpuUtilInv, AttachedInv
<1>6. ASSUME NEW r \in CpuRecords, r.tid = s.tid, r.tgid = s.tgid, r.start = s.start, r.kstart <= n,
             r.start + r.kacc <= IF r.in_kernel /\ r.kstart > 0 THEN r.kstart ELSE n,
             nst = [st EXCEPT ![c] = r]
      PROVE  Inside(st, nst, n, c)
  <2>1. StateOK(r, n)
    BY <1>4, <1>6 DEF StateOK
  <2>2. DOMAIN nst = CPUs /\ nst[c] = r /\ \A d \in CPUs : d # c => nst[d] = st[d]
    BY <1>4, <1>6
  <2>. QED BY <2>1, <2>2, <1>3, <1>6 DEF Inside
<1>7. nst = st \/ Inside(st, nst, n, c)
  <2>0. /\ s.start \in Nat /\ s.kacc \in Nat /\ s.kstart \in Nat /\ s.in_kernel \in BOOLEAN
        /\ s.kstart <= n /\ s.start <= n
        /\ s.start + s.kacc <= IF s.in_kernel /\ s.kstart > 0 THEN s.kstart ELSE n
    BY <1>4 DEF StateOK, CpuRecords
  <2>1. CASE handle_sys_enter(c, t)
    <3>1. CASE s.tid = t /\ ~s.in_kernel
      <4>1. nst = [st EXCEPT ![c].in_kernel = TRUE, ![c].kstart = n]
        BY <2>1, <3>1, <1>2, <1>3 DEF handle_sys_enter
      <4>2. PICK x : x = [s EXCEPT !.in_kernel = TRUE, !.kstart = n]
        OBVIOUS
      <4>3. nst = [st EXCEPT ![c] = x]
        BY <4>1, <4>2, <1>3, <1>4
      <4>4. /\ x \in CpuRecords /\ x.tid = s.tid /\ x.tgid = s.tgid /\ x.start = s.start
            /\ x.kstart = n /\ x.kacc = s.kacc
        BY <4>2, <1>4 DEF CpuRecords
      <4>5. x.kstart <= n /\ x.start + x.kacc <= IF x.in_kernel /\ x.kstart > 0 THEN x.kstart ELSE n
        BY <4>4, <2>0, <3>1
      <4>. QED BY <4>3, <4>4, <4>5, <1>6
    <3>2. CASE ~(s.tid = t /\ ~s.in_kernel)
      BY <2>1, <3>2, <1>3 DEF handle_sys_enter
    <3>. QED BY <3>1, <3>2
  <2>2. CASE handle_sys_exit(c, t)
    <3>1. s.tid = t
      BY <1>1, <1>3, <1>5
    <3>3. PICK a \in Nat : /\ a = (IF s.in_kernel /\ s.kstart > 0 THEN s.kacc + (n - s.kstart) ELSE s.kacc)
                           /\ s.start + a <= n
      BY <2>0
    <3>4. PICK k \in Nat : k = (IF s.in_kernel /\ s.kstart > 0 THEN 0 ELSE s.kstart)
      BY <2>0
    <3>5. s.start + a <= n
      BY <3>3
    <3>6. nst = [st EXCEPT ![c].kacc = a, ![c].kstart = k, ![c].in_kernel = FALSE]
      BY <2>2, <3>1, <3>3, <3>4, <1>2, <1>3, <1>4 DEF handle_sys_exit
    <3>7. PICK x : x = [s EXCEPT !.kacc = a, !.kstart = k, !.in_kernel = FALSE]
      OBVIOUS
    <3>8. nst = [st EXCEPT ![c] = x]
      BY <3>6, <3>7, <1>3, <1>4
    <3>9. /\ x \in CpuRecords /\ x.tid = s.tid /\ x.tgid = s.tgid /\ x.start = s.start
          /\ x.kstart = k /\ x.kacc = a /\ x.in_kernel = FALSE
      BY <3>7, <1>4 DEF CpuRecords
    <3>10. x.kstart <= n /\ x.start + x.kacc <= IF x.in_kernel /\ x.kstart > 0 THEN x.kstart ELSE n
      BY <3>4, <3>5, <3>9, <2>0
    <3>. QED BY <3>8, <3>9, <3>10, <1>6
  <2>. QED BY <2>1, <2>2, <1>1
<1>8. Books(total, thread_stats, max_timestamp, st, cpu_events, n, ran, lost, cpu_tgids)
  BY <1>2, <1>3 DEF CpuUtilInv, CpuBooks
<1>9. Books(total, thread_stats, max_timestamp, nst, cpu_events, n, ran, lost, cpu_tgids)
  <2>1. CASE nst = st
    BY <1>8, <2>1
  <2>2. CASE Inside(st, nst, n, c)
    BY <1>8, <2>2, InsideBooks
  <2>. QED BY <2>1, <2>2, <1>7
<1>10. CpuBooks'
  BY <1>9, <1>1, <1>2, <1>3 DEF CpuBooks, CpuRest
<1>11. \A d \in CPUs : (cpu_states'[d]).tid = cpu[d]
  BY <1>3, <1>5, <1>7 DEF Inside
<1>12. AttachedInv'
  BY <1>1, <1>11 DEF CpuUtilInv, AttachedInv, CpuRest
<1>13. PercentBounded'
  BY <1>1 DEF CpuUtilInv, PercentBounded, CpuRest
<1>. QED BY <1>10, <1>12, <1>13

LEMMA CpuTickStep ==
    ASSUME CpuUtilInv, OnTick
    PROVE  CpuBooks' /\ AttachedInv' /\ PercentBounded'
<1>1. /\ now' = now + 1 /\ UNCHANGED <<cpu, attached>>
      /\ UNCHANGED <<cpu_tgids, cpu_states, cpu_events, thread_stats,
                     boundaries_reported, max_timestamp, report, total, lost>>
      /\ ran' = [t \in Tids |-> IF \E c \in CPUs : cpu_states[c].tid = t THEN ran[t] + 1 ELSE ran[t]]
  BY DEF OnTick, Tick, Ran
<1>2. Books(total, thread_stats, max_timestamp, cpu_states, cpu_events, now, ran, lost, cpu_tgids)
  BY DEF CpuUtilInv, CpuBooks
<1>3. Books(total, thread_stats, max_timestamp, cpu_states, cpu_events, now + 1, ran', lost, cpu_tgids)
  BY <1>1, <1>2, TickBooks
<1>4. CpuBooks'
  BY <1>1, <1>3 DEF CpuBooks
<1>5. ran' \in [Tids -> Nat] /\ now + 1 > 0
  BY <1>3, CpuFacts DEF Books
<1>6. AttachedInv'
  BY <1>1, <1>5 DEF CpuUtilInv, AttachedInv
<1>7. PercentBounded'
  BY <1>1 DEF CpuUtilInv, PercentBounded
<1>. QED BY <1>4, <1>6, <1>7

LEMMA CpuFilterStep ==
    ASSUME CpuUtilInv, NEW p \in Processes, cpu_filter(p), UNCHANGED <<world, attached>>
    PROVE  CpuBooks' /\ AttachedInv' /\ PercentBounded'
<1>1. /\ UNCHANGED <<now, cpu, attached>>
      /\ UNCHANGED <<cpu_states, cpu_events, thread_stats, max_timestamp, report, total, ran>>
      /\ cpu_tgids' = cpu_tgids \cup {p}
      /\ lost' = lost \cup {t \in Tids : TgidOf[t] = p}
  BY DEF cpu_filter, world
<1>2. \A t \in Tids : t \notin lost' /\ TgidOf[t] \in cpu_tgids'
                        => t \notin lost /\ TgidOf[t] \in cpu_tgids
  BY <1>1
<1>3. CpuBooks'
  BY <1>1, <1>2 DEF CpuUtilInv, CpuBooks, Books, Exact
<1>4. AttachedInv'
  BY <1>1 DEF CpuUtilInv, AttachedInv
<1>5. PercentBounded'
  BY <1>1 DEF CpuUtilInv, PercentBounded
<1>. QED BY <1>3, <1>4, <1>5

LEMMA CpuConsumeStep ==
    ASSUME CpuUtilInv, cpu_consume, UNCHANGED <<world, attached>>
    PROVE  CpuBooks' /\ AttachedInv' /\ PercentBounded'
<1>0. PICK q, e, stats, mx, round :
         /\ q = cpu_events /\ e = Head(q) /\ stats = Add(thread_stats, e)
         /\ mx = Max({max_timestamp, e.end})
         /\ round = (e.boundary /\ boundaries_reported + 1 = nprocs)
  OBVIOUS
<1>1. /\ q # <<>> /\ UNCHANGED <<now, cpu, attached, cpu_tgids, cpu_states, ran, lost>>
      /\ max_timestamp' = mx /\ cpu_events' = Tail(q)
      /\ thread_stats' = IF round THEN [t \in DOMAIN stats |-> [cpu |-> 0, kernel |-> 0, min |-> mx]]
                         ELSE stats
      /\ report' = IF round THEN [t \in DOMAIN stats |->
                                    [cpu |-> stats[t].cpu, kernel |-> stats[t].kernel,
                                     elapsed |-> mx - stats[t].min]]
                   ELSE report
      /\ total' = IF round THEN [t \in Tids |-> total[t] +
                                    (IF t \in DOMAIN stats THEN stats[t].cpu ELSE 0)]
                  ELSE total
  BY <1>0 DEF cpu_consume, world
<1>2. /\ Books(total, stats, mx, cpu_states, Tail(q), now, ran, lost, cpu_tgids)
      /\ StatsOK(stats, mx, cpu_states, Tail(q), now)
  <2>1. Books(total, thread_stats, max_timestamp, cpu_states, q, now, ran, lost, cpu_tgids)
    BY <1>0 DEF CpuUtilInv, CpuBooks
  <2>. QED BY <2>1, <1>0, <1>1, TakeBooks
<1>3. CASE ~round
  <2>1. /\ thread_stats' = stats /\ report' = report /\ total' = total
    BY <1>1, <1>3
  <2>2. CpuBooks'
    BY <1>1, <1>2, <2>1 DEF CpuBooks
  <2>3. PercentBounded'
    BY <2>1 DEF CpuUtilInv, PercentBounded
  <2>. QED BY <2>2, <2>3, <1>0, <1>1, <2>1 DEF CpuUtilInv, AttachedInv
<1>4. CASE round
  <2>1. PICK fresh : fresh = thread_stats'
    OBVIOUS
  <2>2. IsFresh(fresh, stats, mx)
    BY <1>1, <1>4, <2>1 DEF IsFresh
  <2>3. total' = [t \in Tids |-> total[t] + (IF t \in DOMAIN stats THEN stats[t].cpu ELSE 0)]
    BY <1>1, <1>4
  <2>4. Books(total', fresh, mx, cpu_states, Tail(q), now, ran, lost, cpu_tgids)
    <3>1. Books([t \in Tids |-> total[t] + (IF t \in DOMAIN stats THEN stats[t].cpu ELSE 0)],
                fresh, mx, cpu_states, Tail(q), now, ran, lost, cpu_tgids)
      BY <1>2, <2>2, RoundBooks
    <3>. QED BY <3>1, <2>3
  <2>5. CpuBooks'
    BY <1>1, <2>1, <2>4 DEF CpuBooks
  <2>6. \A t \in DOMAIN stats : stats[t].cpu <= mx - stats[t].min /\ stats[t].kernel <= stats[t].cpu
    BY <1>2, <2>2, CpuFacts, RoundStats
  <2>7. PercentBounded'
    <3>1. /\ DOMAIN report' = DOMAIN stats
          /\ \A t \in DOMAIN stats : report'[t] = [cpu |-> stats[t].cpu, kernel |-> stats[t].kernel,
                                                   elapsed |-> mx - stats[t].min]
      BY <1>1, <1>4
    <3>2. \A t \in DOMAIN stats : (report'[t]).cpu <= (report'[t]).elapsed
                                    /\ (report'[t]).kernel <= (report'[t]).cpu
      BY <2>6, <3>1
    <3>. QED BY <3>1, <3>2 DEF PercentBounded
  <2>8. total' \in [Tids -> Nat]
    BY <2>4 DEF Books
  <2>. QED BY <2>5, <2>7, <2>8, <1>0, <1>1 DEF CpuUtilInv, AttachedInv
<1>. QED BY <1>3, <1>4

LEMMA CpuIdleStep ==
    ASSUME CpuUtilInv, UNCHANGED <<cpuVars, now, cpu, attached>>
    PROVE  CpuBooks' /\ AttachedInv' /\ PercentBounded'
BY DEF CpuUtilInv, CpuBooks, AttachedInv, PercentBounded, cpuVars

LEMMA CpuInit == Init => CpuUtilInv
<1> SUFFICES ASSUME Init PROVE CpuUtilInv
  OBVIOUS
<1>1. /\ now = 1 /\ cpu = [c \in CPUs |-> Idle] /\ cpu_states = [c \in CPUs |-> ZeroState]
      /\ cpu_events = <<>> /\ thread_stats = [t \in {} |-> {}] /\ max_timestamp = 0
      /\ report = [t \in {} |-> {}] /\ total = [t \in Tids |-> 0] /\ ran = [t \in Tids |-> 0]
      /\ lost = {} /\ cpu_tgids \subseteq Processes
  BY DEF Init, SchedulerInit, CpuUtilIdle
<1>2. CpuWorld
  BY <1>1, SchedulerConstants DEF CpuWorld
<1>3. ZeroState \in CpuRecords /\ StateOK(ZeroState, 1) /\ ZeroState.tid = Idle
  <2>1. PICK z : z = ZeroState
    OBVIOUS
  <2>2. /\ z \in CpuRecords /\ z.tgid = NoTgid /\ z.kstart = 0 /\ z.kacc = 0 /\ z.tid = Idle
        /\ z.start = 0
    BY <2>1 DEF ZeroState, CpuRecords
  <2>3. StateOK(z, 1)
    BY <2>2 DEF StateOK
  <2>. QED BY <2>1, <2>2, <2>3
<1>4. AttachedInv
  <2>1. \A c \in CPUs : cpu_states[c].tid = Idle /\ cpu[c] = Idle
    BY <1>1, <1>3
  <2>. QED BY <1>1, <2>1 DEF AttachedInv
<1>5. PercentBounded
  BY <1>1 DEF PercentBounded
<1>6. PICK st, q, ts : st = cpu_states /\ q = cpu_events /\ ts = thread_stats
  OBVIOUS
<1>7. DOMAIN st = CPUs /\ \A c \in CPUs : st[c] = ZeroState
  BY <1>1, <1>6
<1>8. StatesOK(st, 1)
  BY <1>3, <1>7 DEF StatesOK
<1>9. q = <<>> /\ q \in Seq(CpuEvents) /\ DOMAIN q = {}
  BY <1>1, <1>6
<1>10. QueueOK(st, q, 1)
  BY <1>9 DEF QueueOK
<1>11. DOMAIN ts = {}
  BY <1>1, <1>6
<1>12. StatsOK(ts, 0, st, q, 1)
  BY <1>11 DEF StatsOK
<1>13. ASSUME NEW t \in Tids PROVE Acc(total, ts, st, q, 1, t) = 0
  <2>1. RingUnits(q, 1, t) = {}
    BY <1>9 DEF RingUnits
  <2>2. SliceUnits(st, 1, t) = {}
    BY <1>3, <1>7, SchedulerConstants DEF SliceUnits
  <2>3. total[t] = 0 /\ t \notin DOMAIN ts /\ Cardinality({}) = 0
    BY <1>1, <1>11, FS_EmptySet
  <2>. QED BY <2>1, <2>2, <2>3 DEF Acc
<1>14. Exact(total, ts, st, q, 1, ran, lost, cpu_tgids)
  BY <1>1, <1>13 DEF Exact
<1>15. CpuBooks
  BY <1>1, <1>6, <1>8, <1>10, <1>12, <1>14 DEF CpuBooks, Books
<1>. QED BY <1>2, <1>4, <1>5, <1>15 DEF CpuUtilInv

LEMMA CpuNext == SchedInv /\ CpuUtilInv /\ [Next]_vars => CpuUtilInv'
<1> SUFFICES ASSUME SchedInv, CpuUtilInv, [Next]_vars PROVE CpuUtilInv'
  OBVIOUS
<1>0. WorldOK
  BY DEF SchedInv
<1>1. CpuWorld'
  BY <1>0, CpuWorldStep DEF CpuUtilInv
<1>2. CASE \E c \in CPUs, next \in Tids \cup {Idle}, reason \in Reasons : OnSwitch(c, next, reason)
  BY <1>0, <1>1, <1>2, CpuSwitchStep DEF CpuUtilInv
<1>3. CASE \E t \in Tids : OnWakeup(t) \/ OnExit(t)
  <2>1. UNCHANGED <<cpuVars, now, cpu, attached>>
    BY <1>3 DEF OnWakeup, OnExit, Wakeup, WakeupNew, ProcessExit
  <2>. QED BY <1>1, <2>1, CpuIdleStep DEF CpuUtilInv
<1>4. CASE \E t \in Tids, c \in CPUs : OnSyscall(c, t)
  BY <1>0, <1>1, <1>4, CpuSyscallStep DEF CpuUtilInv
<1>5. CASE \E c \in CPUs : OnBoundary(c)
  BY <1>0, <1>1, <1>5, CpuBoundaryStep DEF CpuUtilInv
<1>6. CASE OnTick
  BY <1>1, <1>6, CpuTickStep DEF CpuUtilInv
<1>7. CASE \E p \in Processes : OnFilter(p)
  <2>1. PICK p \in Processes : OnFilter(p)
    BY <1>7
  <2>2. CASE UNCHANGED cpuVars
    <3>1. UNCHANGED <<cpuVars, now, cpu, attached>>
      BY <2>1, <2>2 DEF OnFilter, world
    <3>. QED BY <1>1, <3>1, CpuIdleStep DEF CpuUtilInv
  <2>3. CASE cpu_filter(p)
    <3>1. UNCHANGED <<world, attached>>
      BY <2>1 DEF OnFilter
    <3>. QED BY <1>1, <2>3, <3>1, CpuFilterStep DEF CpuUtilInv
  <2>. QED BY <2>1, <2>2, <2>3 DEF OnFilter
<1>8. CASE OnConsume
  <2>2. CASE UNCHANGED cpuVars
    <3>1. UNCHANGED <<cpuVars, now, cpu, attached>>
      BY <1>8, <2>2 DEF OnConsume, world
    <3>. QED BY <1>1, <3>1, CpuIdleStep DEF CpuUtilInv
  <2>3. CASE cpu_consume
    <3>1. UNCHANGED <<world, attached>>
      BY <1>8 DEF OnConsume
    <3>. QED BY <1>1, <2>3, <3>1, CpuConsumeStep DEF CpuUtilInv
  <2>. QED BY <1>8, <2>2, <2>3 DEF OnConsume
<1>9. CASE OnPerf \/ UNCHANGED vars
  <2>1. UNCHANGED <<cpuVars, now, cpu, attached>>
    BY <1>9 DEF OnPerf, vars, world
  <2>. QED BY <1>1, <2>1, CpuIdleStep DEF CpuUtilInv
<1>. QED BY <1>2, <1>3, <1>4, <1>5, <1>6, <1>7, <1>8, <1>9 DEF Next

LEMMA CpuInvariant == Spec => []CpuUtilInv
BY CpuInit, CpuNext, SchedInvariant, PTL DEF Spec

\* CpuUtil!PercentBounded for any number of processors and threads, any size of
\* the ring buffer and whatever nprocs is: a report never gives a thread more
\* than all of the time, nor more time in the kernel than on a processor
\* (cpuutil.rs, the report at the last boundary of a round).
THEOREM CpuPercent == Spec => []PercentBounded
<1>1. CpuUtilInv => PercentBounded
  BY DEF CpuUtilInv
<1>. QED BY <1>1, CpuInvariant, PTL

\* CpuUtil!CpuTimeExact: what is reported for a thread and what is still on its
\* way never add up to more than the time it ran, and add up to just that for a
\* thread that was traced from the start and lost no event.
THEOREM CpuTimes == Spec => []CpuTimeExact
<1>1. CpuUtilInv => CpuTimeExact
  <2> SUFFICES ASSUME CpuUtilInv, NEW t \in Tids
               PROVE  /\ Accounted(t) <= ran[t]
                      /\ t \notin lost /\ TgidOf[t] \in cpu_tgids => Accounted(t) = ran[t]
    BY DEF CpuTimeExact
  <2>1. Exact(total, thread_stats, cpu_states, cpu_events, now, ran, lost, cpu_tgids)
    BY DEF CpuUtilInv, CpuBooks, Books
  <2>2. Accounted(t) = Acc(total, thread_stats, cpu_states, cpu_events, now, t)
    BY DEF Accounted, Acc, InRing, InSlice, RingUnits, SliceUnits
  <2>. QED BY <2>1, <2>2 DEF Exact
<1>. QED BY <1>1, CpuInvariant, PTL
=============================================================================

---------------------------- MODULE TracingLayer ----------------------------
(***************************************************************************)
(* The tracing layer inside a traced program: KinetraceLayer               *)
(* (kinetracing/src/layer.rs) turns the callbacks of the tracing library   *)
(* into events, TracingExtension (extension.rs) holds the session in an    *)
(* ArcSwapOption that the agent's thread stores and clears, AgentHandle    *)
(* (agent/src/extension.rs) names each thread once and submits into the    *)
(* session's ring.                                                         *)
(*                                                                         *)
(* A callback loads the session anew for is_active(), the filter, the      *)
(* clock and submit(): each load is a step, between which sessions end and *)
(* begin.  The registry of spans and the program are external.             *)
(***************************************************************************)
EXTENDS Naturals, Sequences

CONSTANTS
    Threads, Named,     \* threads of the program, and those with a name
    Spans,              \* span ids of the registry, used again after a close
    Sites,              \* call sites of spans and events
    Sessions,           \* the sessions to come: a sequence of [filter, clock, pid]
    Offset,             \* [clocks -> how far ahead of CLOCK_MONOTONIC it is]
    OwnPid,             \* the process id without a session that changes it
    MaxCallbacks,       \* bound: callbacks of the program
    MaxFailures,        \* bound: records that find no room in the ring
    None

\* What the registry keeps of a span: its call site, the sessions begun when it
\* was created, whether the layer has put its SpanData there, the start timestamp
\* in it, and (history) the enter that set it.
Entered == [by : {None}] \cup [by : Threads, time : Nat, since : Nat]
SpanRecords == [site : Sites, since : Nat, data : BOOLEAN, start : Nat, entered : Entered]

ASSUME LayerConstants ==
    /\ None \notin SpanRecords
    /\ Named \subseteq Threads /\ None \notin Threads
    /\ Len(Sessions) \in Nat /\ DOMAIN Sessions = 1 .. Len(Sessions)
    /\ "monotonic" \in DOMAIN Offset /\ \A n \in DOMAIN Sessions : Sessions[n].clock \in DOMAIN Offset
    /\ \A c \in DOMAIN Offset : Offset[c] \in Nat
    /\ MaxCallbacks \in Nat /\ MaxFailures \in Nat

VARIABLES
    now,                \* CLOCK_MONOTONIC: every reading is a moment after the last
    begun,              \* sessions that have begun; the last of them may be over
    state,              \* TracingExtension::state: the session, or 0
    process_id,         \* agent::get_process_id()
    names_sent,         \* [sessions -> threads named], of each AgentHandle
    ring,               \* [sessions -> the events submitted to its ring]
    failures,
    spans,              \* [Spans -> None, or what the registry keeps of the span]
    inside,             \* pairs of a thread and the span it is in
    callback,           \* [Threads -> the callback it is in]
    callbacks

agentVars == <<begun, state, process_id>>
appVars == <<spans, inside, callback, callbacks>>
vars == <<now, agentVars, names_sent, ring, failures, appVars>>

Idle == [at |-> "idle", call |-> "none", span |-> None]
Ids == DOMAIN Sessions

Init ==
    /\ now = 1
    /\ begun = 0 /\ state = 0 /\ process_id = OwnPid
    /\ names_sent = [n \in Ids |-> {}]
    /\ ring = [n \in Ids |-> <<>>]
    /\ failures = 0
    /\ spans = [s \in Spans |-> None]
    /\ inside = {}
    /\ callback = [t \in Threads |-> Idle]
    /\ callbacks = 0

-----------------------------------------------------------------------------
(* The agent's thread.                                                      *)

\* handle_message sets the process id and tells the ring of it before the
\* extension sees the Start.
set_process_id ==
    /\ state = 0 /\ begun < Len(Sessions)
    /\ process_id # Sessions[begun + 1].pid
    /\ process_id' = Sessions[begun + 1].pid
    /\ UNCHANGED <<now, begun, state, names_sent, ring, failures, appVars>>

\* TracingExtension::start, with a filter that parses.
start ==
    /\ state = 0 /\ begun < Len(Sessions)
    /\ process_id = Sessions[begun + 1].pid
    /\ begun' = begun + 1 /\ state' = begun + 1
    /\ UNCHANGED <<now, process_id, names_sent, ring, failures, appVars>>

\* TracingExtension::stop: a callback that loaded the session keeps it.
stop ==
    /\ state # 0
    /\ state' = 0
    /\ UNCHANGED <<now, begun, process_id, names_sent, ring, failures, appVars>>

-----------------------------------------------------------------------------
(* The callbacks.                                                           *)

is_active == state # 0
clock_id == IF state = 0 THEN "monotonic" ELSE Sessions[state].clock
is_enabled(site) == state = 0 \/ site \in Sessions[state].filter
get_timestamp(clock) == now + Offset[clock]

At(t, where) == callback' = [callback EXCEPT ![t].at = where]
Return(t) == callback' = [callback EXCEPT ![t] = Idle]

\* ReentrancyGuard: a callback from within a callback of the same thread, as
\* when a field's Debug implementation logs, returns at once.
ReentrancyGuard(t) == callback[t].at = "idle"

\* The callback begins and asks is_active(); an inactive layer does nothing.
\* since: sessions begun by then.
Begin(t, call, s, site, first) ==
    /\ ReentrancyGuard(t)
    /\ callbacks < MaxCallbacks /\ callbacks' = callbacks + 1
    /\ callback' = IF is_active
                     THEN [callback EXCEPT ![t] = [at |-> first, call |-> call, span |-> s,
                                                   site |-> site, since |-> begun]]
                     ELSE callback
    /\ UNCHANGED <<now, agentVars, names_sent, ring, failures>>

new_span(t, s, site) ==
    /\ spans[s] = None
    /\ Begin(t, "new_span", s, site, "filter")
    /\ spans' = [spans EXCEPT ![s] = [site |-> site, since |-> begun, data |-> FALSE,
                                      start |-> 0, entered |-> [by |-> None]]]
    /\ UNCHANGED inside

\* The thread that creates a span hands it out when on_new_span has returned.
Created(s) ==
    /\ spans[s] # None
    /\ \A t \in Threads : ~(callback[t].at = "filter" /\ callback[t].call = "new_span"
                                                      /\ callback[t].span = s)

enter(t, s) ==
    /\ Created(s) /\ <<t, s>> \notin inside
    /\ Begin(t, "enter", s, spans[s].site, "clock")
    /\ inside' = inside \cup {<<t, s>>}
    /\ UNCHANGED spans

exit(t, s) ==
    /\ <<t, s>> \in inside
    /\ Begin(t, "exit", s, spans[s].site, "clock")
    /\ inside' = inside \ {<<t, s>>}
    /\ UNCHANGED spans

event(t, site) ==
    /\ Begin(t, "event", None, site, "filter")
    /\ UNCHANGED <<spans, inside>>

\* The last handle of the span is dropped; the registry forgets its data.
close(s) ==
    /\ Created(s)
    /\ \A t \in Threads : <<t, s>> \notin inside /\ callback[t].span # s
    /\ spans' = [spans EXCEPT ![s] = None]
    /\ UNCHANGED <<now, agentVars, names_sent, ring, failures, inside, callback, callbacks>>

Rest == <<agentVars, inside, callbacks>>

Filter_spans(t) ==
    LET c == callback[t]
    IN  /\ c.at = "filter"
        /\ IF c.call = "event" THEN At(t, "clock") ELSE Return(t)
        /\ spans' = IF is_enabled(c.site) /\ c.call = "new_span"
                      THEN [spans EXCEPT ![c.span].data = TRUE] ELSE spans
        /\ UNCHANGED <<now, Rest, names_sent, ring, failures>>

\* is_enabled: a session that has just ended filters nothing.
Filter(t) ==
    LET c == callback[t]
    IN  /\ c.at = "filter"
        /\ IF is_enabled(c.site) /\ c.call = "event" THEN At(t, "clock") ELSE Return(t)
        /\ spans' = IF is_enabled(c.site) /\ c.call = "new_span"
                      THEN [spans EXCEPT ![c.span].data = TRUE] ELSE spans
        /\ UNCHANGED <<now, Rest, names_sent, ring, failures>>

\* on_exit reads the span's data under a lock that it keeps until it has
\* submitted.
Locked(s) == \E t \in Threads : /\ callback[t].at \in {"submit", "name", "record"}
                                /\ callback[t].call = "exit" /\ callback[t].span = s

on_enter_once(t) ==
    LET c == callback[t]
    IN  /\ c.at = "clock" /\ c.call = "enter" /\ ~Locked(c.span)
        /\ spans' = IF spans[c.span].data
                      THEN [spans EXCEPT ![c.span].start = IF @ = 0 THEN get_timestamp(clock_id) ELSE @,
                                         ![c.span].entered = [by |-> t, time |-> now,
                                                              since |-> c.since]]
                      ELSE spans
        /\ Return(t) /\ now' = now + 1
        /\ UNCHANGED <<Rest, names_sent, ring, failures>>

\* on_enter: the clock of the session goes into the span, for all threads.
on_enter(t) ==
    LET c == callback[t]
    IN  /\ c.at = "clock" /\ c.call = "enter" /\ ~Locked(c.span)
        /\ spans' = IF spans[c.span].data
                      THEN [spans EXCEPT ![c.span].start = get_timestamp(clock_id),
                                         ![c.span].entered = [by |-> t, time |-> now,
                                                              since |-> c.since]]
                      ELSE spans
        /\ Return(t) /\ now' = now + 1
        /\ UNCHANGED <<Rest, names_sent, ring, failures>>

\* on_exit and on_event: the event, its time and its track.  A span that was
\* created without a session, or filtered then, has no data.
on_exit(t) ==
    LET c == callback[t] IN
    /\ c.at = "clock" /\ c.call = "exit"
    /\ IF ~spans[c.span].data THEN Return(t)
       ELSE callback' = [callback EXCEPT ![t] =
                [at |-> "submit", call |-> "exit", span |-> c.span, site |-> spans[c.span].site,
                 since |-> spans[c.span].since, entered |-> spans[c.span].entered,
                 start |-> spans[c.span].start, end |-> get_timestamp(clock_id),
                 pid |-> process_id]]
    /\ now' = now + 1
    /\ UNCHANGED <<Rest, spans, names_sent, ring, failures>>

on_event(t) ==
    LET c == callback[t] IN
    /\ c.at = "clock" /\ c.call = "event"
    /\ callback' = [callback EXCEPT ![t] =
           [at |-> "submit", call |-> "event", span |-> None, site |-> c.site,
            since |-> c.since, end |-> get_timestamp(clock_id), pid |-> process_id]]
    /\ now' = now + 1
    /\ UNCHANGED <<Rest, spans, names_sent, ring, failures>>

\* TracingExtension::submit takes the session there is by now.
submit(t) ==
    /\ callback[t].at = "submit"
    /\ IF state = 0 THEN Return(t) /\ UNCHANGED names_sent
       ELSE LET named == t \in names_sent[state] \/ t \notin Named
            IN  /\ callback' = [callback EXCEPT ![t] = [call |-> @.call, span |-> @.span,
                       at |-> IF named THEN "record" ELSE "name", session |-> state, event |-> @]]
                /\ names_sent' = [names_sent EXCEPT ![state] = IF named THEN @ \cup {t} ELSE @]
    /\ UNCHANGED <<now, Rest, spans, ring, failures>>

\* Producer::submit: the record is in the ring, or there was no room for it.
Submit(t, n, record, Ok, Failed) ==
    \/ /\ ring' = [ring EXCEPT ![n] = Append(@, record)]
       /\ Ok /\ UNCHANGED failures
    \/ /\ failures < MaxFailures /\ failures' = failures + 1
       /\ Failed /\ UNCHANGED ring

submit_name_marked(t) ==
    LET n == callback[t].session IN
    /\ callback[t].at = "name"
    /\ Submit(t, n, [type |-> "track", thread |-> t, pid |-> process_id],
              At(t, "record"), Return(t))
    /\ names_sent' = [names_sent EXCEPT ![n] = @ \cup {t}]
    /\ UNCHANGED <<now, Rest, spans>>

\* AgentHandle::submit: first the track of the thread, once; when that fails the
\* event goes with it and the next one tries again.
submit_name(t) ==
    LET n == callback[t].session IN
    /\ callback[t].at = "name"
    /\ Submit(t, n, [type |-> "track", thread |-> t, pid |-> process_id],
              At(t, "record") /\ names_sent' = [names_sent EXCEPT ![n] = @ \cup {t}],
              Return(t) /\ UNCHANGED names_sent)
    /\ UNCHANGED <<now, Rest, spans>>

submit_event(t) ==
    LET n == callback[t].session
        e == callback[t].event
    IN  /\ callback[t].at = "record"
        /\ Submit(t, n, [type |-> e.call, thread |-> t, event |-> e],
                  Return(t), Return(t))
        /\ UNCHANGED <<now, Rest, spans, names_sent>>

Next ==
    \/ set_process_id \/ start \/ stop
    \/ \E t \in Threads :
           \/ \E s \in Spans : enter(t, s) \/ exit(t, s) \/ \E site \in Sites : new_span(t, s, site)
           \/ \E site \in Sites : event(t, site)
           \/ Filter(t) \/ on_enter(t) \/ on_exit(t) \/ on_event(t)
           \/ submit(t) \/ submit_name(t) \/ submit_event(t)
    \/ \E s \in Spans : close(s)

Spec == Init /\ [][Next]_vars

-----------------------------------------------------------------------------
Events(n) == {i \in DOMAIN ring[n] : ring[n][i].type # "track"}

IsTrack(n, i, t) == ring[n][i].type = "track" /\ ring[n][i].thread = t

\* In the ring of a session the first record of a thread with a name is the
\* track that names it, and there is only one, also when the ring was full or
\* the session ended meanwhile.
NamedFirst ==
    \A n \in Ids : \A i \in DOMAIN ring[n] :
        LET t == ring[n][i].thread
        IN  IF IsTrack(n, i, t) THEN \A j \in 1 .. (i - 1) : ring[n][j].thread # t
            ELSE t \in Named => \E j \in 1 .. (i - 1) : IsTrack(n, j, t)

\* A session's ring holds what its filter admits.  The one exception is what was
\* under way when the session began: an event whose callback had begun, a span
\* that had been created.
FilterHonoured ==
    \A n \in Ids : \A i \in Events(n) :
        ring[n][i].event.site \notin Sessions[n].filter => ring[n][i].event.since < n

\* A span that its thread entered while the session was on, alone or as the last
\* of the threads that share it, has the time of that enter and of its exit, on
\* the session's clock; and its events are on the process the session announced.
SpanTimesTrue ==
    \A n \in Ids : \A i \in Events(n) :
        LET e == ring[n][i].event
            own == e.entered.by = ring[n][i].thread /\ e.entered.since >= n
        IN  e.call = "exit" /\ own =>
                /\ e.start = e.entered.time + Offset[Sessions[n].clock]
                /\ e.start < e.end
                /\ e.pid = Sessions[n].pid
=============================================================================
